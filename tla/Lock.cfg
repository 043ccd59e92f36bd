SPECIFICATION FairSpec
CONSTANTS
    l1 = l1
    l2 = l2
    Locks = {l1, l2}
    Ttls = {TRUE, FALSE}
    Callers = {"poll", "any"}
    MaxKey = 3
    MaxFaults = 1
CHECK_DEADLOCK FALSE
INVARIANT TypeOK
INVARIANT Exclusion
INVARIANT OneEntryPerLock
PROPERTY ServesInOrder
PROPERTY PollersAcquire
