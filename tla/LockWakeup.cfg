SPECIFICATION FairSpec
CONSTANTS
    l1 = l1
    l2 = l2
    Locks = {l1, l2}
    Ttls = {FALSE}
    Callers = {"any"}
    MaxKey = 4
    MaxFaults = 0
CHECK_DEADLOCK FALSE
PROPERTY BlockingCallsEnd
