SPECIFICATION Spec
CONSTANTS
    l1 = l1
    l2 = l2
    Locks = {l1, l2}
    Ttls = {TRUE}
    Callers = {"poll"}
    MaxKey = 2
    MaxFaults = 0
CHECK_DEADLOCK FALSE
INVARIANT MutualExclusion
