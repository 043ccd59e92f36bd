SPECIFICATION FairSpec
CONSTANTS
    m1 = m1
    m2 = m2
    u1 = u1
    u2 = u2
    w1 = w1
    Members = {m1, m2}
    Snapshots = {"x", "y"}
    NoRegistry = NoRegistry
    MaxIndex = 3
    HistorySize = 1
    MaxCluster = 2
    Updaters = {u1}
    Watchers = {w1}
    Casts = {{u1}, {w1}}
    None = None
    MaxCalls = 2
    MaxFaults = 1
CHECK_DEADLOCK FALSE
INVARIANT TypeOK
INVARIANT EveryChangeOnce
INVARIANT UpdatesOnce
PROPERTY EveryChangeArrives
