SPECIFICATION FairSpec
CONSTANTS
    m1 = m1
    m2 = m2
    Members = {m1, m2}
    Primary = m1
    Snapshots = {"before", "moved", "renewed"}
    NoRegistry = NoRegistry
    Legacy = Legacy
    NoView = NoView
    Stopped = Stopped
    NoCfg = NoCfg
    Absent = Absent
    Null = Null
    LegacyCfg = LegacyCfg
    NoCerts <- MCNoCerts
    Cfg <- MCCfg
    Certs <- MCCerts
    ParseFails <- MCParseFails
    LinkFails <- MCLinkFails
    MaxIndex = 2
    HistorySize = 1
    MaxCluster = 2
    FaultKinds = {"request", "failover", "sigterm", "crash"}
    MaxFaults = 1
INVARIANT MemoryIsTruth
PROPERTY ServesOneRegistry
PROPERTY Converges
