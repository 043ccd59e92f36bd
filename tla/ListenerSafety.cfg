SPECIFICATION PromptSpec
CONSTANTS
    m1 = m1
    m2 = m2
    Members = {m1}
    Primary = m1
    Snapshots = {"before", "moved", "noid", "unnamed"}
    NoRegistry = NoRegistry
    Legacy = Legacy
    NoView = NoView
    Stopped = Stopped
    NoCfg = NoCfg
    Absent = Absent
    Null = Null
    LegacyCfg = LegacyCfg
    NoCerts <- MCNoCerts
    Cfg <- MCCfg
    Certs <- MCCerts
    ParseFails <- MCParseFails
    LinkFails <- MCLinkFails
    MaxIndex = 3
    HistorySize = 1
    MaxCluster = 2
    FaultKinds = {"request", "save", "sigterm", "crash"}
    MaxFaults = 1
INVARIANT TypeOK
INVARIANT NoLostWakeup
PROPERTY ConvergesPromptly
