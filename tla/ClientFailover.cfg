SPECIFICATION FairSpec
CONSTANTS
    s1 = s1
    s2 = s2
    s3 = s3
    alias = alias
    Hosts <- MCHosts
    Advertised = {s1, s2, s3}
    Servers = {s1, s2, s3}
    ServerOf <- MCServerOf
    Modes = {"cluster", "proxies", "single"}
    Statuses = {"up", "stuck", "down"}
    MaxChanges = 3
    MaxLost = 1
CHECK_DEADLOCK FALSE
INVARIANT TypeOK
INVARIANT SpareIsAnotherName
INVARIANT GivesUpOnlyAfterTryingAll
PROPERTY ClusterChangeIsAnnounced
PROPERTY RequestReturns
