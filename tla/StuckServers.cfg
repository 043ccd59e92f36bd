SPECIFICATION FairSpec
CONSTANTS
    s1 = s1
    s2 = s2
    s3 = s3
    alias = alias
    Hosts <- MCHosts
    Advertised = {s1, s2, s3}
    Servers = {s1, s2, s3}
    ServerOf <- MCServerOf
    Modes = {"cluster"}
    Statuses = {"up", "stuck"}
    MaxChanges = 0
    MaxLost = 0
CHECK_DEADLOCK FALSE
PROPERTY RetriesEnd
