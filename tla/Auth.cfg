SPECIFICATION Spec
CONSTANTS
    a1 = a1
    a2 = a2
    r1 = r1
    r2 = r2
    Admins = {a1, a2}
    Roles = {r1, r2}
    RootRole = r1
    Paths = {"path"}
    Entities = {"user", "role"}
    Strict = {TRUE, FALSE}
    Absent = Absent
    NoPassword = NoPassword
    MaxCalls = 3
    MaxFaults = 1
SYMMETRY AdminSymmetry
CHECK_DEADLOCK FALSE
INVARIANT TypeOK
INVARIANT WriteTakesEffect
INVARIANT AgreementPrevails
