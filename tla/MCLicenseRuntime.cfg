SPECIFICATION Spec
CONSTANTS
    Requests = {r1, r2}
    Keys = {k1, k2}
    NoKey = NoKey
    EnvKeys = {k1, k2, NoKey}
    Operator = TRUE
    Messages = {m1, m2}
    MaxBoots = 2
SYMMETRY Symmetry
INVARIANTS
    LicenseTypeOK
    GateOpens
    ActiveIsEarned
    CountedOnce
PROPERTY NoneForgotten
CHECK_DEADLOCK FALSE
