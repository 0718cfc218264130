SPECIFICATION Spec
CONSTANTS
    Requests = {r1, r2}
    Settings = {"a"}
    MaxOps = 3
    Ops = {"connect", "advanced", "setproxy", "removeproxy", "disconnect", "logout", "delete", "force", "pair", "drop", "loggedout", "qrtimeout", "crash"}
SYMMETRY RequestSymmetry
INVARIANTS
    RecordTypeOK
    PairingIsSaved
    ConnectionIsSaved
    RuntimeHasSettings
CHECK_DEADLOCK FALSE
