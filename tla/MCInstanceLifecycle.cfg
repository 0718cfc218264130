SPECIFICATION Spec

CONSTANTS
    Requests = {r1, r2}
    Ops = {"connect", "reconnect", "disconnect", "logout", "getqr", "pair",
           "delete", "force", "closed", "loggedout", "redial"}
    MaxCalls = 2
    MaxChannels = 2

SYMMETRY RequestSymmetry

INVARIANTS
    LifecycleTypeOK
    KilledStaysOut
    ConnectedIsPolled

CHECK_DEADLOCK FALSE
