SPECIFICATION Spec
CONSTANTS
    Requests = {r1}
    Settings = {"a"}
    MaxOps = 3
    Ops = {"connect", "disconnect", "pair"}
INVARIANT NoQrOncePaired
CHECK_DEADLOCK FALSE
