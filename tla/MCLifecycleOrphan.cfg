SPECIFICATION Spec

CONSTANTS
    Requests = {}
    Ops = {"closed", "qrtimeout"}
    MaxCalls = 3
    MaxChannels = 2

INVARIANTS
    NoOrphan

CHECK_DEADLOCK FALSE
