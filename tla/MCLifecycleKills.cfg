SPECIFICATION Spec

CONSTANTS
    Requests = {}
    Ops = {"loggedout", "qrtimeout", "presence"}
    MaxCalls = 5
    MaxChannels = 1

INVARIANTS
    NoOrphan

CHECK_DEADLOCK FALSE
