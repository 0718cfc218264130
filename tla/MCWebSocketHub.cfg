SPECIFICATION FairSpec
CONSTANTS
    Conns = {c1, c2, c3}
    Events = {e1, e2}
    Instances = {i1}
    None = None
INVARIANTS
    HubTypeOK
    OpenIsRegistered
    GoneIsRemoved
    EventReachesAll
PROPERTIES
    ProduceReturns
CHECK_DEADLOCK FALSE
