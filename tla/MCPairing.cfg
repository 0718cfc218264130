SPECIFICATION Spec

CONSTANTS
    Instances = {i1}
    Tokens = {t1, t2}
    Tabs = {k1}
    None = None
    TTL = 0
    MaxTime = 1
    MaxSockets = 2
    MaxPending = 1
    Codes = 1
    QrcodeMaxCount = 1

SYMMETRY TokenSymmetry

INVARIANTS
    PairingTypeOK
    NoCeremonyAfterPairing
    StagesAreEarned

CHECK_DEADLOCK FALSE
