SPECIFICATION StoreSpec

CONSTANTS
    Instances = {i1, i2}
    Tokens = {t1, t2, t3}
    None = None
    TTL = 1
    MaxTime = 3

SYMMETRY StoreSymmetry

INVARIANTS
    StoreTypeOK
    IndexesAgree
    StageContent

PROPERTIES
    TokensNeverReturn
