SPECIFICATION Spec
CONSTANTS
    p1 = p1
    p2 = p2
    r1 = r1
    r2 = r2
    k1 = k1
    k2 = k2
    NoKey = NoKey
    Procs <- TwoProcs
    Records <- OneRecord
    Keys <- OneKey
    Lists <- SharedLists
    MaxTime = 2
SYMMETRY SymmetricProcs
VIEW Shared
INVARIANT MtimeCoversForeign
PROPERTY SeesForeignChange
