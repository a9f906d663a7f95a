SPECIFICATION CallsSpec
CONSTANTS
    p1 = p1
    p2 = p2
    r1 = r1
    r2 = r2
    k1 = k1
    k2 = k2
    NoKey = NoKey
    Procs <- OneProc
    Records <- TwoRecords
    Keys <- TwoKeys
    Lists <- SingleLists
    MaxTime = 2
INVARIANTS
    TypeOK
    PromiseRecoverable
    SuccessIsComplete
    SingleInv
PROPERTY ImplementsRecordStore
