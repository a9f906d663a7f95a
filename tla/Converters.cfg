SPECIFICATION Spec
CONSTANTS
    x = x
    Letters = {x}
    Tables <- MCTables
    Header <- MCHeader
    FieldSize = 3
INVARIANTS
    TypeOK
    RoundTrip
    ReadsQuoted
PROPERTY KeepsOthers
