SPECIFICATION Spec
CONSTANTS
    Size = 2
    MaxRecords = 2
    Garbled = Garbled
INVARIANTS
    TypeOK
    AssertionsHold
    NamesAgree
PROPERTIES
    ImplementsRecordList
    
    SearchVisitsAll
