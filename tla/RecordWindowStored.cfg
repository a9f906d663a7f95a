SPECIFICATION Spec
CONSTANTS
    Size = 2
    MaxRecords = 1
    Garbled = Garbled
PROPERTY GeneratedIsStored
