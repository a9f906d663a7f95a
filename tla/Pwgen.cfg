SPECIFICATION Spec
CONSTANTS
    Objs = {o1, o2, o3}
    MaxFd = 3
    CacheSize = 2
    MaxByte = 5
    Highs <- MCHighs
    Chars <- MCChars
    PoolOf <- MCPoolOf
    MaxSize = 4
    Nobody = nobody
INVARIANTS
    GenTypeOK
    DescriptorsOwned
    MovedIsEmpty
    GeneratedFits
PROPERTY
    GenerationEnds
