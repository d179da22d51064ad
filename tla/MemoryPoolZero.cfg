CONSTANTS
    h1 = h1
    h2 = h2
    h3 = h3
    Handles <- MCHandles
    Unit = 2
    PoolSize = 8
    MaxSize = 8
    Requests <- MCRequestsWithZero
SPECIFICATION Spec
SYMMETRY Symmetry
INVARIANTS
    SizesHaveRanges
