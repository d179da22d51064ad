CONSTANTS
    h1 = h1
    h2 = h2
    h3 = h3
    Handles <- MCHandles
    Unit = 2
    PoolSize = 9
    MaxSize = 9
    Requests <- MCRequests
SPECIFICATION Spec
SYMMETRY Symmetry
INVARIANTS
    SizesMirrorRanges
PROPERTIES
    RefinesAllocator
