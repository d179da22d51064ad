CONSTANTS
    d = d
    e1 = e1
    e2 = e2
    Size = 3
    Threads <- MCThreads
    Poppers <- MCPoppers
SPECIFICATION Spec
SYMMETRY Symmetry
INVARIANTS
    OnePlace
    NoneAvailableMeansAllTaken
