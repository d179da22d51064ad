CONSTANTS
    Size = 16
    Sizes = {0, 1, 3, 9}
    Align = 2
    TypeAligns = {1, 2}
    Page = 4
    MaxOutputs = 2
SPECIFICATION Spec
INVARIANT
    OutputsMarked
CHECK_DEADLOCK FALSE
