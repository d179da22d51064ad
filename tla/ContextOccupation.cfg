CONSTANTS
    Size = 16
    Sizes = {0, 1, 3, 9}
    Align = 2
    TypeAligns = {1, 2}
    Page = 4
    MaxOutputs = 2
SPECIFICATION Spec
INVARIANTS
    ListIsExact
PROPERTIES
    GrantsAreFree
    NoFalseContextFull
CHECK_DEADLOCK FALSE
