CONSTANTS
    TABLE_SIZE = 4
    HandlersLeaveRoom = TRUE
    WordBits = 4
    PageCounts = {30, 31, 32}
    Layouts <- MCLayouts
    SystemPage = 2
    MaxAccesses = 0
SPECIFICATION Spec
CHECK_DEADLOCK FALSE
INVARIANT RangesNeverOverlap
