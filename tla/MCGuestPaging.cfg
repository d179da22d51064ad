CONSTANTS
    TABLE_SIZE = 4
    HandlersLeaveRoom = TRUE
    WordBits = 4
    PageCounts = {16, 30, 32}
    Layouts <- MCLayouts
    SystemPage = 2
    MaxAccesses = 2
SPECIFICATION Spec
CHECK_DEADLOCK FALSE
INVARIANTS GuestSeesItsMemory GuestIsConfined OutputsReadBack
PROPERTIES FaultIsServed SharedPagesKept
