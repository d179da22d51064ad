CONSTANTS
    f1 = f1  f2 = f2  f3 = f3
    p = p  a = a  b = b  c = c  d = d
    Functions <- MCFunctions
    Sets <- MCSets
    Compositions <- Layered
    Given <- NothingGiven
    Empty = Empty  Caller = Caller  NoSet = NoSet  Absent = Absent
SPECIFICATION Spec
INVARIANT
    OptionalRuns
CHECK_DEADLOCK FALSE
