CONSTANTS
    f1 = f1  f2 = f2  f3 = f3
    p = p  a = a  b = b  c = c  d = d
    Functions <- MCFunctions
    Sets <- MCSets
    Compositions <- Doubled
    Given <- AllGiven
    Empty = Empty  Caller = Caller  NoSet = NoSet  Absent = Absent
SPECIFICATION FairSpec
PROPERTY
    OutputIsFinal
CHECK_DEADLOCK FALSE
