SPECIFICATION FairSpec
INVARIANTS
    NoCellRace
    OnlyTheValue
    FreedByTheLast
PROPERTIES
    Resolves
CHECK_DEADLOCK FALSE
