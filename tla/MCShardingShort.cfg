CONSTANTS
    MaxItems = 2
    MaxKeys = 3
    MaxResults = 2
    Inputs <- Products
    OutputMapping <- MCOutputMapping
    Results <- MCResults
SPECIFICATION Spec
INVARIANTS AllResultsKept
CHECK_DEADLOCK FALSE
