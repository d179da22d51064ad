CONSTANTS
    MaxItems = 2
    MaxKeys = 3
    MaxResults = 2
    Inputs <- MCInputs
    OutputMapping <- MCOutputMapping
    Results <- MCResults
SPECIFICATION Spec
INVARIANTS ShardsPartition CrossIsProduct SideIsKept ResultsKept
CHECK_DEADLOCK FALSE
