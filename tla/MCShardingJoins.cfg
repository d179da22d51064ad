CONSTANTS
    MaxItems = 2
    MaxKeys = 3
    MaxResults = 2
    Inputs <- InnerJoins
    OutputMapping <- MCOutputMapping
    Results <- MCResults
SPECIFICATION Spec
INVARIANTS JoinsAsDescribed
CHECK_DEADLOCK FALSE
