SPECIFICATION Spec
CONSTANTS
    PAGE_SIZE = 2
    Size = 8
    Contexts = {1, 2, 3}
    Writes <- MCWrites
    Runs <- MCRuns
    Transfers <- MCTransfers
    MaxSteps = 4
PROPERTY
    TransfersSucceed
CHECK_DEADLOCK FALSE
