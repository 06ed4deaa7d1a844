SPECIFICATION FairSpec
CONSTANTS
    MaxRows = 2
    BatchSize = 2
    MaxBatchSamples = 2
    WriteRows = 2
    TrimEvery = 2
    MaxId = 3
    MaxUuid = 13
    MaxRestarts = 1
    MaxFaults = 2
    Faults = {"lose", "slow", "error", "skew", "disk", "foreign"}
PROPERTY EveryRowLeaves
CHECK_DEADLOCK FALSE
