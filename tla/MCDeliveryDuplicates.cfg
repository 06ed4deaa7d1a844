SPECIFICATION Spec
CONSTANTS
    MaxRows = 2
    BatchSize = 2
    MaxBatchSamples = 2
    WriteRows = 2
    TrimEvery = 2
    MaxId = 2
    MaxUuid = 4
    MaxRestarts = 0
    MaxFaults = 1
    Faults = {"lose"}
INVARIANT NoDuplicates
CHECK_DEADLOCK FALSE
