SPECIFICATION Spec
CONSTANTS
    MaxRows = 2
    BatchSize = 2
    MaxBatchSamples = 2
    WriteRows = 2
    TrimEvery = 2
    MaxId = 3
    MaxUuid = 6
    MaxRestarts = 1
    MaxFaults = 2
    Faults = {"lose", "slow", "error", "skew", "disk", "foreign", "portal", "retire"}
INVARIANTS
    TypeOK
    NoSilentLoss
    AnswerMeansStored
    OneHistory
    DuplicatesBounded
PROPERTIES
    KeepsPromise
CHECK_DEADLOCK FALSE
