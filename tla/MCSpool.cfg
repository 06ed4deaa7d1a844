SPECIFICATION SpoolSpec
CONSTANTS
    MaxRows = 2
    BatchSize = 2
    WriteRows = 2
    TrimEvery = 2
    MaxId = 9
    MaxUuid = 4
    MaxRestarts = 1
    Faults = {"portal"}
INVARIANTS
    SpoolTypeOK
    ClaimsBelongToSender
    OldestFirst
    BacklogBounded
CHECK_DEADLOCK FALSE
