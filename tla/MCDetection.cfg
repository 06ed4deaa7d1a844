SPECIFICATION FairSpec
CONSTANTS
    h1 = h1
    h2 = h2
    Handlers = {h1, h2}
    Lookback = 1
    MaxTime = 2
    MaxBatches = 2
    MaxFaults = 2
INVARIANTS
    TypeOK
    FreshNeverSkipped
    LateDataReopened
PROPERTY DueIsAnalyzed
CHECK_DEADLOCK FALSE
