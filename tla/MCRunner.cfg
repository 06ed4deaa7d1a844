SPECIFICATION Spec
CONSTANTS
    Threshold = 2
    Jumps <- BothWays
    MaxMono = 6
    MaxJumps = 1
    CycleInterval = 2
    CycleJitter = 1
    Scheduled = {"dns"}
    Every <- OneRate
    Jitter = 0
    TrimInterval = 2
    MaxFailures = 1
    MaxRestarts = 1
INVARIANTS
    TypeOK
    StampsTrackWall
    ShiftsAreExplained
    SentNeverBehind
    CollectorsKeepPace
    WritesBetweenTrims
PROPERTIES
    CollectorsAreSpaced
    SuspendsNeedAHeldThread
CHECK_DEADLOCK FALSE
