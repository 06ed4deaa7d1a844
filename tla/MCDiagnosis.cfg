SPECIFICATION Spec
CONSTANTS
    Enter = 2
    Exit = 2
    Anchors = {"anchor"}
    Resolvers = {"dns-gateway", "dns-public"}
    Interfaces = {"eth"}
    LossWindow = 4
    MinFailures = 2
    MinLoss = 50
    FullLoss = 95
    SpikeConfirm = 2
    MinRtts = 3
    Multiplier = 3
    FloorMs = 50
    SlowConfirm = 2
    QueryNames <- TwoNames
    TargetBuckets = 5
    MinBucket = 1
    WorstSub = 12
    WorstMinSamples = 2
    Faults <- AllFaults
    Hosts <- Platforms
    Every <- Cadence
    PingWait = 1
    DnsWait = 1
    HttpWait = 2
    Queries <- FewQueries
    Naps = {0, 2}
    Moments <- RecoverThenFail
    MaxTicks = 11
    MaxChanges = 2
INVARIANTS
    TypeOK
    FindingsAreEarned
    LastingFaultsAreNamed
    MarksTellHijacks
    RibbonShowsOutage
    
CHECK_DEADLOCK FALSE
