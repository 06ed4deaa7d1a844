SPECIFICATION Spec
CONSTANTS
    h1 = h1
    Handlers = {h1}
    Lookback = 2
    MaxTime = 4
    MaxBatches = 1
    MaxFaults = 0
INVARIANT NoSilentGap
CHECK_DEADLOCK FALSE
