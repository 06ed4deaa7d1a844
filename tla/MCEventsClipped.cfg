SPECIFICATION Spec
CONSTANTS
    Enter = 2
    Exit = 2
    Anchors = {"anchor"}
    Readings <- FewReadings
    Lookback = 2
    MaxTime = 5
    MaxLate = 0
    MaxReruns = 0
INVARIANT OneEventPerOutage
CHECK_DEADLOCK FALSE
