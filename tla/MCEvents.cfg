SPECIFICATION Spec
CONSTANTS
    Enter = 2
    Exit = 2
    Anchors = {"anchor"}
    Readings <- FewReadings
    Lookback = 2
    MaxTime = 5
    MaxLate = 1
    MaxReruns = 1
INVARIANTS
    TypeOK
    SpansAreRight
    StretchesCovered
    EventsAreEarned
PROPERTY ClosedStaysClosed
CHECK_DEADLOCK FALSE
