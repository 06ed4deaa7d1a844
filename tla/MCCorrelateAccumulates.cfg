SPECIFICATION Spec
CONSTANTS
    Probes = {"pi", "living"}
    Reruns = {"rerun"}
    Active = {"pi", "living"}
    Link <- WiredAndWifi
    Group <- OwnGroups
    Offsets <- WifiIsAhead
    Tolerance = 0
    Trailing = 1
    MaxTime = 3
    MaxCorrelations = 2
    MaxChanges = 2
INVARIANT IncidentsAreGroups
CHECK_DEADLOCK FALSE
