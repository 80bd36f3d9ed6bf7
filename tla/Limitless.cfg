SPECIFICATION FairSpec
CONSTANTS
    Clients = {c1, c2}
    Routers = {r1, r2}
    Attempts = 2
    Disciplines = {TRUE, FALSE}
    FaultKinds = {"alloc", "connect", "query", "drop"}
    MaxFaults = 2
CHECK_DEADLOCK FALSE
INVARIANT NothingLeftBehind
PROPERTY IsRefCounted
PROPERTY RoutersStayKnown
PROPERTY GivesUpOnlyAllDown
PROPERTY RoutersArrive
PROPERTY StopEnds
