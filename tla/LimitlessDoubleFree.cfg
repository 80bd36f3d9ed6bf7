SPECIFICATION Spec
CONSTANTS
    Clients = {c1}
    Routers = {r1, r2}
    Attempts = 2
    Disciplines = {TRUE}
    FaultKinds = {"connect"}
    MaxFaults = 2
CHECK_DEADLOCK FALSE
INVARIANT HandleFreedOnce
