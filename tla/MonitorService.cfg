SPECIFICATION FairSpec
CONSTANTS
    h1 = h1 h2 = h2
    x1 = x1 x2 = x2 x3 = x3 x4 = x4 x5 = x5
    Hosts <- TwoHosts
    Handles <- TwoHandles
    Callers = {c1}
    Requests = {"nowait","conn"}
    Memberships <- FullView
    StaleCache <- NoStale
    Null = Null
    Free = Free
    Closed = Closed
    FaultKinds = {"failover","drop","connect","query"}
    MaxFaults = 1
    CanDestroy = TRUE
PROPERTIES
    RequestSatisfied
    
CHECK_DEADLOCK FALSE
