SPECIFICATION Spec
CONSTANTS
    h1 = h1 h2 = h2
    x1 = x1 x2 = x2 x3 = x3 x4 = x4 x5 = x5
    Hosts <- TwoHosts
    Handles <- TwoHandles
    Callers = {c1}
    Requests = {"verify"}
    Memberships <- FullView
    StaleCache <- NoStale
    Null = Null
    Free = Free
    Closed = Closed
    FaultKinds = {"failover","drop","query","partial"}
    MaxFaults = 1
    CanDestroy = FALSE
INVARIANTS
    OneOwner
    NoHandleLeak
    WriterConnectionMatchesHost
    HandOverStopsNodes
    ReaderConnectionStays
    QueriedHandleNotReused
CHECK_DEADLOCK FALSE
