SPECIFICATION FairSpec
CONSTANTS
    h1 = h1 h2 = h2
    x1 = x1 x2 = x2 x3 = x3 x4 = x4 x5 = x5
    Hosts <- TwoHosts
    Handles <- TwoHandles
    Callers = {c1}
    Requests = {}
    Memberships <- FullView
    StaleCache <- TwoStale
    Null = Null
    Free = Free
    Closed = Closed
    FaultKinds = {"failover","drop","connect","query","partial","expire"}
    MaxFaults = 2
    CanDestroy = FALSE
PROPERTIES
    PanicEnds
    WriterPublished
    JoinEnds
    IgnoreWindowCloses
CHECK_DEADLOCK FALSE
