SPECIFICATION FairSpec
CONSTANTS
    Hosts = {h1, h2}
    Threads = {t1, t2}
    Configurations <- SomeConfigurations
    Null = Null
    Free = Free
    Closed = Closed
    Lost = Lost
    FaultKinds = {"failover", "drop", "connect", "query", "expire", "stale", "hang"}
    MaxFaults = 1

CHECK_DEADLOCK FALSE
PROPERTY GivesUpOnlyLate
PROPERTY FailoverReturns
PROPERTY KeepsPromise
