SPECIFICATION Spec
CONSTANTS
    Threads = {t1, t2, t3, t4}
    Liberties <- AnyLiberties
INVARIANTS
    CountsAreRight
    HeldServiceLives
    FailoverOnLiveService
PROPERTY IsRefCounted
CHECK_DEADLOCK FALSE
