SPECIFICATION Spec
CONSTANTS
    Null = Null
    Rows <- ManyRows
    Results <- UpToThree
    Garbage = {0, 50}
INVARIANT HandlesAlive
INVARIANT NothingLeft
INVARIANT RouterWeightsValid
PROPERTY KeepsPromise
PROPERTY CallReturns
