SPECIFICATION Spec
CONSTANTS
    none = none
    NoEntry = NoEntry
    Absent <- none
    Keys <- ThreeKeys
    Values <- FourIds
    TTL = 2
    MaxLog = 5
    Clusters <- TwoClusters
    Calls <- SomeCalls
CHECK_DEADLOCK FALSE
INVARIANT TypeOK
INVARIANT WeightedRotation
PROPERTY ExpiredEntriesRemoved
