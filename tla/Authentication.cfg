SPECIFICATION ClientSpec
CONSTANTS
    Threads = {t1, t2}
    LogUsers = {t1, t2}
    Mixtures = {TRUE, FALSE}
    Directories = {"logs"}
    Unusable = {}
    Pages <- AllPages
    Lifetime = 1
    MaxTime = 2
    Prompt = TRUE
    None = None
    Torn = Torn
INVARIANT SdkUpWhileUsed
INVARIANT SdkDownWhenIdle
INVARIANT ObjectsNeedSdk
INVARIANT LogFollowsUsers
PROPERTY NoTokenAfterFailure
PROPERTY HitIsValid
PROPERTY CallReturns
CHECK_DEADLOCK FALSE
