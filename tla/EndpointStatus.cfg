CONSTANTS
    c1 = c1
    r1 = r1
    r2 = r2
    Checks = {c1}
    Requests = {r1, r2}
    SampleSize = 2
    MinFailed = 2
    AutoChange = TRUE
    MaxCrashes = 1
SPECIFICATION FairSpec
INVARIANTS
    TypeOK
    
PROPERTY CacheFollowsStatus
CHECK_DEADLOCK FALSE
