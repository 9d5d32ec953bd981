CONSTANTS
    f1 = f1
    r1 = r1
    r2 = r2
    Files = {f1}
    Requests = {r1}
    Target <- OneTarget
    MaxCrashes = 2
SPECIFICATION FairSpec
PROPERTY DeletedIsErased
CHECK_DEADLOCK FALSE
