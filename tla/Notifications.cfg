CONSTANTS
    e1 = e1
    s1 = s1
    s2 = s2
    Events = {e1}
    Subscribed <- TwoTypes
    Leaving = {s1}
    Unsupported = {s1}
    PageSize = 1
    MaxCrashes = 1
SPECIFICATION FairSpec
INVARIANTS
    TypeOK
    
    
    
 
CHECK_DEADLOCK FALSE
