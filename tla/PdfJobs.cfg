CONSTANTS
    j1 = j1
    p1 = p1
    Jobs = {j1}
    Pods = {p1}
    None = None
    MaxCrashes = 1
    MaxDrops = 2
SPECIFICATION FairSpec
INVARIANTS
    TypeOK
    
    
    RecordIsVerdict
    FilesBounded
 
CHECK_DEADLOCK FALSE
