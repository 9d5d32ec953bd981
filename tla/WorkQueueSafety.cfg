CONSTANTS
    i1 = i1
    i2 = i2
    i3 = i3
    p1 = p1
    p2 = p2
    Items = {i1, i2, i3}
    Pods = {p1, p2}
    None = None
    Unparseable = {i3}
    MaxCrashes = 1
    MaxDrops = 1
SPECIFICATION Spec
INVARIANTS
    TypeOK
    
    OneHandlerPerItem
    RetriedOnce
    AckedWasProcessed
PROPERTY SettledForever
SYMMETRY PodSymmetry
CHECK_DEADLOCK FALSE
