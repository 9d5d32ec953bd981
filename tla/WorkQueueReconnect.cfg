CONSTANTS
    i1 = i1
    i2 = i2
    i3 = i3
    p1 = p1
    p2 = p2
    Items = {i1, i2}
    Pods = {p1}
    None = None
    Unparseable = {}
    MaxCrashes = 1
    MaxDrops = 1
SPECIFICATION Spec
PROPERTY RedeliveredFailureDeadLetters
CHECK_DEADLOCK FALSE
