CONSTANTS
    r1 = r1
    r2 = r2
    Requests = {r1}
    None = None
SPECIFICATION Spec
INVARIANT ServiceGetsActive
CHECK_DEADLOCK FALSE
