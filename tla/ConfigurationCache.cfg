CONSTANTS
    r1 = r1
    r2 = r2
    Requests = {r1, r2}
    None = None
SPECIFICATION FairSpec
INVARIANTS
    TypeOK
    RevisionsContiguous
    ActiveExists
    StaleIsAnnounced
PROPERTY CatchesUp
CHECK_DEADLOCK FALSE
