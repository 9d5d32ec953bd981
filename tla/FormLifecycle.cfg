CONSTANTS
    r1 = r1
    r2 = r2
    r3 = r3
    lock1 = lock1
    lock2 = lock2
    delete1 = delete1
    Requests = {r1, r2, r3}
    LockRuns = {lock1, lock2}
    DeleteRuns = {delete1}
    None = None
    Gone = Gone
    MaxFailures = 1
SPECIFICATION FairSpec
INVARIANTS
    TypeOK
    FieldsFollowStatus
    
    SubmissionKeepsData
PROPERTIES
    LifecycleFollowed
    
CHECK_DEADLOCK FALSE
