CONSTANTS
    f1 = f1
    r1 = r1
    r2 = r2
    Files = {f1}
    Requests = {r1, r2}
    Target <- SameTarget
    MaxCrashes = 1
SPECIFICATION Spec
INVARIANTS
    TypeOK
    NoInfectedServed
    AckedIsScanned
    AckedIsErased
    ContentHasRecord
PROPERTIES
    MarkedForGood
SYMMETRY RequestSymmetry
CHECK_DEADLOCK FALSE
