SPECIFICATION Spec
CONSTANTS
    c1 = c1
    c2 = c2
    c3 = c3
    p1 = p1
    p2 = p2
    k1 = k1
    k2 = k2
    Children <- TwoChildren
    Parents <- OneParent
    Keys <- TwoKeys
    ParentOf <- SameParent
    Budget = 2
    Concurrency = 1
    LeaseLength = 2
    CacheLength = 1
    WaitLength = 2
    LockWait = 1
    MaxClock = 3
    MaxGrants = 3
    MaxTries = 2
CONSTRAINT Shape
SYMMETRY ChildSymmetry
CHECK_DEADLOCK FALSE
INVARIANTS
    TypeOK
    ParentLimitsHold
PROPERTIES
    RoutesGetNewer
    LiveLeaseIsSafe
