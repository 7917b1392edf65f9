SPECIFICATION LifecycleSpec
CONSTANTS
    t1 = t1
    t2 = t2
    s1 = s1
    q1 = q1
    h1 = h1
    h2 = h2
    c1 = c1
    c2 = c2
    f1 = f1
    f2 = f2
    Traces <- OneTrace
    Sessions <- OneSession
    Requests <- OneRequest
    Hashes <- OneHash
    LeaseLength = 1
    MinInactivity = 2
    MaxClock = 3
    MaxUuids = 5
    MaxRevision = 1
    Callers <- TwoCallers
    Finalizers <- NoFinalizer
    Calls <- OneTraceCalls
    WaitLength = 1
    MaxCrashes = 1
CHECK_DEADLOCK FALSE
PROPERTIES
    CallersTerminate
    PreflightSettles
