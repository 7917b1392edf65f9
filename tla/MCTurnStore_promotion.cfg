SPECIFICATION Spec
CONSTANTS
    t1 = t1
    t2 = t2
    s1 = s1
    s2 = s2
    q1 = q1
    q2 = q2
    h1 = h1
    h2 = h2
    Traces <- OneTrace
    Sessions <- OneSession
    Requests <- TwoRequests
    Hashes <- OneHash
    LeaseLength = 1
    MinInactivity = 2
    MaxClock = 1
    MaxUuids = 2
    MaxRevision = 3
CHECK_DEADLOCK FALSE
INVARIANT ReservationIsPromoted
