SPECIFICATION Spec
CONSTANTS
    t1 = t1
    t2 = t2
    s1 = s1
    s2 = s2
    q1 = q1
    q2 = q2
    h1 = h1
    h2 = h2
    Traces <- TwoTraces
    Sessions <- OneSession
    Requests <- TwoRequests
    Hashes <- TwoHashes
    LeaseLength = 1
    MinInactivity = 2
    MaxClock = 4
    MaxUuids = 5
    MaxRevision = 3
SYMMETRY TraceSymmetry
CONSTRAINT Shape
CHECK_DEADLOCK FALSE
INVARIANTS
    TypeOK
    OutcomeConsistent
    TurnsAreDistinct
    StopMeetsOneTurn
    AttemptIsolated
PROPERTIES
    ImplementsAuthority
    TerminalIsForever
    ChangeAdvancesRevision
    AuthorityNeverReturns
    AttemptsAreKept
