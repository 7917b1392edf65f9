SPECIFICATION Spec
CONSTANTS
    p1 = p1
    p2 = p2
    Pids <- MCTwo
    Ceiling = 1
    MaxBirths = 3
    MaxOffs = 1
CONSTRAINT Shape
CHECK_DEADLOCK FALSE
INVARIANTS
    TypeOK
    RecordedUnlessOverwritten
    ReportIsTrue
PROPERTIES
    RefusedOnlyAtCeiling
    AbandonedEnds
