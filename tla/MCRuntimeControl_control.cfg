SPECIFICATION Spec
CONSTANTS
    w1 = w1
    w2 = w2
    r1 = r1
    r2 = r2
    NoOne = NoOne
    Writers <- MCPair
    Readers <- MCReaders
    MaxLosses = 1
CONSTRAINT Shape
CHECK_DEADLOCK FALSE
INVARIANTS
    TypeOK
    AnswersHold
    ReadHeldDuring
PROPERTIES
    LockReleased
    ImplementsSwitch
