SPECIFICATION FairSpec
CONSTANTS
    c1 = c1
    c2 = c2
    Children = {c1, c2}
    Hosts <- MCHosts
    MaxLosses = 4
    MaxRestarts = 1
CONSTRAINT Shape
CHECK_DEADLOCK FALSE
INVARIANTS
    ReceiptsConsistent
    SentIsFinal
PROPERTIES
    OutcomeIsFinal
    DeliveredChildCloses
