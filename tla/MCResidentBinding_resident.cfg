SPECIFICATION Spec
CONSTANTS
    MaxTurns = 3
    MaxSwitches = 2
    MaxLosses = 1
    FailureSets <- Scenarios
CONSTRAINT Shape
CHECK_DEADLOCK FALSE
INVARIANTS TypeOK ClaimIsUsable ClosedClaimsAreReleased
PROPERTY ReferenceNeedsKernel
