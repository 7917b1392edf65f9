SPECIFICATION Spec
CONSTANTS
    MaxTurns = 2
    MaxSwitches = 2
    MaxLosses = 0
    FailureSets <- ErrorsOnly
CHECK_DEADLOCK FALSE
PROPERTY FailedClaimsWentOut
