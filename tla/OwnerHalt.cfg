SPECIFICATION Spec
CONSTANTS
    RecheckInterval = 1
    Term = 2
    MinDuration = 2
    MaxCheckAge = 1
    MaxGrace = 1
INVARIANT OwnerHaltHolds
