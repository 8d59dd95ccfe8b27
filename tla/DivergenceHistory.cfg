SPECIFICATION HSpec
CONSTANTS
    RecheckInterval = 1
    Term = 3
    MinDuration = 2
    MaxCheckAge = 1
    MaxGrace = 1
PROPERTY LatchOutlastsDisabledReads
