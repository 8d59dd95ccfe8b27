SPECIFICATION FairSpec
CONSTANTS
    RecheckInterval = 1
    Term = 3
    MinDuration = 2
    MaxCheckAge = 1
    MaxGrace = 1
INVARIANTS
    BookCoherent
    HaltIsTerminal
    PauseStandsDown
    KeeperStandDownHolds
    LatchCycleRestores
    SettledBookStaysOut
PROPERTIES
    StoppedStaysStopped
    LatchOutlastsCleanReads
    LastingDivergenceLatches
    LastingPegReopens
