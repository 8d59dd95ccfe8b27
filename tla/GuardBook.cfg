SPECIFICATION FairSpec
CONSTANTS
    RecheckInterval = 2
    Prices <- MCPrices
    GuardWidth = 1
    BaseWidth = 2
    BaseLiquidity = 1
    ParamChoices <- MCParamChoices
    VaultFunds = 4
    TraderFunds = 2
INVARIANTS
    TypeOK
    Conserved
    ExitedBookIsOut
PROPERTIES
    GuardLandsInBand
    OutageNeverRestarts
    GuardReturns
    BookPromise
