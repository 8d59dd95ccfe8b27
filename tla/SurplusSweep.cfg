SPECIFICATION Spec
CONSTANTS
    BPS = 10000
    DustUsd = 1
    DustNvda = 0
    PriceAt <- MCPrices
    UsdgPerTick = 2
    NvdaPerTick = 1
    PipBase = 4
    BinsPerHour = 2
    YearHours = 1
    Grain = 4
    Configs <- SweepConfigs
    Hours <- MCHours
    Calm <- MCCalm
    Storm = 4
    FirstTick = 1
    Cycle = 2
    MaxIncome = 1
PROPERTY
    SweepBorrows
