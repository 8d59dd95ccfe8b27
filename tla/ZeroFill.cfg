SPECIFICATION Spec
CONSTANTS
    Users = {u1}
    HookSupply = 3
    Markets <- MCMarkets
    BPS = 4
    FloorBps = 1
    RateUnit = 1
    Offset = 1
    Dust = 0
    MaxSupply = 3
    MaxPrincipal = 2
PROPERTY ClaimNeverBurnsForNothing
