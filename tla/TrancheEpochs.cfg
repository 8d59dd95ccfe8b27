SPECIFICATION Spec
CONSTANTS
    Users = {u1, u2}
    HookSupply = 3
    Markets <- MCMarkets
    BPS = 4
    FloorBps = 1
    RateUnit = 1
    Offset = 1
    Dust = 0
    MaxSupply = 2
    MaxPrincipal = 2
INVARIANTS
    TypeOK
    LockedIsBacked
    LockIsOwed
PROPERTIES
    SeniorWithinPromise
    FillsFavourStayers
    SettlingIsNeutral
    BackingFollowsClaims
    JuniorNeverAhead
SYMMETRY MCSymmetry
