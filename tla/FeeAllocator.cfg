SPECIFICATION Spec
CONSTANTS
    BPS = 10000
    Unit = 40
    Grain = 10
    Fine = 200
    Hundred = 100
    SubTicks = 3
    BlockHours = 3
    Horizon = 8
    BookCapitalFloor = 1
    Runs <- MCRuns
    Tapes <- MCTapes
    Markets = {"volume_3x", "book_b_10x"}
    Paths <- MCPaths
INVARIANTS
    TypeOK
    BlocksJoin
    DrainsWhileHigh
    CapHeldOnEntry
    AtCapIsNotOverCap
    ReadingsAgree
    StarIsBest
CHECK_DEADLOCK FALSE
