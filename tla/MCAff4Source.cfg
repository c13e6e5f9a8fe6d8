SPECIFICATION FairSpec
CONSTANTS
    Word <- MCWord
    OverflowChecks = TRUE
    TileSize <- MCTileSize
    Codec <- MCCodec
    Threads = {t1, t2}
    NoThread = none
    Files <- SharedFiles
    Requests <- MCRequests
    MaxCalls = 2
INVARIANTS
    TypeOK
    CursorFollowsHolder
PROPERTIES
    IsPositionedRead
    CallsAdvance
    EveryCallReturns
CHECK_DEADLOCK FALSE
