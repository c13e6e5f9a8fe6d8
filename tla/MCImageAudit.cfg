SPECIFICATION FairSpec
CONSTANTS
    Word <- MCWord
    OverflowChecks = FALSE
    TileSize <- MCTileSize
    Codec <- MCCodec
    Files <- MCFiles
INVARIANTS
    TypeOK
    HashersSeeContent
    FindingsExact
PROPERTY
    AuditEnds
CHECK_DEADLOCK FALSE
