SPECIFICATION Spec
CONSTANTS
    Word <- MCWord
    OverflowChecks = FALSE
    TileSize <- MCTileSize
    Codec <- MCCodec
    Files <- UncheckedFiles
INVARIANT
    EmptyMeansReconciled
CHECK_DEADLOCK FALSE
