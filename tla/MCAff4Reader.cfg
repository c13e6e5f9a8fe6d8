SPECIFICATION Spec
CONSTANTS
    Word <- MCWord
    OverflowChecks = FALSE
    TileSize <- MCTileSize
    Codec <- MCCodec
    IterationLimit = 16
    CHUNK_SIZE = 2
    Hex <- MCHex
    Files <- AllFiles
    ReadSizes <- MCReadSizes
    SeekStarts <- MCSeekStarts
    SeekDeltas <- MCSeekDeltas
INVARIANTS
    TypeOK
    ReadsDeliverDisk
    FixturesReadBack
PROPERTIES
    IsVirtualDisk
    CopyReachesEnd
