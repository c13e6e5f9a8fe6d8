SPECIFICATION Spec
CONSTANTS
    Word <- MCWord
    OverflowChecks = FALSE
    TileSize <- MCTileSize
    Codec <- MCCodec
    IterationLimit = 16
    CHUNK_SIZE = 2
    Hex <- MCHex
    Files <- NestedFiles
    ReadSizes <- MCReadSizes
    SeekStarts <- MCSeekStarts
    SeekDeltas <- MCSeekDeltas
INVARIANT
    CoveredReadsTarget
