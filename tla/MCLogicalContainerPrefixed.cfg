SPECIFICATION LSpec
CONSTANTS
    Word <- MCWord
    OverflowChecks = FALSE
    TileSize <- MCTileSize
    Codec <- MCCodec
    Decipher <- MCDecipher
    CipherBlock = 2
    IterationLimit = 16
    CHUNK_SIZE = 2
    Hex <- MCHex
    Passwords <- MCPasswords
    Spelled <- MCSpelled
    Volumes <- MCVolumes
    Files <- PrefixedFiles
INVARIANT
    PrefixedFilesFound
CHECK_DEADLOCK FALSE
