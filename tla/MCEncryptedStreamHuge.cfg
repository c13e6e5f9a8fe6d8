SPECIFICATION Spec
CONSTANTS
    Word <- MCWord
    OverflowChecks = FALSE
    TileSize <- MCTileSize
    Codec <- MCCodec
    Decipher <- MCDecipher
    CipherBlock = 2
    IterationLimit = 16
    Passwords <- MCPasswords
    Files <- HugeFiles
INVARIANT
    MustNotPanic
CHECK_DEADLOCK FALSE
