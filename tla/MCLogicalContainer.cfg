SPECIFICATION LFairSpec
CONSTANTS
    Word <- MCWord
    OverflowChecks = FALSE
    TileSize <- MCTileSize
    Codec <- MCCodec
    Decipher <- MCDecipher
    CipherBlock = 2
    IterationLimit = 16
    CHUNK_SIZE = 2
    Hex <- MCHex
    Passwords <- MCPasswords
    Spelled <- MCSpelled
    Volumes <- MCVolumes
    Files <- MCLogicalFiles
INVARIANTS
    TypeOK
    PlainSoFar
    DecryptsExactly
    LoopBounded
    LTypeOK
    FilesAreTheirOwn
    KindFitsOpener
PROPERTIES
    GoodStreamAccepted
    DecryptEnds
    DecryptSucceeds
CHECK_DEADLOCK FALSE
