SPECIFICATION Spec
CONSTANTS
    Word = 64
    OverflowChecks = FALSE
    IterationLimit = 16
    Hex <- MCHex
    Nodes <- MCNodes
    Styles <- MCStyles
    MaxNodes = 4
INVARIANTS
    TypeOK
    BlocksAreTheNodes
    DiskMetaIsTheGraphs
    FilesAreTheGraphs
    EncryptedMetaIsTheGraphs
CHECK_DEADLOCK FALSE
