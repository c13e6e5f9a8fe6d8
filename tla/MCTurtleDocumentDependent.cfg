SPECIFICATION Spec
CONSTANTS
    Word = 64
    OverflowChecks = FALSE
    IterationLimit = 16
    Hex <- MCHex
    Nodes <- AlikeStreams
    Styles <- MCStyles
    MaxNodes = 3
INVARIANT
    DependentStreamIsNamed
CHECK_DEADLOCK FALSE
