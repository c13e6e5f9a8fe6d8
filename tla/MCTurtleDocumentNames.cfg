SPECIFICATION Spec
CONSTANTS
    Word = 64
    OverflowChecks = FALSE
    IterationLimit = 16
    Hex <- MCHex
    Nodes <- OddNames
    Styles <- MCStyles
    MaxNodes = 3
INVARIANT
    NamesAsRecorded
CHECK_DEADLOCK FALSE
