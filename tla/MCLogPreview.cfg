SPECIFICATION Spec
CONSTANTS
    LineArgs <- MCArgs
    ByteArgs <- MCArgs
    DefaultTailLines = 3
    DefaultMaxBytes = 3
    MinInt <- MCMinInt
    MaxInt = 7
    MaxLog = 6
INVARIANTS
    LinesKept
    BrokenOnlyAtCut
    NothingMissed
