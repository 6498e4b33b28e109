SPECIFICATION Spec
CONSTANTS
    None = None
    MaxLen = 5
    Files <- MCFiles
    Pushed <- MCPushed
    Starts <- MCStarts
    Ends <- MCEnds
    Caps <- MCCaps
    DefaultMaxBytes = 3
    MaxMaxBytes = 5
    SniffBytes = 3
INVARIANTS
    TypeOK
    PagesJoin
    RoundTrip
    PageFits
PROPERTY Advances
CHECK_DEADLOCK FALSE
