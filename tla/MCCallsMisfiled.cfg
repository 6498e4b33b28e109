SPECIFICATION Spec
CONSTANTS
    Tools <- MisfiledTools
    ScopeLists <- MCScopeLists
    ToolLists <- MCToolLists
    MaxHops = 1
    MaxReviews = 2
INVARIANT NothingWritten
