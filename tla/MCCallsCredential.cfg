SPECIFICATION Spec
CONSTANTS
    Tools <- DomainTools
    ScopeLists <- MCScopeLists
    ToolLists <- MCToolLists
    MaxHops = 1
    MaxReviews = 2
INVARIANT CallersCredential
