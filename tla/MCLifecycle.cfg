SPECIFICATION FairSpec
CONSTANTS
    Commands <- MCCommands
    Connections = {c1, c2}
    Timeout = 2
INVARIANTS
    TypeOK
    CutOnlyLate
    OAuthGuarded
PROPERTY
    StopsAfterSignal
