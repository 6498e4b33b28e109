\* Two logins at a time, with the tables at their capacity.
SPECIFICATION Spec
CONSTANTS
    Slots = {p1, p2}
    Clients = {c1, c2}
    RedirectURIs = {u1, u2}
    Challenges = {ch1}
    Logins = {owner, guest}
    AllowedUser = owner
    None = None
    c1 = c1
    c2 = c2
    u1 = u1
    u2 = u2
    Registered <- MCRegistered
    MaxPendingAuths = 2
    MaxAuthCodes = 1
    PendingTTL = 1
    CodeTTL = 1
    AccessTTL = 1
    RefreshTTL = 2
    Margin = 1
    ExpiresIn = {0}
    DefaultLifetime = 2
    MaxStates = 3
    MaxGrants = 2
    MaxPairs = 1
    MaxTime = 2
SYMMETRY SlotSymmetry
INVARIANTS
    CodeGoesToRegisteredURI
    TablesBounded
PROPERTIES
    SessionSpec
    GoodEntriesKept
