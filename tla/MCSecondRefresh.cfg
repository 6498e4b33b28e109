\* A request queued behind a refresh that fails.
SPECIFICATION Spec
CONSTANTS
    Slots = {p1, p2, p3}
    Clients = {c1, c2}
    RedirectURIs = {u1}
    Challenges = {ch1}
    Logins = {owner, guest}
    AllowedUser = owner
    None = None
    c1 = c1
    c2 = c2
    u1 = u1
    u2 = u2
    Registered <- MCRegistered
    MaxPendingAuths = 1
    MaxAuthCodes = 1
    PendingTTL = 1
    CodeTTL = 1
    AccessTTL = 1
    RefreshTTL = 2
    Margin = 1
    ExpiresIn = {0, 1}
    DefaultLifetime = 2
    MaxStates = 1
    MaxGrants = 1
    MaxPairs = 3
    MaxTime = 3
INVARIANTS
    OneRefresh
