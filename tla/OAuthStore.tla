----------------------------- MODULE OAuthStore -----------------------------
(***************************************************************************)
(* The in-memory store of pkg/oauth/store.go.  Every method of Store runs  *)
(* from its first line to its last under Store.mu, so a method is one      *)
(* atomic step: an operator on the store's variables that the handlers of  *)
(* OAuthServer use as a conjunct of their actions.                         *)
(*                                                                         *)
(* A Go map from a random key to a record is the set of its records, with  *)
(* the key as a field: keys are 32 random bytes and never collide.  Time   *)
(* is a count of ticks, read with nowFunc.                                 *)
(*                                                                         *)
(* A definition marked "Defect" is a wrong version of the one that follows *)
(* it.  It is used by no specification: the project checks that the        *)
(* properties fail when it takes the place of the right one.               *)
(***************************************************************************)
EXTENDS Integers, FiniteSets

CONSTANTS
    MaxPendingAuths,  \* capacity of pendingAuths (1000 in the code)
    MaxAuthCodes      \* capacity of authCodes (1000 in the code)

ASSUME CapacityAssumption ==
    /\ MaxPendingAuths \in Nat
    /\ MaxAuthCodes \in Nat

VARIABLES
    now,           \* the clock behind nowFunc
    pendingAuths,  \* authorizations waiting for Gitea's callback
    authCodes,     \* authorization codes waiting for their exchange
    grants,        \* the grant IDs the grants map holds
    tokens         \* MCP access and refresh tokens

storeVars == <<pendingAuths, authCodes, grants, tokens>>

-----------------------------------------------------------------------------

\* nowFunc().After(e.ExpiresAt): an entry is still good at its expiry time.
Expired(e) == now > e.expiresAt

\* Defect: the sweep takes entries that expire now, which are still good.
SweptEarly(entries) == {e \in entries : now < e.expiresAt}

Unexpired(entries) == {e \in entries : ~Expired(e)}

\* Defect: the capacity is checked against the entries to come.
RoomForOneMore(entries, max) == Cardinality(entries) <= max

Room(entries, max) == Cardinality(entries) < max

\* The record p is stored if ok, the value the method returns, says so.  The
\* sweep of expired entries comes first and stays when the store is full.
PutPendingAuth(p, ok) ==
    /\ ok = Room(Unexpired(pendingAuths), MaxPendingAuths)
    /\ pendingAuths' = Unexpired(pendingAuths) \cup (IF ok THEN {p} ELSE {})

PutAuthCode(c, ok) ==
    /\ ok = Room(Unexpired(authCodes), MaxAuthCodes)
    /\ authCodes' = Unexpired(authCodes) \cup (IF ok THEN {c} ELSE {})

\* Removed whether or not it is returned: it is returned if it has not expired.
ConsumePendingAuth(p, ok) ==
    /\ p \in pendingAuths
    /\ pendingAuths' = pendingAuths \ {p}
    /\ ok = ~Expired(p)

\* Defect: the code is looked up and stays.
PeekAuthCode(c, ok) == c \in authCodes /\ ok = ~Expired(c) /\ UNCHANGED authCodes

ConsumeAuthCode(c, ok) ==
    /\ c \in authCodes
    /\ authCodes' = authCodes \ {c}
    /\ ok = ~Expired(c)

\* Defect: the grant is never stored.
ForgetGrant(g) == UNCHANGED grants

PutGrant(g) == grants' = grants \cup {g}

HasGrant(g) == g \in grants

\* Defect: only the tokens go.
DeleteTokens(g) == UNCHANGED grants /\ tokens' = {t \in tokens : t.grantID # g}

DeleteGrant(g) ==
    /\ grants' = grants \ {g}
    /\ tokens' = {t \in tokens : t.grantID # g}

PutMCPToken(t) == tokens' = tokens \cup {t}

\* A look-up that finds the token expired deletes it.
GetMCPToken(t, ok) ==
    /\ t \in tokens
    /\ ok = ~Expired(t)
    /\ tokens' = IF ok THEN tokens ELSE tokens \ {t}

\* Defects: the token goes before its client is compared; the client is not
\* compared; the token is looked up and stays.
BurnRefreshToken(t, client, ok) ==
    /\ t \in tokens
    /\ t.type = "refresh"
    /\ tokens' = tokens \ {t}
    /\ ok = (t.clientID = client /\ ~Expired(t))

StealRefreshToken(t, client, ok) ==
    /\ t \in tokens
    /\ t.type = "refresh"
    /\ tokens' = tokens \ {t}
    /\ ok = ~Expired(t)

PeekRefreshToken(t, client, ok) ==
    /\ t \in tokens
    /\ t.type = "refresh"
    /\ t.clientID = client
    /\ ok = ~Expired(t)
    /\ UNCHANGED tokens

\* An access token, or a refresh token of another client, is left in place.
ConsumeMCPRefreshToken(t, client, ok) ==
    /\ t \in tokens
    /\ t.type = "refresh"
    /\ t.clientID = client
    /\ tokens' = tokens \ {t}
    /\ ok = ~Expired(t)

=============================================================================
