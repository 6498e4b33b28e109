----------------------------- MODULE OAuthServer ----------------------------
(***************************************************************************)
(* The OAuth mode of the server: the handlers of /oauth/authorize,         *)
(* /oauth/callback and /oauth/token and the middleware that authenticates  *)
(* /mcp (pkg/oauth), over the store of OAuthStore.                         *)
(*                                                                         *)
(* Go serves every HTTP request on a goroutine of its own.  A slot stands  *)
(* for one request in progress: pc says what the handler does next, loc    *)
(* holds its local variables.  A step is what a handler does between two   *)
(* points at which another goroutine can interfere: one store method, one  *)
(* answer from Gitea, one critical section of a grant's mutex.  A request  *)
(* that is refused before it touches the store changes nothing and is no   *)
(* step here.                                                              *)
(*                                                                         *)
(* Gitea, the browser and the MCP client are the environment: Gitea        *)
(* answers with any outcome or not at all, and a client sends any          *)
(* credential it was ever sent, any number of times, in any order.         *)
(***************************************************************************)
EXTENDS OAuthStore

CONSTANTS
    Slots,         \* requests that can be in progress at once
    Clients,       \* client IDs with a valid signature
    RedirectURIs,
    Registered,    \* the redirect URIs signed into each client ID
    Challenges,    \* PKCE challenges, each standing for its one verifier
    Logins,        \* Gitea users
    AllowedUser,   \* --oauth-allowed-user
    None,          \* a missing value
    PendingTTL, CodeTTL, AccessTTL, RefreshTTL,  \* 10 min, 60 s, 1 h, 30 days
    Margin,        \* 5 min: how early a Gitea token is refreshed
    ExpiresIn,     \* values of expires_in in Gitea's token answers
    DefaultLifetime,  \* 1 h, where expires_in is missing or not positive
    MaxStates, MaxGrants, MaxPairs, MaxTime      \* bounds on what is created

ASSUME ServerAssumption ==
    /\ Registered \in [Clients -> SUBSET RedirectURIs]
    /\ AllowedUser \in Logins
    /\ None \notin Slots \cup Clients \cup RedirectURIs \cup Challenges
    /\ {PendingTTL, CodeTTL, AccessTTL, RefreshTTL, Margin} \subseteq Nat
    /\ ExpiresIn \subseteq Int
    /\ DefaultLifetime \in Nat
    /\ {MaxStates, MaxGrants, MaxPairs, MaxTime} \subseteq Nat

VARIABLES
    pc, loc,      \* per slot: control point and local variables
    heap,         \* per grant ID: the Grant object, in the map or not
    lock,         \* per grant ID: the slot that holds the object's mutex
    nextState, nextGrant, nextPair,  \* fresh random values, numbered
    codesSent,    \* the grant IDs whose code a client has received
    pairsSent     \* the token pairs a client has received

vars == <<now, storeVars, pc, loc, heap, lock, nextState, nextGrant, nextPair,
          codesSent, pairsSent>>

GrantIDs == 1..MaxGrants
Pairs == 1..MaxPairs
TokenTypes == {"access", "refresh"}

\* A code is named by the grant ID that the same callback draws for it, an MCP
\* token by the number of its pair and its type.
PendingAuth ==
    [state : Nat, clientID : Clients, redirectURI : RedirectURIs,
     codeChallenge : Challenges, expiresAt : Nat]
AuthCode ==
    [grantID : GrantIDs, clientID : Clients, redirectURI : RedirectURIs,
     codeChallenge : Challenges, expiresAt : Nat]
MCPToken ==
    [pair : Pairs, type : TokenTypes, grantID : GrantIDs, clientID : Clients,
     expiresAt : Nat]

\* superseded: Gitea has issued a refresh token that replaces the stored one.
Grant == [expiresAt : Nat, superseded : BOOLEAN]

Points ==
    {"idle",
     "exchange", "userInfo", "putGrant",    \* HandleCallback
     "getGrant", "putAccess", "putRefresh", \* HandleToken
     "bearerGrant", "lock", "refresh", "deleteGrant", "serving"}  \* /mcp

Locals ==
    [clientID : Clients \cup {None}, redirectURI : RedirectURIs \cup {None},
     codeChallenge : Challenges \cup {None}, grantID : GrantIDs \cup {0},
     pair : Pairs \cup {0}, via : {"code", "refresh", "none"}, expiresAt : Nat]

NoLocals ==
    [clientID |-> None, redirectURI |-> None, codeChallenge |-> None,
     grantID |-> 0, pair |-> 0, via |-> "none", expiresAt |-> 0]

TypeOK ==
    /\ now \in Nat
    /\ pendingAuths \subseteq PendingAuth
    /\ authCodes \subseteq AuthCode
    /\ grants \subseteq GrantIDs
    /\ tokens \subseteq MCPToken
    /\ pc \in [Slots -> Points]
    /\ loc \in [Slots -> Locals]
    /\ heap \in [GrantIDs -> Grant]
    /\ lock \in [GrantIDs -> Slots \cup {None}]
    /\ {nextState, nextGrant, nextPair} \subseteq Nat \ {0}
    /\ codesSent \subseteq GrantIDs
    /\ pairsSent \subseteq Pairs

-----------------------------------------------------------------------------

NoGrant == [expiresAt |-> 0, superseded |-> FALSE]

\* NewStore, with no request in progress.
StoreEmpty ==
    /\ pendingAuths = {}
    /\ authCodes = {}
    /\ grants = {}
    /\ tokens = {}

Init ==
    /\ now = 0
    /\ StoreEmpty
    /\ pc = [p \in Slots |-> "idle"]
    /\ loc = [p \in Slots |-> NoLocals]
    /\ heap = [g \in GrantIDs |-> NoGrant]
    /\ lock = [g \in GrantIDs |-> None]
    /\ nextState = 1
    /\ nextGrant = 1
    /\ nextPair = 1
    /\ codesSent = {}
    /\ pairsSent = {}

Goto(p, point, locals) ==
    /\ pc' = [pc EXCEPT ![p] = point]
    /\ loc' = [loc EXCEPT ![p] = locals]

\* The handler has written its answer.
Finish(p) == Goto(p, "idle", NoLocals)

At(p, point) == pc[p] = point

\* Defect: a negative expires_in is taken as it is.
RawLifetime(expiresIn) == expiresIn

\* The lifetime of a Gitea access token.
Lifetime(expiresIn) == IF expiresIn <= 0 THEN DefaultLifetime ELSE expiresIn

-----------------------------------------------------------------------------
(* GET /oauth/authorize *)

\* Defect: the redirect URI is not compared.
AnyURIs(c) == RedirectURIs

\* The redirect URIs /oauth/authorize accepts: those signed into the client ID.
AcceptedURIs(c) == Registered[c]

\* The request passed every check.  The browser is redirected to Gitea, or gets a 503.
Authorize ==
    /\ nextState <= MaxStates
    /\ \E c \in Clients, ch \in Challenges, ok \in BOOLEAN :
         \E u \in AcceptedURIs(c) :
            PutPendingAuth([state |-> nextState, clientID |-> c,
                            redirectURI |-> u, codeChallenge |-> ch,
                            expiresAt |-> now + PendingTTL], ok)
    /\ nextState' = nextState + 1
    /\ UNCHANGED <<now, authCodes, grants, tokens, pc, loc, heap, lock,
                   nextGrant, nextPair, codesSent, pairsSent>>

-----------------------------------------------------------------------------
(* GET /oauth/callback *)

\* An expired state, Gitea's error or an empty code ends the request here.
CallbackState(p) ==
    /\ At(p, "idle")
    /\ \E a \in pendingAuths, ok, denied \in BOOLEAN :
         /\ ConsumePendingAuth(a, ok)
         /\ IF ok /\ ~denied
            THEN Goto(p, "exchange",
                      [NoLocals EXCEPT !.clientID = a.clientID,
                                       !.redirectURI = a.redirectURI,
                                       !.codeChallenge = a.codeChallenge])
            ELSE UNCHANGED <<pc, loc>>
    /\ UNCHANGED <<now, authCodes, grants, tokens, heap, lock, nextState,
                   nextGrant, nextPair, codesSent, pairsSent>>

\* Gitea's answer to the code exchange; any failure, the 10 s timeout and a
\* malformed answer included, ends the request.
CallbackExchange(p) ==
    /\ At(p, "exchange")
    /\ \/ Goto(p, "userInfo", loc[p])
       \/ Finish(p)
    /\ UNCHANGED <<now, storeVars, heap, lock, nextState, nextGrant, nextPair,
                   codesSent, pairsSent>>

\* GET /api/v1/user failed or named somebody else: the tokens are discarded.
CallbackRejectUser(p) ==
    /\ At(p, "userInfo")
    /\ Finish(p)
    /\ UNCHANGED <<now, storeVars, heap, lock, nextState, nextGrant, nextPair,
                   codesSent, pairsSent>>

\* GET /api/v1/user named the allowed user.  The Grant object is created and its
\* code stored before the grant itself is; a full code store is a 503.
CallbackAcceptUser(p) ==
    /\ At(p, "userInfo")
    /\ nextGrant <= MaxGrants
    /\ \E user \in Logins, expiresIn \in ExpiresIn, ok \in BOOLEAN :
         /\ user = AllowedUser
         /\ PutAuthCode([grantID |-> nextGrant, clientID |-> loc[p].clientID,
                         redirectURI |-> loc[p].redirectURI,
                         codeChallenge |-> loc[p].codeChallenge,
                         expiresAt |-> now + CodeTTL], ok)
         /\ IF ok
            THEN /\ heap' = [heap EXCEPT ![nextGrant] =
                                [expiresAt |-> now + Lifetime(expiresIn),
                                 superseded |-> FALSE]]
                 /\ nextGrant' = nextGrant + 1
                 /\ Goto(p, "putGrant", [loc[p] EXCEPT !.grantID = nextGrant])
            ELSE /\ UNCHANGED <<heap, nextGrant>>
                 /\ Finish(p)
    /\ UNCHANGED <<now, pendingAuths, grants, tokens, lock, nextState, nextPair,
                   codesSent, pairsSent>>

\* The grant is stored and the code goes to the client in the redirect.
CallbackPutGrant(p) ==
    /\ At(p, "putGrant")
    /\ PutGrant(loc[p].grantID)
    /\ codesSent' = codesSent \cup {loc[p].grantID}
    /\ Finish(p)
    /\ UNCHANGED <<now, pendingAuths, authCodes, tokens, heap, lock, nextState,
                   nextGrant, nextPair, pairsSent>>

-----------------------------------------------------------------------------
(* POST /oauth/token *)

\* grant_type=authorization_code from an authenticated client.  The code is gone
\* whatever the checks on client, redirect URI and PKCE verifier then say.
RedeemCode(p) ==
    /\ At(p, "idle")
    /\ nextPair <= MaxPairs
    /\ \E c \in authCodes, client \in Clients, uri \in RedirectURIs \cup {None},
          verifier \in Challenges \cup {None}, ok \in BOOLEAN :
         /\ c.grantID \in codesSent
         /\ ConsumeAuthCode(c, ok)
         /\ IF /\ ok
               /\ c.clientID = client
               /\ c.redirectURI = uri
               /\ c.codeChallenge = verifier
            THEN /\ Goto(p, "getGrant",
                         [NoLocals EXCEPT !.clientID = client, !.via = "code",
                                          !.grantID = c.grantID,
                                          !.pair = nextPair])
                 /\ nextPair' = nextPair + 1
            ELSE UNCHANGED <<pc, loc, nextPair>>
    /\ UNCHANGED <<now, pendingAuths, grants, tokens, heap, lock, nextState,
                   nextGrant, codesSent, pairsSent>>

\* grant_type=refresh_token from an authenticated client.
RotateRefreshToken(p) ==
    /\ At(p, "idle")
    /\ nextPair <= MaxPairs
    /\ \E t \in tokens, client \in Clients, ok \in BOOLEAN :
         /\ t.pair \in pairsSent
         /\ ConsumeMCPRefreshToken(t, client, ok)
         /\ IF ok
            THEN /\ Goto(p, "getGrant",
                         [NoLocals EXCEPT !.clientID = client, !.via = "refresh",
                                          !.grantID = t.grantID,
                                          !.pair = nextPair])
                 /\ nextPair' = nextPair + 1
            ELSE UNCHANGED <<pc, loc, nextPair>>
    /\ UNCHANGED <<now, pendingAuths, authCodes, grants, heap, lock, nextState,
                   nextGrant, codesSent, pairsSent>>

\* From here on the two grant types run the same statements.
TokenGetGrant(p) ==
    /\ At(p, "getGrant")
    /\ IF HasGrant(loc[p].grantID)
       THEN Goto(p, "putAccess", loc[p])
       ELSE Finish(p)
    /\ UNCHANGED <<now, storeVars, heap, lock, nextState, nextGrant, nextPair,
                   codesSent, pairsSent>>

\* One reading of the clock dates both tokens of the pair.
TokenPutAccess(p) ==
    /\ At(p, "putAccess")
    /\ PutMCPToken([pair |-> loc[p].pair, type |-> "access",
                    grantID |-> loc[p].grantID, clientID |-> loc[p].clientID,
                    expiresAt |-> now + AccessTTL])
    /\ Goto(p, "putRefresh", [loc[p] EXCEPT !.expiresAt = now + RefreshTTL])
    /\ UNCHANGED <<now, pendingAuths, authCodes, grants, heap, lock, nextState,
                   nextGrant, nextPair, codesSent, pairsSent>>

TokenPutRefresh(p) ==
    /\ At(p, "putRefresh")
    /\ PutMCPToken([pair |-> loc[p].pair, type |-> "refresh",
                    grantID |-> loc[p].grantID, clientID |-> loc[p].clientID,
                    expiresAt |-> loc[p].expiresAt])
    /\ pairsSent' = pairsSent \cup {loc[p].pair}
    /\ Finish(p)
    /\ UNCHANGED <<now, pendingAuths, authCodes, grants, heap, lock, nextState,
                   nextGrant, nextPair, codesSent>>

-----------------------------------------------------------------------------
(* /mcp: RequireOAuthToken *)

\* The verifier looks the bearer token up.
BearerToken(p) ==
    /\ At(p, "idle")
    /\ \E t \in tokens, ok \in BOOLEAN :
         /\ t.pair \in pairsSent
         /\ GetMCPToken(t, ok)
         /\ IF ok /\ t.type = "access"
            THEN Goto(p, "bearerGrant",
                      [NoLocals EXCEPT !.grantID = t.grantID,
                                       !.expiresAt = t.expiresAt])
            ELSE UNCHANGED <<pc, loc>>
    /\ UNCHANGED <<now, pendingAuths, authCodes, grants, heap, lock, nextState,
                   nextGrant, nextPair, codesSent, pairsSent>>

\* From here on the verifier holds a pointer to the Grant object.
BearerGrant(p) ==
    /\ At(p, "bearerGrant")
    /\ IF HasGrant(loc[p].grantID)
       THEN Goto(p, "lock", loc[p])
       ELSE Finish(p)
    /\ UNCHANGED <<now, storeVars, heap, lock, nextState, nextGrant, nextPair,
                   codesSent, pairsSent>>

RefreshDue(g) == heap[g].expiresAt - now <= Margin

\* NewOAuthClient wraps the Gitea token just copied; if that fails, the request
\* ends.  The verifier returns the token's expiry, which auth.RequireBearerToken
\* checks before it calls the next handler with the client.
Serve(p) ==
    \/ Finish(p)
    \/ /\ ~Expired(loc[p])
       /\ Goto(p, "serving", [NoLocals EXCEPT !.grantID = loc[p].grantID])

\* grant.Lock(), and Unlock() at once if the Gitea token is still good.
LockGrant(p) ==
    LET g == loc[p].grantID IN
    /\ At(p, "lock")
    /\ lock[g] = None
    /\ IF RefreshDue(g)
       THEN /\ lock' = [lock EXCEPT ![g] = p]
            /\ Goto(p, "refresh", loc[p])
       ELSE /\ Serve(p)
            /\ UNCHANGED lock
    /\ UNCHANGED <<now, storeVars, heap, nextState, nextGrant, nextPair,
                   codesSent, pairsSent>>

\* Defect: a path returns without unlocking.
KeepLocked(g) == UNCHANGED lock

Unlock(g) == lock' = [lock EXCEPT ![g] = None]

\* Defect: the refreshed grant is written back to the map.
RefreshWritesBack(p) ==
    LET g == loc[p].grantID IN
    /\ At(p, "refresh")
    /\ \E expiresIn \in ExpiresIn :
          heap' = [heap EXCEPT ![g].expiresAt = now + Lifetime(expiresIn)]
    /\ PutGrant(g)
    /\ Unlock(g)
    /\ Serve(p)
    /\ UNCHANGED <<now, pendingAuths, authCodes, tokens, nextState, nextGrant,
                   nextPair, codesSent, pairsSent>>

\* Gitea accepted the refresh token and its answer arrived.  An answer without a
\* refresh token leaves the stored one in place.
RefreshSucceeds(p) ==
    LET g == loc[p].grantID IN
    /\ At(p, "refresh")
    /\ \E expiresIn \in ExpiresIn, rotated \in BOOLEAN :
          heap' = [heap EXCEPT ![g] =
                      [expiresAt |-> now + Lifetime(expiresIn),
                       superseded |-> @.superseded /\ ~rotated]]
    /\ Unlock(g)
    /\ Serve(p)
    /\ UNCHANGED <<now, storeVars, nextState, nextGrant, nextPair, codesSent,
                   pairsSent>>

\* Gitea rejected it, could not be reached, or accepted it and the answer was
\* lost to a timeout, a broken connection or the request's own cancellation.
\* Unlock comes before DeleteGrant.
RefreshFails(p) ==
    LET g == loc[p].grantID IN
    /\ At(p, "refresh")
    /\ \E accepted \in BOOLEAN :
          heap' = [heap EXCEPT ![g].superseded = @ \/ accepted]
    /\ Unlock(g)
    /\ Goto(p, "deleteGrant", loc[p])
    /\ UNCHANGED <<now, storeVars, nextState, nextGrant, nextPair, codesSent,
                   pairsSent>>

RefreshDeleteGrant(p) ==
    /\ At(p, "deleteGrant")
    /\ DeleteGrant(loc[p].grantID)
    /\ Finish(p)
    /\ UNCHANGED <<now, pendingAuths, authCodes, heap, lock, nextState,
                   nextGrant, nextPair, codesSent, pairsSent>>

\* The tool call ends.
ServeEnds(p) ==
    /\ At(p, "serving")
    /\ Finish(p)
    /\ UNCHANGED <<now, storeVars, heap, lock, nextState, nextGrant, nextPair,
                   codesSent, pairsSent>>

-----------------------------------------------------------------------------

Tick ==
    /\ now < MaxTime
    /\ now' = now + 1
    /\ UNCHANGED <<storeVars, pc, loc, heap, lock, nextState, nextGrant,
                   nextPair, codesSent, pairsSent>>

\* The process ends, by a crash or a shutdown, and starts again: everything is
\* in memory, so all of it is lost; clients keep the credentials they have.
Restart ==
    /\ pendingAuths' = {}
    /\ authCodes' = {}
    /\ grants' = {}
    /\ tokens' = {}
    /\ pc' = [p \in Slots |-> "idle"]
    /\ loc' = [p \in Slots |-> NoLocals]
    /\ heap' = [g \in GrantIDs |-> NoGrant]
    /\ lock' = [g \in GrantIDs |-> None]
    /\ UNCHANGED <<now, nextState, nextGrant, nextPair, codesSent, pairsSent>>

Callback(p) ==
    \/ CallbackState(p)
    \/ CallbackExchange(p)
    \/ CallbackRejectUser(p)
    \/ CallbackAcceptUser(p)
    \/ CallbackPutGrant(p)

Token(p) ==
    \/ RedeemCode(p)
    \/ RotateRefreshToken(p)
    \/ TokenGetGrant(p)
    \/ TokenPutAccess(p)
    \/ TokenPutRefresh(p)

Mcp(p) ==
    \/ BearerToken(p)
    \/ BearerGrant(p)
    \/ LockGrant(p)
    \/ RefreshSucceeds(p)
    \/ RefreshFails(p)
    \/ RefreshDeleteGrant(p)
    \/ ServeEnds(p)

Next ==
    \/ Authorize
    \/ \E p \in Slots : Callback(p) \/ Token(p) \/ Mcp(p)
    \/ Tick
    \/ Restart

Spec == Init /\ [][Next]_vars

-----------------------------------------------------------------------------
(* What the handlers promise. *)

\* Requests of grant g at one of the given points.
Requests(g, points) == {p \in Slots : pc[p] \in points /\ loc[p].grantID = g}

Minting == {"getGrant", "putAccess", "putRefresh"}

Codes(g) == {c \in authCodes : c.grantID = g}

RefreshTokens(g) == {t \in tokens : t.type = "refresh" /\ t.grantID = g}

\* What can still turn into a token pair of grant g.
Successors(g) ==
    ({"code"} \X Codes(g)) \cup ({"refresh"} \X RefreshTokens(g))
        \cup ({"request"} \X Requests(g, Minting))

\* However exchanges, rotations, duplicated requests and failures interleave, a
\* login leads to one line of token pairs: at any time at most one code, one
\* refresh token or one exchange in progress can produce the next pair (AS-5,
\* AS-6: codes and refresh tokens are single use, across both handlers).
SingleSuccessor ==
    \A g \in GrantIDs : \A x, y \in Successors(g) : x = y

\* The callback stores a code before its grant and nothing locks the two
\* together; still, a code the client holds, or an exchange that has consumed
\* it, always finds its grant, so "associated grant no longer exists" cannot
\* answer a valid code (token.go:150).
CodeHasGrant ==
    \A g \in GrantIDs :
        (\/ Codes(g) # {} /\ g \in codesSent
         \/ \E p \in Requests(g, Minting) : loc[p].via = "code")
            => HasGrant(g)

\* Everything that carries a grant's authority belongs to the client that
\* started the login: no exchange or rotation moves it to another one.
OneClientPerGrant ==
    \A g \in GrantIDs :
        LET holders == {c.clientID : c \in Codes(g)}
                \cup {t.clientID : t \in {u \in tokens : u.grantID = g}}
                \cup {loc[p].clientID : p \in Requests(g, Minting)}
        IN  \A c, d \in holders : c = d

\* A code is only ever sent to a URI registered by its client: the URI checked
\* at /oauth/authorize is the one the callback uses after two answers of Gitea.
CodeGoesToRegisteredURI ==
    /\ \A c \in authCodes : c.redirectURI \in Registered[c.clientID]
    /\ \A p \in Slots : pc[p] \in {"exchange", "userInfo", "putGrant"} =>
            loc[p].redirectURI \in Registered[loc[p].clientID]

\* The two bounded tables stay within their capacity (UP-1, AS-5).
TablesBounded ==
    /\ Cardinality(pendingAuths) <= MaxPendingAuths
    /\ Cardinality(authCodes) <= MaxAuthCodes

NewcomersWait ==
    /\ nextState' # nextState =>
         /\ \A a \in pendingAuths : a \in pendingAuths' \/ Expired(a)
         /\ \/ \E a \in pendingAuths' : a.state = nextState
            \/ Cardinality({a \in pendingAuths : ~Expired(a)}) >= MaxPendingAuths
    /\ nextGrant' # nextGrant => \A c \in authCodes : c \in authCodes' \/ Expired(c)

\* However full the tables, a new login or code never pushes out one that its
\* consumer would still accept, and no expired entry keeps a new login out: the
\* sweep and the consumption agree to the tick on what has expired
\* (PutPendingAuth, PutAuthCode against the Consume methods).
GoodEntriesKept == [][NewcomersWait]_vars

\* A grant's mutex is held only by a request that waits for Gitea's answer to a
\* refresh, which is still due: a request that queued behind a refresh does not
\* refresh again (T-RS-4), and since a holder never waits for another lock, no
\* two requests can wait for each other.
LockMeansRefresh ==
    /\ \A g \in GrantIDs : lock[g] # None =>
            /\ RefreshDue(g)
            /\ pc[lock[g]] = "refresh" /\ loc[lock[g]].grantID = g
    /\ \A p \in Slots : pc[p] = "refresh" => lock[loc[p].grantID] = p

\* A stored grant whose refresh token Gitea has replaced, the answer being lost,
\* is about to be deleted: no session lives on with a dead credential.
SupersededIsCondemned ==
    \A g \in grants : heap[g].superseded => Requests(g, {"deleteGrant"}) # {}

StayDeleted == \A g \in codesSent : ~HasGrant(g) => ~HasGrant(g)'

\* Once a grant has left the store it never returns to it, so the tokens that
\* an exchange may still store for it never authenticate a request.
GrantsDoNotReturn == [][StayDeleted]_vars

RefreshKept ==
    \A t \in tokens : t.type = "refresh" /\ t \notin tokens' =>
        \/ Expired(t)
        \/ ~HasGrant(t.grantID)'
        \/ \E p \in Slots : /\ pc[p] = "idle" /\ pc'[p] = "getGrant"
                            /\ loc'[p].clientID = t.clientID
                            /\ loc'[p].grantID = t.grantID

\* A refresh token leaves the store for one of three reasons: it is exchanged by
\* its own client, it was presented after its expiry, or its grant goes with it
\* (a failed refresh, a restart).  No other request can burn it.
RefreshTokenKept == [][RefreshKept]_vars

-----------------------------------------------------------------------------
(* The server implements GrantSession. *)

\* A grant's stage: the callback that creates it has not answered yet, its code
\* is out, an exchange or a rotation is in progress, its refresh token is out.
\* With no successor no token pair can ever follow; successors of two kinds at
\* once are no stage of GrantSession.
Stage(g) ==
    LET kinds == {s[1] : s \in Successors(g)} IN
    IF g >= nextGrant THEN "none"
    ELSE IF Requests(g, {"putGrant"}) # {} THEN "login"
    ELSE CASE kinds = {}          -> "ended"
           [] kinds = {"code"}    -> "code"
           [] kinds = {"request"} -> "minting"
           [] kinds = {"refresh"} -> "session"
           [] OTHER               -> "forked"

Session == INSTANCE GrantSession
    WITH Grants <- GrantIDs, stage <- [g \in GrantIDs |-> Stage(g)]

\* Whatever the interleaving, a grant only moves along the line of stages, and
\* one that ended, by a burnt code, a failed exchange, an expiry, a failed
\* refresh or a restart, never comes to a token pair again.
SessionSpec == Session!Spec

-----------------------------------------------------------------------------
(* What the documentation says and the code does not do. *)

\* "If Gitea rejects the refresh, delete the grant and all MCP tokens for it"
\* (docs/oauth/SPEC.md:61, UP-4): no token of a deleted grant stays in the store.
\* An exchange between GetGrant and PutMCPToken stores its pair afterwards.
TokensHaveGrant == \A t \in tokens : HasGrant(t.grantID)

\* "Two concurrent requests for the same grant near expiry: Exactly one upstream
\* refresh" (docs/oauth/SPEC.md:121, T-RS-4).  If the first refresh fails, the
\* request queued behind it finds the expiry unchanged and sends the same refresh
\* token again; Gitea may even accept it, for a grant about to be deleted.
OneRefresh ==
    \A p, q \in Slots :
        pc[p] = "deleteGrant" /\ pc[q] = "refresh" => loc[p].grantID # loc[q].grantID

-----------------------------------------------------------------------------
(* Progress *)

\* Steps that take bounded time: store calls, and exchanges with Gitea under the
\* 10 s timeout of their HTTP client.  GetMyUserInfo and the tool call itself
\* have no timeout and are left without fairness.
BoundedStep(p) ==
    \/ CallbackExchange(p) \/ CallbackPutGrant(p)
    \/ TokenGetGrant(p) \/ TokenPutAccess(p) \/ TokenPutRefresh(p)
    \/ BearerGrant(p)
    \/ RefreshSucceeds(p) \/ RefreshFails(p) \/ RefreshDeleteGrant(p)

\* Strong fairness of Lock: a sync.Mutex hands itself to the longest waiter once
\* that one has waited 1 ms.
Fairness ==
    \A p \in Slots : WF_vars(BoundedStep(p)) /\ SF_vars(LockGrant(p))

FairSpec == Spec /\ Fairness

Unbounded == {"idle", "userInfo", "serving"}

\* Every request ends or reaches a call that has no timeout, even if other
\* requests hang in such a call for ever: none of them holds a mutex there.
RequestsProgress ==
    \A p \in Slots : pc[p] \notin Unbounded ~> pc[p] \in Unbounded

=============================================================================
