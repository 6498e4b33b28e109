-------------------------- MODULE OAuthServerProofs -------------------------
(***************************************************************************)
(* Proofs about OAuthServer, for every number of requests, clients and     *)
(* logins and every choice of lifetimes.                                   *)
(***************************************************************************)
EXTENDS OAuthServer, FiniteSetTheorems, TLAPS

\* The local variables a handler reads at a control point hold what an earlier
\* step of the same handler put there.
LocalOK(point, l) ==
    /\ point \in {"exchange", "userInfo", "putGrant"} =>
           /\ l.clientID \in Clients
           /\ l.redirectURI \in RedirectURIs
           /\ l.codeChallenge \in Challenges
    /\ point \in Minting => l.clientID \in Clients /\ l.pair \in Pairs
    /\ point \notin {"idle", "exchange", "userInfo"} => l.grantID \in GrantIDs

LocalsOK == \A p \in Slots : LocalOK(pc[p], loc[p])

TInv == TypeOK /\ LocalsOK

ControlTyped ==
    /\ pc \in [Slots -> Points]
    /\ loc \in [Slots -> Locals]
    /\ LocalsOK

LEMMA InitTInv == Init => TInv
  BY ServerAssumption DEF Init, StoreEmpty, TInv, TypeOK, LocalsOK, NoLocals,
     Locals, Points, NoGrant, Grant, Minting, LocalOK

LEMMA NoLocalsType == NoLocals \in Locals
  BY DEF NoLocals, Locals

\* A handler that moves to a control point with the locals it needs there.
LEMMA GotoTyped ==
  ASSUME ControlTyped, NEW p \in Slots, NEW point \in Points,
         NEW l \in Locals, LocalOK(point, l), Goto(p, point, l)
  PROVE  ControlTyped'
  BY DEF ControlTyped, LocalsOK, Goto

LEMMA FinishTyped ==
  ASSUME ControlTyped, NEW p \in Slots, Finish(p)
  PROVE  ControlTyped'
<1>1. "idle" \in Points /\ LocalOK("idle", NoLocals)
  BY DEF Points, LocalOK, Minting
<1>2. QED
  BY <1>1, NoLocalsType, GotoTyped DEF Finish

LEMMA StepTInv == TInv /\ [Next]_vars => TInv'
<1> SUFFICES ASSUME TInv, [Next]_vars PROVE TInv'
  OBVIOUS
<1> USE ServerAssumption DEF TInv, TypeOK, LocalsOK, LocalOK, Points, Minting
<1>1. CASE Authorize
  BY <1>1 DEF Authorize, AcceptedURIs, PutPendingAuth, Unexpired, PendingAuth
<1>2. ASSUME NEW p \in Slots, CallbackState(p) PROVE TInv'
  <2>1. PICK a \in pendingAuths, ok \in BOOLEAN, denied \in BOOLEAN :
           /\ ConsumePendingAuth(a, ok)
           /\ IF ok /\ ~denied
              THEN Goto(p, "exchange",
                        [NoLocals EXCEPT !.clientID = a.clientID,
                                         !.redirectURI = a.redirectURI,
                                         !.codeChallenge = a.codeChallenge])
              ELSE UNCHANGED <<pc, loc>>
    BY <1>2 DEF CallbackState
  <2> DEFINE l == [NoLocals EXCEPT !.clientID = a.clientID,
                                   !.redirectURI = a.redirectURI,
                                   !.codeChallenge = a.codeChallenge]
  <2>2. l \in Locals /\ LocalOK("exchange", l)
    BY DEF NoLocals, Locals, PendingAuth
  <2>3. ControlTyped'
    BY <2>1, <2>2, GotoTyped DEF ControlTyped
  <2>4. QED
    BY <1>2, <2>1, <2>3 DEF CallbackState, ConsumePendingAuth, ControlTyped
<1>3. ASSUME NEW p \in Slots, CallbackExchange(p) PROVE TInv'
  BY <1>3 DEF CallbackExchange, Finish, Goto, At, NoLocals, Locals, storeVars
<1>4. ASSUME NEW p \in Slots, CallbackRejectUser(p) PROVE TInv'
  BY <1>4 DEF CallbackRejectUser, Finish, Goto, At, NoLocals, Locals, storeVars
<1>5. ASSUME NEW p \in Slots, CallbackAcceptUser(p) PROVE TInv'
  <2> DEFINE c == [grantID |-> nextGrant, clientID |-> loc[p].clientID,
                   redirectURI |-> loc[p].redirectURI,
                   codeChallenge |-> loc[p].codeChallenge,
                   expiresAt |-> now + CodeTTL]
             l == [loc[p] EXCEPT !.grantID = nextGrant]
  <2>1. PICK expiresIn \in ExpiresIn, ok \in BOOLEAN :
           /\ PutAuthCode(c, ok)
           /\ IF ok
              THEN /\ heap' = [heap EXCEPT ![nextGrant] =
                                  [expiresAt |-> now + Lifetime(expiresIn),
                                   superseded |-> FALSE]]
                   /\ nextGrant' = nextGrant + 1
                   /\ Goto(p, "putGrant", l)
              ELSE UNCHANGED <<heap, nextGrant>> /\ Finish(p)
    BY <1>5 DEF CallbackAcceptUser
  <2>2. nextGrant \in GrantIDs /\ pc[p] = "userInfo"
    BY <1>5 DEF CallbackAcceptUser, At, GrantIDs
  <2>3. c \in AuthCode
    BY <2>2 DEF AuthCode
  <2>4. l \in Locals /\ LocalOK("putGrant", l)
    BY <2>2 DEF Locals
  <2>5. ControlTyped'
    BY <2>1, <2>4, GotoTyped, FinishTyped DEF ControlTyped
  <2>6. Lifetime(expiresIn) \in Nat
    BY DEF Lifetime
  <2>7. /\ authCodes' \subseteq AuthCode
        /\ heap' \in [GrantIDs -> Grant]
    <3>1. authCodes' \subseteq AuthCode
      BY <2>1, <2>3 DEF PutAuthCode, Unexpired
    <3>2. [expiresAt |-> now + Lifetime(expiresIn), superseded |-> FALSE]
             \in Grant
      BY <2>6 DEF Grant
    <3>3. heap' \in [GrantIDs -> Grant]
      BY <2>1, <2>2, <3>2
    <3>4. QED
      BY <3>1, <3>3
  <2>8. nextGrant' \in Nat \ {0}
    BY <2>1
  <2>9. QED
    BY <1>5, <2>5, <2>7, <2>8 DEF CallbackAcceptUser, ControlTyped
<1>6. ASSUME NEW p \in Slots, CallbackPutGrant(p) PROVE TInv'
  BY <1>6 DEF CallbackPutGrant, PutGrant, Finish, Goto, At, NoLocals, Locals
<1>7. ASSUME NEW p \in Slots, RedeemCode(p) PROVE TInv'
  <2>1. PICK c \in authCodes, client \in Clients,
              uri \in RedirectURIs \cup {None},
              verifier \in Challenges \cup {None}, ok \in BOOLEAN :
           /\ ConsumeAuthCode(c, ok)
           /\ IF /\ ok
                 /\ c.clientID = client
                 /\ c.redirectURI = uri
                 /\ c.codeChallenge = verifier
              THEN /\ Goto(p, "getGrant",
                         [NoLocals EXCEPT !.clientID = client, !.via = "code",
                                          !.grantID = c.grantID,
                                          !.pair = nextPair])
                   /\ nextPair' = nextPair + 1
              ELSE UNCHANGED <<pc, loc, nextPair>>
    BY ONLY <1>7 DEF RedeemCode
  <2>2. nextPair \in Pairs
    BY <1>7 DEF RedeemCode, Pairs
  <2> DEFINE l == [NoLocals EXCEPT !.clientID = client, !.via = "code",
                                   !.grantID = c.grantID, !.pair = nextPair]
  <2>3. l \in Locals /\ LocalOK("getGrant", l)
    BY <2>2 DEF NoLocals, Locals, AuthCode
  <2>4. ControlTyped'
    BY <2>1, <2>3, GotoTyped DEF ControlTyped
  <2>5. QED
    BY <1>7, <2>1, <2>4 DEF RedeemCode, ConsumeAuthCode, ControlTyped
<1>8. ASSUME NEW p \in Slots, RotateRefreshToken(p) PROVE TInv'
  <2>1. PICK t \in tokens, client \in Clients, ok \in BOOLEAN :
           /\ ConsumeMCPRefreshToken(t, client, ok)
           /\ IF ok
              THEN /\ Goto(p, "getGrant",
                         [NoLocals EXCEPT !.clientID = client, !.via = "refresh",
                                          !.grantID = t.grantID,
                                          !.pair = nextPair])
                   /\ nextPair' = nextPair + 1
              ELSE UNCHANGED <<pc, loc, nextPair>>
    BY ONLY <1>8 DEF RotateRefreshToken
  <2>2. nextPair \in Pairs
    BY <1>8 DEF RotateRefreshToken, Pairs
  <2> DEFINE l == [NoLocals EXCEPT !.clientID = client, !.via = "refresh",
                                   !.grantID = t.grantID, !.pair = nextPair]
  <2>3. l \in Locals /\ LocalOK("getGrant", l)
    BY <2>2 DEF NoLocals, Locals, MCPToken
  <2>4. ControlTyped'
    BY <2>1, <2>3, GotoTyped DEF ControlTyped
  <2>5. QED
    BY <1>8, <2>1, <2>4 DEF RotateRefreshToken, ConsumeMCPRefreshToken, ControlTyped
<1>9. ASSUME NEW p \in Slots, TokenGetGrant(p) PROVE TInv'
  BY <1>9 DEF TokenGetGrant, Finish, Goto, At, NoLocals, Locals, storeVars
<1>10. ASSUME NEW p \in Slots, TokenPutAccess(p) PROVE TInv'
  BY <1>10 DEF TokenPutAccess, PutMCPToken, MCPToken, TokenTypes, Goto, At, NoLocals, Locals
<1>11. ASSUME NEW p \in Slots, TokenPutRefresh(p) PROVE TInv'
  BY <1>11 DEF TokenPutRefresh, PutMCPToken, MCPToken, TokenTypes, Finish, Goto, At, NoLocals, Locals
<1>12. ASSUME NEW p \in Slots, BearerToken(p) PROVE TInv'
  <2> DEFINE l(t) == [NoLocals EXCEPT !.grantID = t.grantID,
                                      !.expiresAt = t.expiresAt]
  <2>1. PICK t \in tokens, ok \in BOOLEAN :
           /\ GetMCPToken(t, ok)
           /\ IF ok /\ t.type = "access"
              THEN Goto(p, "bearerGrant", l(t))
              ELSE UNCHANGED <<pc, loc>>
    BY <1>12 DEF BearerToken
  <2>2. l(t) \in Locals /\ LocalOK("bearerGrant", l(t))
    BY DEF NoLocals, Locals, MCPToken
  <2>3. ControlTyped'
    BY <2>1, <2>2, GotoTyped DEF ControlTyped
  <2>4. QED
    BY <1>12, <2>1, <2>3 DEF BearerToken, GetMCPToken, ControlTyped
<1>13. ASSUME NEW p \in Slots, BearerGrant(p) PROVE TInv'
  BY <1>13 DEF BearerGrant, Finish, Goto, At, NoLocals, Locals, storeVars
<1>14. ASSUME NEW p \in Slots, LockGrant(p) PROVE TInv'
  BY <1>14 DEF LockGrant, Serve, Finish, Goto, At, NoLocals, Locals, storeVars
<1>15. ASSUME NEW p \in Slots, RefreshSucceeds(p) PROVE TInv'
  <2> DEFINE g == loc[p].grantID
  <2>1. g \in GrantIDs /\ pc[p] = "refresh"
    BY <1>15 DEF RefreshSucceeds, At
  <2>2. PICK expiresIn \in ExpiresIn, rotated \in BOOLEAN :
           heap' = [heap EXCEPT ![g] =
                       [expiresAt |-> now + Lifetime(expiresIn),
                        superseded |-> @.superseded /\ ~rotated]]
    BY <1>15 DEF RefreshSucceeds
  <2>3. Lifetime(expiresIn) \in Nat
    BY DEF Lifetime
  <2>4. heap' \in [GrantIDs -> Grant]
    BY <2>1, <2>2, <2>3 DEF Grant
  <2>5. [NoLocals EXCEPT !.grantID = g] \in Locals
    BY <2>1 DEF NoLocals, Locals
  <2>6. LocalOK("serving", [NoLocals EXCEPT !.grantID = g])
    BY <2>1 DEF NoLocals
  <2>7. ControlTyped'
    BY <1>15, <2>5, <2>6, GotoTyped, FinishTyped
       DEF RefreshSucceeds, Serve, ControlTyped
  <2>8. QED
    BY <1>15, <2>4, <2>7 DEF RefreshSucceeds, Unlock, ControlTyped, storeVars
<1>16. ASSUME NEW p \in Slots, RefreshFails(p) PROVE TInv'
  BY <1>16 DEF RefreshFails, Unlock, Goto, At, Locals, storeVars, Grant
<1>17. ASSUME NEW p \in Slots, RefreshDeleteGrant(p) PROVE TInv'
  BY <1>17 DEF RefreshDeleteGrant, DeleteGrant, Finish, Goto, At, NoLocals, Locals
<1>18. ASSUME NEW p \in Slots, ServeEnds(p) PROVE TInv'
  BY <1>18 DEF ServeEnds, Finish, Goto, At, NoLocals, Locals, storeVars
<1>19. CASE Tick
  BY <1>19 DEF Tick, storeVars
<1>20. CASE Restart
  BY <1>20 DEF Restart, NoLocals, Locals, NoGrant, Grant
<1>21. CASE UNCHANGED vars
  BY <1>21 DEF vars, storeVars
<1>22. QED
  BY <1>1, <1>2, <1>3, <1>4, <1>5, <1>6, <1>7, <1>8, <1>9, <1>10, <1>11,
     <1>12, <1>13, <1>14, <1>15, <1>16, <1>17, <1>18, <1>19, <1>20, <1>21
     DEF Next, Callback, Token, Mcp

\* Every variable of the server keeps its type, and every handler finds its local
\* variables set where it reads them.
THEOREM TypeCorrect == Spec => []TypeOK
<1>1. Spec => []TInv
  BY InitTInv, StepTInv, PTL DEF Spec
<1>2. TInv => TypeOK
  BY DEF TInv
<1> QED
  BY <1>1, <1>2, PTL

-----------------------------------------------------------------------------
(* Single use: one line of token pairs per login. *)

\* SingleSuccessor, one kind of successor at a time.
Single(g) ==
    /\ \A c, d \in Codes(g) : c = d
    /\ \A t, u \in RefreshTokens(g) : t = u
    /\ \A p, q \in Requests(g, Minting) : p = q
    /\ \A c \in Codes(g) : RefreshTokens(g) = {} /\ Requests(g, Minting) = {}
    /\ \A t \in RefreshTokens(g) : Requests(g, Minting) = {}

\* A grant ID that is still to be drawn has no successor.
Undrawn(g) ==
    g >= nextGrant =>
        Codes(g) = {} /\ RefreshTokens(g) = {} /\ Requests(g, Minting) = {}

SInv == \A g \in GrantIDs : Single(g) /\ Undrawn(g)

LEMMA SingleImplies == SInv => SingleSuccessor
  BY DEF SInv, Single, SingleSuccessor, Successors

LEMMA InitSInv == Init => SInv
  BY DEF Init, StoreEmpty, SInv, Single, Undrawn, Codes, RefreshTokens,
     Requests, Minting

\* A step after which no grant has a successor that it did not have before.
LEMMA ShrinkSInv ==
  ASSUME SInv, nextGrant \in Nat, nextGrant' \in Nat, nextGrant' >= nextGrant,
         \A g \in GrantIDs :
             /\ Codes(g)' \subseteq Codes(g)
             /\ RefreshTokens(g)' \subseteq RefreshTokens(g)
             /\ Requests(g, Minting)' \subseteq Requests(g, Minting)
  PROVE  SInv'
<1> SUFFICES ASSUME NEW g \in GrantIDs PROVE Single(g)' /\ Undrawn(g)'
  BY DEF SInv
<1>1. Single(g)'
  BY DEF SInv, Single
<1>2. Undrawn(g)'
  BY DEF SInv, Undrawn, GrantIDs
<1>3. QED
  BY <1>1, <1>2

LEMMA StepSInv == TInv /\ SInv /\ [Next]_vars => SInv'
<1> SUFFICES ASSUME TInv, SInv, [Next]_vars PROVE SInv'
  OBVIOUS
<1>a. /\ pc \in [Slots -> Points] /\ loc \in [Slots -> Locals]
      /\ nextGrant \in Nat \ {0}
      /\ authCodes \subseteq AuthCode /\ tokens \subseteq MCPToken
  BY DEF TInv, TypeOK
<1>1. CASE Authorize
  <2>1. UNCHANGED <<authCodes, tokens, pc, loc, nextGrant>>
    BY <1>1 DEF Authorize
  <2>2. QED
    BY <1>a, <2>1, ShrinkSInv DEF Codes, RefreshTokens, Requests, Minting
<1>2. ASSUME NEW p \in Slots, CallbackState(p) PROVE SInv'
  BY <1>a, <1>2, ShrinkSInv DEF CallbackState, Goto, At, Codes,
     RefreshTokens, Requests, Minting
<1>3. ASSUME NEW p \in Slots, CallbackExchange(p) PROVE SInv'
  BY <1>a, <1>3, ShrinkSInv DEF CallbackExchange, Finish, Goto, At, Codes,
     RefreshTokens, Requests, Minting, storeVars
<1>4. ASSUME NEW p \in Slots, CallbackRejectUser(p) PROVE SInv'
  BY <1>a, <1>4, ShrinkSInv DEF CallbackRejectUser, Finish, Goto, At, Codes,
     RefreshTokens, Requests, Minting, storeVars
<1>5. ASSUME NEW p \in Slots, CallbackAcceptUser(p) PROVE SInv'
  <2> DEFINE c == [grantID |-> nextGrant, clientID |-> loc[p].clientID,
                   redirectURI |-> loc[p].redirectURI,
                   codeChallenge |-> loc[p].codeChallenge,
                   expiresAt |-> now + CodeTTL]
  <2>1. /\ authCodes' \subseteq authCodes \cup {c}
        /\ tokens' = tokens
        /\ authCodes' \subseteq authCodes \/ nextGrant' = nextGrant + 1
        /\ nextGrant' \in {nextGrant, nextGrant + 1}
    BY <1>5 DEF CallbackAcceptUser, PutAuthCode, Unexpired
  <2>2. \A g \in GrantIDs : Requests(g, Minting)' \subseteq Requests(g, Minting)
    BY <1>a, <1>5 DEF CallbackAcceptUser, Finish, Goto, At, Requests, Minting
  <2>3. \A g \in GrantIDs : RefreshTokens(g)' = RefreshTokens(g)
    BY <2>1 DEF RefreshTokens
  <2>4. CASE authCodes' \subseteq authCodes
    BY <1>a, <2>1, <2>2, <2>3, <2>4, ShrinkSInv DEF Codes
  <2>5. CASE nextGrant' = nextGrant + 1
    <3> SUFFICES ASSUME NEW g \in GrantIDs PROVE Single(g)' /\ Undrawn(g)'
      BY DEF SInv
    <3>1. CASE g = nextGrant
      <4>1. Codes(g)' \subseteq {c} /\ RefreshTokens(g)' = {}
            /\ Requests(g, Minting)' = {}
        BY <1>a, <2>1, <2>2, <2>3, <3>1 DEF SInv, Undrawn, Codes
      <4>2. QED
        BY <1>a, <2>5, <3>1, <4>1 DEF Single, Undrawn
    <3>2. CASE g # nextGrant
      <4>1. Codes(g)' \subseteq Codes(g)
        BY <2>1, <3>2 DEF Codes
      <4>2. QED
        BY <1>a, <2>2, <2>3, <2>5, <3>2, <4>1
           DEF SInv, Single, Undrawn, GrantIDs
    <3>3. QED
      BY <3>1, <3>2
  <2>6. QED
    BY <2>1, <2>4, <2>5
<1>6. ASSUME NEW p \in Slots, CallbackPutGrant(p) PROVE SInv'
  BY <1>a, <1>6, ShrinkSInv DEF CallbackPutGrant, Finish, Goto, At, Codes,
     RefreshTokens, Requests, Minting
<1>7. ASSUME NEW p \in Slots, RedeemCode(p) PROVE SInv'
  <2>1. PICK c \in authCodes :
           /\ authCodes' = authCodes \ {c}
           /\ \/ UNCHANGED <<pc, loc>>
              \/ /\ pc' = [pc EXCEPT ![p] = "getGrant"]
                 /\ loc'[p].grantID = c.grantID
                 /\ \A q \in Slots \ {p} : loc'[q] = loc[q]
    BY <1>a, <1>7 DEF RedeemCode, ConsumeAuthCode, Goto, NoLocals
  <2>2. UNCHANGED <<tokens, nextGrant>>
    BY <1>7 DEF RedeemCode
  <2>3. CASE UNCHANGED <<pc, loc>>
    BY <1>a, <2>1, <2>2, <2>3, ShrinkSInv
       DEF Codes, RefreshTokens, Requests, Minting
  <2>4. CASE /\ pc' = [pc EXCEPT ![p] = "getGrant"]
             /\ loc'[p].grantID = c.grantID
             /\ \A q \in Slots \ {p} : loc'[q] = loc[q]
    <3> SUFFICES ASSUME NEW g \in GrantIDs PROVE Single(g)' /\ Undrawn(g)'
      BY DEF SInv
    <3>1. Single(g) /\ Undrawn(g)
      BY DEF SInv
    <3>2. RefreshTokens(g)' = RefreshTokens(g)
      BY <2>2 DEF RefreshTokens
    <3>3. CASE g = c.grantID
      <4>1. c \in Codes(g)
        BY <3>3 DEF Codes
      <4>2. RefreshTokens(g) = {} /\ Requests(g, Minting) = {}
        BY <3>1, <4>1 DEF Single
      <4>3. Codes(g)' = {}
        BY <2>1, <3>1, <4>1 DEF Single, Codes
      <4>4. Requests(g, Minting)' \subseteq {p}
        BY <1>a, <2>4, <4>2 DEF Requests, Minting
      <4>5. QED
        BY <2>2, <3>1, <3>2, <4>1, <4>2, <4>3, <4>4 DEF Single, Undrawn
    <3>4. CASE g # c.grantID
      <4>1. Codes(g)' = Codes(g)
        BY <2>1, <3>4 DEF Codes
      <4>2. Requests(g, Minting)' \subseteq Requests(g, Minting)
        BY <1>a, <2>4, <3>4 DEF Requests, Minting
      <4>3. QED
        BY <2>2, <3>1, <3>2, <4>1, <4>2 DEF Single, Undrawn
    <3>5. QED
      BY <3>3, <3>4
  <2>5. QED
    BY <2>1, <2>3, <2>4
<1>8. ASSUME NEW p \in Slots, RotateRefreshToken(p) PROVE SInv'
  <2>1. PICK t \in tokens :
           /\ t.type = "refresh"
           /\ tokens' = tokens \ {t}
           /\ \/ UNCHANGED <<pc, loc>>
              \/ /\ pc' = [pc EXCEPT ![p] = "getGrant"]
                 /\ loc'[p].grantID = t.grantID
                 /\ \A q \in Slots \ {p} : loc'[q] = loc[q]
    BY <1>a, <1>8
       DEF RotateRefreshToken, ConsumeMCPRefreshToken, Goto, NoLocals
  <2>2. UNCHANGED <<authCodes, nextGrant>>
    BY <1>8 DEF RotateRefreshToken
  <2>3. CASE UNCHANGED <<pc, loc>>
    BY <1>a, <2>1, <2>2, <2>3, ShrinkSInv
       DEF Codes, RefreshTokens, Requests, Minting
  <2>4. CASE /\ pc' = [pc EXCEPT ![p] = "getGrant"]
             /\ loc'[p].grantID = t.grantID
             /\ \A q \in Slots \ {p} : loc'[q] = loc[q]
    <3> SUFFICES ASSUME NEW g \in GrantIDs PROVE Single(g)' /\ Undrawn(g)'
      BY DEF SInv
    <3>1. Single(g) /\ Undrawn(g)
      BY DEF SInv
    <3>2. Codes(g)' = Codes(g)
      BY <2>2 DEF Codes
    <3>3. CASE g = t.grantID
      <4>1. t \in RefreshTokens(g)
        BY <2>1, <3>3 DEF RefreshTokens
      <4>2. Codes(g) = {} /\ Requests(g, Minting) = {}
        BY <3>1, <4>1 DEF Single
      <4>3. RefreshTokens(g)' = {}
        BY <2>1, <3>1, <4>1 DEF Single, RefreshTokens
      <4>4. Requests(g, Minting)' \subseteq {p}
        BY <1>a, <2>4, <4>2 DEF Requests, Minting
      <4>5. QED
        BY <2>2, <3>1, <3>2, <4>1, <4>2, <4>3, <4>4 DEF Single, Undrawn
    <3>4. CASE g # t.grantID
      <4>1. RefreshTokens(g)' = RefreshTokens(g)
        BY <2>1, <3>4 DEF RefreshTokens
      <4>2. Requests(g, Minting)' \subseteq Requests(g, Minting)
        BY <1>a, <2>4, <3>4 DEF Requests, Minting
      <4>3. QED
        BY <2>2, <3>1, <3>2, <4>1, <4>2 DEF Single, Undrawn
    <3>5. QED
      BY <3>3, <3>4
  <2>5. QED
    BY <2>1, <2>3, <2>4
<1>9. ASSUME NEW p \in Slots, TokenGetGrant(p) PROVE SInv'
  BY <1>a, <1>9, ShrinkSInv DEF TokenGetGrant, Finish, Goto, At, Codes,
     RefreshTokens, Requests, Minting, storeVars
<1>10. ASSUME NEW p \in Slots, TokenPutAccess(p) PROVE SInv'
  BY <1>a, <1>10, ShrinkSInv DEF TokenPutAccess, PutMCPToken, Goto, At, Codes,
     RefreshTokens, Requests, Minting, Locals
<1>11. ASSUME NEW p \in Slots, TokenPutRefresh(p) PROVE SInv'
  <2> DEFINE h == loc[p].grantID
             t == [pair |-> loc[p].pair, type |-> "refresh", grantID |-> h,
                   clientID |-> loc[p].clientID,
                   expiresAt |-> loc[p].expiresAt]
  <2>1. /\ pc[p] = "putRefresh"
        /\ tokens' = tokens \cup {t}
        /\ UNCHANGED <<authCodes, nextGrant>>
        /\ pc' = [pc EXCEPT ![p] = "idle"]
        /\ loc' = [loc EXCEPT ![p] = NoLocals]
    BY <1>11 DEF TokenPutRefresh, PutMCPToken, Finish, Goto, At
  <2> SUFFICES ASSUME NEW g \in GrantIDs PROVE Single(g)' /\ Undrawn(g)'
    BY DEF SInv
  <2>2. Single(g) /\ Undrawn(g)
    BY DEF SInv
  <2>3. Codes(g)' = Codes(g)
    BY <2>1 DEF Codes
  <2>4. Requests(g, Minting)' = Requests(g, Minting) \ {p}
    BY <1>a, <2>1 DEF Requests, Minting
  <2>5. CASE g = h
    <3>1. p \in Requests(g, Minting)
      BY <2>1, <2>5 DEF Requests, Minting
    <3>2. Codes(g) = {} /\ RefreshTokens(g) = {}
      BY <2>2, <3>1 DEF Single
    <3>3. Requests(g, Minting)' = {}
      BY <2>2, <2>4, <3>1 DEF Single
    <3>4. RefreshTokens(g)' \subseteq {t}
      BY <2>1, <3>2 DEF RefreshTokens
    <3>5. QED
      BY <2>1, <2>2, <2>3, <3>1, <3>2, <3>3, <3>4 DEF Single, Undrawn
  <2>6. CASE g # h
    <3>1. RefreshTokens(g)' = RefreshTokens(g)
      BY <2>1, <2>6 DEF RefreshTokens
    <3>2. QED
      BY <2>1, <2>2, <2>3, <2>4, <3>1 DEF Single, Undrawn
  <2>7. QED
    BY <2>5, <2>6
<1>12. ASSUME NEW p \in Slots, BearerToken(p) PROVE SInv'
  BY <1>a, <1>12, ShrinkSInv DEF BearerToken, GetMCPToken, Goto, At, Codes,
     RefreshTokens, Requests, Minting
<1>13. ASSUME NEW p \in Slots, BearerGrant(p) PROVE SInv'
  BY <1>a, <1>13, ShrinkSInv DEF BearerGrant, Finish, Goto, At, Codes,
     RefreshTokens, Requests, Minting, storeVars
<1>14. ASSUME NEW p \in Slots, LockGrant(p) PROVE SInv'
  BY <1>a, <1>14, ShrinkSInv DEF LockGrant, Serve, Finish, Goto, At, Codes,
     RefreshTokens, Requests, Minting, storeVars
<1>15. ASSUME NEW p \in Slots, RefreshSucceeds(p) PROVE SInv'
  BY <1>a, <1>15, ShrinkSInv DEF RefreshSucceeds, Serve, Finish, Goto, At,
     Codes, RefreshTokens, Requests, Minting, storeVars
<1>16. ASSUME NEW p \in Slots, RefreshFails(p) PROVE SInv'
  BY <1>a, <1>16, ShrinkSInv DEF RefreshFails, Goto, At, Codes,
     RefreshTokens, Requests, Minting, storeVars
<1>17. ASSUME NEW p \in Slots, RefreshDeleteGrant(p) PROVE SInv'
  BY <1>a, <1>17, ShrinkSInv DEF RefreshDeleteGrant, DeleteGrant, Finish, Goto,
     At, Codes, RefreshTokens, Requests, Minting
<1>18. ASSUME NEW p \in Slots, ServeEnds(p) PROVE SInv'
  BY <1>a, <1>18, ShrinkSInv DEF ServeEnds, Finish, Goto, At, Codes,
     RefreshTokens, Requests, Minting, storeVars
<1>19. CASE Tick
  BY <1>a, <1>19, ShrinkSInv DEF Tick, Codes, RefreshTokens, Requests,
     Minting, storeVars
<1>20. CASE Restart
  BY <1>a, <1>20, ShrinkSInv DEF Restart, Codes, RefreshTokens, Requests,
     Minting
<1>21. CASE UNCHANGED vars
  BY <1>a, <1>21, ShrinkSInv DEF vars, storeVars, Codes, RefreshTokens,
     Requests, Minting
<1>22. QED
  BY <1>1, <1>2, <1>3, <1>4, <1>5, <1>6, <1>7, <1>8, <1>9, <1>10, <1>11,
     <1>12, <1>13, <1>14, <1>15, <1>16, <1>17, <1>18, <1>19, <1>20, <1>21
     DEF Next, Callback, Token, Mcp

\* Codes and refresh tokens are single use however requests interleave: the
\* exchange and the rotation handlers never have two ways to mint a pair for the
\* same login.
THEOREM SingleUse == Spec => []SingleSuccessor
<1>1. Spec => [](TInv /\ SInv)
  BY InitTInv, InitSInv, StepTInv, StepSInv, PTL DEF Spec
<1>2. QED
  BY <1>1, SingleImplies, PTL

-----------------------------------------------------------------------------
(* A code finds its grant. *)

\* Requests that authenticate with an access token of a grant.
Bearing == {"bearerGrant", "lock", "refresh", "deleteGrant"}

CodeMinters(g) == {p \in Requests(g, Minting) : loc[p].via = "code"}

\* No token pair of the grant has been sent to a client yet.
Unredeemed(g) == Codes(g) # {} \/ CodeMinters(g) # {}

\* Only a request with an access token of g can delete g, and before its code is
\* exchanged nobody has one.
Untouched(g) ==
    Unredeemed(g) =>
        /\ Requests(g, Bearing) = {}
        /\ \A t \in tokens : t.grantID = g => t.pair \notin pairsSent

Stored(g) ==
    /\ Codes(g) # {} /\ g \in codesSent => g \in grants
    /\ CodeMinters(g) # {} => g \in codesSent /\ g \in grants

Unborn(g) ==
    g >= nextGrant =>
        /\ g \notin codesSent
        /\ Requests(g, {"putGrant"}) = {} /\ Requests(g, Bearing) = {}
        /\ \A t \in tokens : t.grantID # g

\* One callback stores the grant, once.
Unstored(g) ==
    /\ \A p, q \in Requests(g, {"putGrant"}) : p = q
    /\ Requests(g, {"putGrant"}) # {} => g \notin codesSent

\* A pair belongs to one exchange, and is sent when that exchange ends.
PairsOK ==
    /\ \A t \in tokens : t.pair < nextPair
    /\ \A n \in pairsSent : n < nextPair
    /\ \A p \in Slots : pc[p] \in Minting =>
          /\ loc[p].pair < nextPair
          /\ loc[p].pair \notin pairsSent
          /\ \A q \in Slots :
                pc[q] \in Minting /\ loc[q].pair = loc[p].pair => p = q
          /\ \A t \in tokens :
                t.pair = loc[p].pair => t.grantID = loc[p].grantID

GrantOK(g) == Untouched(g) /\ Stored(g) /\ Unborn(g) /\ Unstored(g)

CInv == (\A g \in GrantIDs : GrantOK(g)) /\ PairsOK

LEMMA CodeHasGrantInv == CInv => CodeHasGrant
  BY DEF CInv, GrantOK, Stored, CodeHasGrant, CodeMinters, HasGrant

LEMMA InitCInv == Init => CInv
  BY DEF Init, StoreEmpty, CInv, GrantOK, Untouched, Unredeemed, Stored, Unborn,
     Unstored, PairsOK, CodeMinters, Codes, Requests, Minting, Bearing

Types ==
    /\ pc \in [Slots -> Points] /\ loc \in [Slots -> Locals]
    /\ nextGrant \in Nat \ {0} /\ nextPair \in Nat \ {0}
    /\ authCodes \subseteq AuthCode /\ tokens \subseteq MCPToken
    /\ pairsSent \subseteq Pairs

\* A step that gives the grant g nothing new.
LEMMA CalmGrant ==
  ASSUME Types, Types', NEW g \in GrantIDs, GrantOK(g),
         nextGrant' >= nextGrant,
         Codes(g)' \subseteq Codes(g),
         CodeMinters(g)' \subseteq CodeMinters(g),
         Requests(g, {"putGrant"})' \subseteq Requests(g, {"putGrant"}),
         Requests(g, Bearing)' \subseteq Requests(g, Bearing),
         g \in codesSent' <=> g \in codesSent,
         g \in grants => g \in grants',
         \A t \in tokens' : t.grantID = g =>
             t \in tokens /\ (t.pair \in pairsSent' => t.pair \in pairsSent)
  PROVE  GrantOK(g)'
<1>2. g >= nextGrant' => g >= nextGrant
  BY DEF GrantIDs, Types
<1>3. Untouched(g)'
  BY DEF GrantOK, Untouched, Unredeemed
<1>4. Stored(g)'
  BY DEF GrantOK, Stored
<1>5. Unborn(g)'
  BY <1>2 DEF GrantOK, Unborn
<1>6. Unstored(g)'
  BY DEF GrantOK, Unstored
<1>7. QED
  BY <1>3, <1>4, <1>5, <1>6 DEF GrantOK

\* A step that neither starts an exchange nor sends or adds a token.
LEMMA CalmPairs ==
  ASSUME Types, Types', PairsOK, UNCHANGED pairsSent,
         tokens' \subseteq tokens, nextPair' >= nextPair,
         \A p \in Slots : pc'[p] \in Minting =>
             /\ pc[p] \in Minting
             /\ loc'[p].pair = loc[p].pair
             /\ loc'[p].grantID = loc[p].grantID
  PROVE  PairsOK'
<1>1. /\ \A t \in tokens' : t.pair < nextPair'
      /\ \A n \in pairsSent' : n < nextPair'
  BY DEF PairsOK, Types, MCPToken, Pairs
<1>2. ASSUME NEW p \in Slots, pc'[p] \in Minting
      PROVE  /\ loc'[p].pair < nextPair'
             /\ loc'[p].pair \notin pairsSent'
             /\ \A q \in Slots :
                   pc'[q] \in Minting /\ loc'[q].pair = loc'[p].pair => p = q
             /\ \A t \in tokens' :
                   t.pair = loc'[p].pair => t.grantID = loc'[p].grantID
  <2>1. loc[p].pair \in Int
    BY DEF Types, Locals, Pairs
  <2>2. loc'[p].pair < nextPair'
    BY <1>2, <2>1 DEF PairsOK, Types
  <2>3. QED
    BY <1>2, <2>2 DEF PairsOK
<1>3. QED
  BY <1>1, <1>2 DEF PairsOK

\* A step in which p starts the exchange of a new pair.
LEMMA MintPairs ==
  ASSUME Types, Types', PairsOK, NEW p \in Slots, UNCHANGED pairsSent,
         tokens' \subseteq tokens, nextPair' = nextPair + 1,
         pc' = [pc EXCEPT ![p] = "getGrant"], loc'[p].pair = nextPair,
         \A q \in Slots \ {p} : loc'[q] = loc[q]
  PROVE  PairsOK'
<1>1. \A t \in tokens : t.pair < nextPair /\ t.pair \in Int
  BY DEF PairsOK, Types, MCPToken, Pairs
<1>2. \A n \in pairsSent : n < nextPair /\ n \in Int
  BY DEF PairsOK, Types, Pairs
<1>3. ASSUME NEW q \in Slots, pc'[q] \in Minting, q # p
      PROVE  /\ pc[q] \in Minting /\ loc'[q] = loc[q]
             /\ loc[q].pair < nextPair /\ loc[q].pair \in Int
  BY <1>3 DEF PairsOK, Types, Locals, Pairs
<1>4. /\ \A t \in tokens' : t.pair < nextPair'
      /\ \A n \in pairsSent' : n < nextPair'
  BY <1>1, <1>2 DEF Types
<1>5. ASSUME NEW q \in Slots, pc'[q] \in Minting
      PROVE  /\ loc'[q].pair < nextPair'
             /\ loc'[q].pair \notin pairsSent'
             /\ \A r \in Slots :
                   pc'[r] \in Minting /\ loc'[r].pair = loc'[q].pair => q = r
             /\ \A t \in tokens' :
                   t.pair = loc'[q].pair => t.grantID = loc'[q].grantID
  <2>1. CASE q = p
    BY <1>1, <1>2, <1>3, <2>1 DEF Types
  <2>2. CASE q # p
    BY <1>3, <1>5, <2>2 DEF PairsOK, Types
  <2>3. QED
    BY <2>1, <2>2
<1>6. QED
  BY <1>4, <1>5 DEF PairsOK

\* The request p keeps its part in the argument, or gives it up.
Calm(p) ==
    \/ pc'[p] \notin {"putGrant"} \cup Minting \cup Bearing
    \/ /\ \/ pc[p] = "putGrant" /\ pc'[p] = "putGrant"
          \/ pc[p] \in Minting /\ pc'[p] \in Minting
          \/ pc[p] \in Bearing /\ pc'[p] \in Bearing
       /\ loc'[p].grantID = loc[p].grantID
       /\ loc'[p].pair = loc[p].pair
       /\ loc'[p].via = loc[p].via

\* A step that sends nothing, removes no grant and adds no code or token, and
\* after which no request has a new part in the argument.
LEMMA CalmCInv ==
  ASSUME CInv, Types, Types',
         UNCHANGED <<codesSent, pairsSent>>,
         grants \subseteq grants', tokens' \subseteq tokens,
         authCodes' \subseteq authCodes,
         nextGrant' >= nextGrant, nextPair' >= nextPair,
         \A p \in Slots : Calm(p)
  PROVE  CInv'
<1>1. ASSUME NEW g \in GrantIDs
      PROVE  /\ Codes(g)' \subseteq Codes(g)
             /\ CodeMinters(g)' \subseteq CodeMinters(g)
             /\ Requests(g, {"putGrant"})' \subseteq Requests(g, {"putGrant"})
             /\ Requests(g, Bearing)' \subseteq Requests(g, Bearing)
  BY DEF Calm, Codes, CodeMinters, Requests, Minting, Bearing
<1>2. ASSUME NEW g \in GrantIDs PROVE GrantOK(g)'
  BY <1>1, CalmGrant DEF CInv
<1>3. \A p \in Slots : pc'[p] \in Minting =>
          /\ pc[p] \in Minting
          /\ loc'[p].pair = loc[p].pair
          /\ loc'[p].grantID = loc[p].grantID
  BY DEF Calm, Minting, Bearing
<1>4. PairsOK'
  BY <1>3, CalmPairs DEF CInv
<1>5. QED
  BY <1>2, <1>4 DEF CInv

\* The request p stores a token of its pair and does not send it yet.
LEMMA MoreTokens ==
  ASSUME CInv, Types, Types', SInv, NEW p \in Slots, pc[p] \in Minting,
         NEW h \in GrantIDs, NEW n \in Pairs,
         h = loc[p].grantID, n = loc[p].pair, pc'[p] \in Minting,
         UNCHANGED <<grants, authCodes, nextGrant, nextPair, codesSent, pairsSent>>,
         \A t \in tokens' : t \in tokens \/ (t.grantID = h /\ t.pair = n),
         \A q \in Slots : Calm(q)
  PROVE  CInv'
<1>1. n \notin pairsSent /\ n < nextPair /\ h < nextGrant
  BY DEF CInv, PairsOK, SInv, Undrawn, Requests, Types, GrantIDs
<1>2. ASSUME NEW g \in GrantIDs
      PROVE  /\ Codes(g)' \subseteq Codes(g)
             /\ CodeMinters(g)' \subseteq CodeMinters(g)
             /\ Requests(g, {"putGrant"})' \subseteq Requests(g, {"putGrant"})
             /\ Requests(g, Bearing)' \subseteq Requests(g, Bearing)
  BY DEF Calm, Codes, CodeMinters, Requests, Minting, Bearing
<1>3. ASSUME NEW g \in GrantIDs PROVE GrantOK(g)'
  <2>1. GrantOK(g)
    BY DEF CInv
  <2>2. Untouched(g)'
    BY <1>1, <1>2, <2>1 DEF GrantOK, Untouched, Unredeemed
  <2>3. Stored(g)'
    BY <1>2, <2>1 DEF GrantOK, Stored
  <2>4. Unborn(g)'
    BY <1>1, <1>2, <2>1 DEF GrantOK, Unborn, Types, GrantIDs
  <2>5. Unstored(g)'
    BY <1>2, <2>1 DEF GrantOK, Unstored
  <2>6. QED
    BY <2>2, <2>3, <2>4, <2>5 DEF GrantOK
<1>4. ASSUME NEW q \in Slots, pc'[q] \in Minting
      PROVE  /\ pc[q] \in Minting
             /\ loc'[q].pair = loc[q].pair
             /\ loc'[q].grantID = loc[q].grantID
  BY <1>4 DEF Calm, Minting, Bearing
<1>5. PairsOK
  BY DEF CInv
<1>6. /\ \A t \in tokens' : t.pair < nextPair'
      /\ \A m \in pairsSent' : m < nextPair'
  BY <1>1, <1>5 DEF PairsOK
<1>7. ASSUME NEW q \in Slots, pc'[q] \in Minting
      PROVE  /\ loc'[q].pair < nextPair'
             /\ loc'[q].pair \notin pairsSent'
             /\ \A r \in Slots :
                   pc'[r] \in Minting /\ loc'[r].pair = loc'[q].pair => q = r
  BY <1>4, <1>5, <1>7 DEF PairsOK
<1>8. ASSUME NEW q \in Slots, pc'[q] \in Minting, NEW t \in tokens',
             t.pair = loc'[q].pair
      PROVE  t.grantID = loc'[q].grantID
  <2>1. CASE t \in tokens
    BY <1>4, <1>5, <1>8, <2>1 DEF PairsOK
  <2>2. CASE t.grantID = h /\ t.pair = n
    <3>1. pc[q] \in Minting /\ loc[q].pair = loc[p].pair
          /\ loc'[q].grantID = loc[q].grantID
      BY <1>4, <1>8, <2>2
    <3>2. q = p
      BY <1>5, <3>1 DEF PairsOK
    <3>3. QED
      BY <2>2, <3>1, <3>2
  <2>3. QED
    BY <2>1, <2>2
<1>9. QED
  BY <1>3, <1>6, <1>7, <1>8 DEF CInv, PairsOK

LEMMA TypesTInv == TInv => Types
  BY DEF TInv, TypeOK, Types

LEMMA StepCInv == TInv /\ TInv' /\ SInv /\ CInv /\ [Next]_vars => CInv'
<1> SUFFICES ASSUME TInv, TInv', SInv, CInv, [Next]_vars PROVE CInv'
  OBVIOUS
<1>a. Types /\ Types'
  BY TypesTInv DEF TInv, TypeOK, Types
<1> USE DEF Types
<1>1. CASE Authorize
  BY <1>a, <1>1, CalmCInv DEF Authorize, Calm, Minting, Bearing
<1>2. ASSUME NEW p \in Slots, CallbackState(p) PROVE CInv'
  BY <1>a, <1>2, CalmCInv DEF CallbackState, Calm, Goto, At, Minting, Bearing
<1>3. ASSUME NEW p \in Slots, CallbackExchange(p) PROVE CInv'
  BY <1>a, <1>3, CalmCInv DEF CallbackExchange, Calm, Goto, At, Minting, Bearing, Finish, storeVars
<1>4. ASSUME NEW p \in Slots, CallbackRejectUser(p) PROVE CInv'
  BY <1>a, <1>4, CalmCInv DEF CallbackRejectUser, Calm, Goto, At, Minting, Bearing, Finish, storeVars
<1>5. ASSUME NEW p \in Slots, CallbackAcceptUser(p) PROVE CInv'
  <2>0. PICK h \in GrantIDs : h = nextGrant
    <3>1. nextGrant \in GrantIDs
      BY <1>a, <1>5 DEF CallbackAcceptUser, GrantIDs
    <3>2. QED
      BY <3>1
  <2>1. /\ UNCHANGED <<codesSent, pairsSent, grants, tokens, nextPair>>
        /\ pc[p] = "userInfo"
        /\ \/ /\ UNCHANGED nextGrant /\ authCodes' \subseteq authCodes
              /\ pc' = [pc EXCEPT ![p] = "idle"]
              /\ loc' = [loc EXCEPT ![p] = NoLocals]
           \/ /\ nextGrant' = h + 1
              /\ \A c \in authCodes' : c \in authCodes \/ c.grantID = h
              /\ pc' = [pc EXCEPT ![p] = "putGrant"]
              /\ \A q \in Slots \ {p} : loc'[q] = loc[q]
    <3> DEFINE c == [grantID |-> nextGrant, clientID |-> loc[p].clientID,
                     redirectURI |-> loc[p].redirectURI,
                     codeChallenge |-> loc[p].codeChallenge,
                     expiresAt |-> now + CodeTTL]
    <3>1. PICK ok \in BOOLEAN :
             /\ PutAuthCode(c, ok)
             /\ IF ok
                THEN /\ nextGrant' = nextGrant + 1
                     /\ Goto(p, "putGrant", [loc[p] EXCEPT !.grantID = nextGrant])
                ELSE UNCHANGED nextGrant /\ Finish(p)
      BY ONLY <1>5 DEF CallbackAcceptUser
    <3>2. UNCHANGED <<codesSent, pairsSent, grants, tokens, nextPair>>
          /\ pc[p] = "userInfo"
      BY <1>5 DEF CallbackAcceptUser, At
    <3>3. CASE ok
      BY <1>a, <2>0, <3>1, <3>2, <3>3 DEF PutAuthCode, Unexpired, Goto
    <3>4. CASE ~ok
      BY <3>1, <3>2, <3>4 DEF PutAuthCode, Unexpired, Finish, Goto
    <3>5. QED
      BY <3>3, <3>4
  <2>2. CASE UNCHANGED nextGrant
    <3>1. authCodes' \subseteq authCodes /\ pc' = [pc EXCEPT ![p] = "idle"]
          /\ loc' = [loc EXCEPT ![p] = NoLocals]
      BY <1>a, <2>0, <2>1, <2>2
    <3>2. \A q \in Slots : Calm(q)
      BY <1>a, <3>1 DEF Calm, Minting, Bearing
    <3>3. QED
      BY <1>a, <2>1, <2>2, <3>1, <3>2, CalmCInv
  <2>3. CASE nextGrant' = h + 1
    <3>0. loc'[p].grantID = h
      BY <1>a, <1>5, <2>0, <2>3 DEF CallbackAcceptUser, Goto, Locals
    <3>1. /\ \A c \in authCodes' : c \in authCodes \/ c.grantID = h
          /\ pc' = [pc EXCEPT ![p] = "putGrant"]
          /\ \A q \in Slots \ {p} : loc'[q] = loc[q]
      BY <1>a, <2>0, <2>1, <2>3
    <3>2. ASSUME NEW g \in GrantIDs
          PROVE  /\ CodeMinters(g)' \subseteq CodeMinters(g)
                 /\ Requests(g, Bearing)' \subseteq Requests(g, Bearing)
      BY <1>a, <3>1 DEF CodeMinters, Requests, Minting, Bearing
    <3>3. ASSUME NEW g \in GrantIDs, g # h PROVE GrantOK(g)'
      <4>1. Codes(g)' \subseteq Codes(g)
        BY <3>1, <3>3 DEF Codes
      <4>2. Requests(g, {"putGrant"})' \subseteq Requests(g, {"putGrant"})
        BY <1>a, <3>0, <3>1, <3>3 DEF Requests
      <4>3. QED
        BY <1>a, <2>0, <2>1, <2>3, <3>2, <4>1, <4>2, CalmGrant DEF CInv
    <3>4. GrantOK(h)'
      <4>1. /\ h \notin codesSent
            /\ Requests(h, {"putGrant"}) = {} /\ Requests(h, Bearing) = {}
            /\ \A t \in tokens : t.grantID # h
            /\ CodeMinters(h) = {}
        <5>1. h >= nextGrant
          BY <1>a, <2>0
        <5>2. QED
          BY <5>1 DEF CInv, GrantOK, Unborn, SInv, Undrawn, CodeMinters
      <4>2. Requests(h, {"putGrant"})' \subseteq {p}
        BY <1>a, <3>1, <4>1 DEF Requests, Locals
      <4>3. Requests(h, Bearing)' = {} /\ CodeMinters(h)' = {}
        BY <2>1, <3>2, <4>1
      <4>4. Untouched(h)'
        BY <2>1, <4>1, <4>3 DEF Untouched
      <4>5. Stored(h)'
        BY <2>1, <4>1, <4>3 DEF Stored
      <4>6. Unborn(h)'
        BY <2>3 DEF Unborn, GrantIDs
      <4>7. Unstored(h)'
        BY <2>1, <4>1, <4>2 DEF Unstored
      <4>8. QED
        BY <4>4, <4>5, <4>6, <4>7 DEF GrantOK
    <3>5. \A q \in Slots : pc'[q] \in Minting =>
              /\ pc[q] \in Minting
              /\ loc'[q].pair = loc[q].pair
              /\ loc'[q].grantID = loc[q].grantID
      BY <1>a, <3>1 DEF Minting
    <3>6. PairsOK'
      BY <1>a, <2>1, <3>5, CalmPairs DEF CInv
    <3>7. QED
      BY <3>3, <3>4, <3>6 DEF CInv
  <2>4. QED
    BY <2>1, <2>2, <2>3
<1>6. ASSUME NEW p \in Slots, CallbackPutGrant(p) PROVE CInv'
  <2>0. PICK h \in GrantIDs : h = loc[p].grantID
    BY <1>6 DEF CallbackPutGrant, At, TInv, LocalsOK, LocalOK, Minting
  <2>1. /\ pc[p] = "putGrant"
        /\ grants' = grants \cup {h}
        /\ codesSent' = codesSent \cup {h}
        /\ UNCHANGED <<authCodes, tokens, nextGrant, nextPair, pairsSent>>
        /\ pc' = [pc EXCEPT ![p] = "idle"]
        /\ loc' = [loc EXCEPT ![p] = NoLocals]
    BY <1>6, <2>0 DEF CallbackPutGrant, PutGrant, Finish, Goto, At
  <2>3. \A q \in Slots : Calm(q)
    BY <1>a, <2>1 DEF Calm, Minting, Bearing
  <2>4. ASSUME NEW g \in GrantIDs
        PROVE  /\ Codes(g)' \subseteq Codes(g)
               /\ CodeMinters(g)' \subseteq CodeMinters(g)
               /\ Requests(g, {"putGrant"})' \subseteq Requests(g, {"putGrant"})
               /\ Requests(g, Bearing)' \subseteq Requests(g, Bearing)
    BY <2>1, <2>3 DEF Calm, Codes, CodeMinters, Requests, Minting, Bearing
  <2>5. ASSUME NEW g \in GrantIDs, g # h PROVE GrantOK(g)'
    BY <1>a, <2>1, <2>4, <2>5, CalmGrant DEF CInv
  <2>6. GrantOK(h)'
    <3>1. GrantOK(h) /\ p \in Requests(h, {"putGrant"})
      BY <2>0, <2>1 DEF CInv, Requests
    <3>2. Untouched(h)'
      BY <2>1, <2>4, <3>1 DEF GrantOK, Untouched, Unredeemed
    <3>3. Stored(h)'
      BY <2>1 DEF Stored
    <3>4. Unborn(h)'
      BY <2>1, <3>1 DEF GrantOK, Unborn
    <3>5. Requests(h, {"putGrant"})' = {}
      BY <1>a, <2>1, <2>4, <3>1 DEF GrantOK, Unstored, Requests
    <3>6. Unstored(h)'
      BY <3>5 DEF Unstored
    <3>7. QED
      BY <3>2, <3>3, <3>4, <3>6 DEF GrantOK
  <2>7. PairsOK'
    BY <1>a, <2>1, <2>3, CalmPairs DEF CInv, Calm, Minting, Bearing
  <2>8. QED
    BY <2>5, <2>6, <2>7 DEF CInv
<1>7. ASSUME NEW p \in Slots, RedeemCode(p) PROVE CInv'
  <2>0. PICK c \in authCodes :
           /\ c.grantID \in codesSent
           /\ authCodes' = authCodes \ {c}
           /\ \/ UNCHANGED <<pc, loc, nextPair>>
              \/ /\ pc' = [pc EXCEPT ![p] = "getGrant"]
                 /\ nextPair' = nextPair + 1
                 /\ loc'[p].grantID = c.grantID /\ loc'[p].pair = nextPair
                 /\ loc'[p].via = "code"
                 /\ \A q \in Slots \ {p} : loc'[q] = loc[q]
    <3>1. PICK c \in authCodes, client \in Clients,
               uri \in RedirectURIs \cup {None},
               verifier \in Challenges \cup {None}, ok \in BOOLEAN :
             /\ c.grantID \in codesSent
             /\ ConsumeAuthCode(c, ok)
             /\ IF /\ ok
                   /\ c.clientID = client
                   /\ c.redirectURI = uri
                   /\ c.codeChallenge = verifier
                THEN /\ Goto(p, "getGrant",
                             [NoLocals EXCEPT !.clientID = client, !.via = "code",
                                              !.grantID = c.grantID,
                                              !.pair = nextPair])
                     /\ nextPair' = nextPair + 1
                ELSE UNCHANGED <<pc, loc, nextPair>>
      BY ONLY <1>7 DEF RedeemCode
    <3>2. QED
      BY <1>a, <3>1 DEF ConsumeAuthCode, Goto, NoLocals
  <2>h. PICK h \in GrantIDs : h = c.grantID
    BY <1>a, <2>0 DEF AuthCode
  <2>1. /\ UNCHANGED <<grants, tokens, codesSent, pairsSent, nextGrant>>
        /\ authCodes' \subseteq authCodes
        /\ pc[p] = "idle"
    BY <1>7, <2>0 DEF RedeemCode, At
  <2>2. CASE UNCHANGED <<pc, loc, nextPair>>
    <3>1. \A q \in Slots : Calm(q)
      BY <2>2 DEF Calm, Minting, Bearing
    <3>2. QED
      BY <1>a, <2>1, <2>2, <3>1, CalmCInv
  <2>3. CASE /\ pc' = [pc EXCEPT ![p] = "getGrant"]
             /\ nextPair' = nextPair + 1
             /\ loc'[p].grantID = h /\ loc'[p].pair = nextPair
             /\ loc'[p].via = "code"
             /\ \A q \in Slots \ {p} : loc'[q] = loc[q]
    <3>1. ASSUME NEW g \in GrantIDs
          PROVE  /\ Codes(g)' \subseteq Codes(g)
                 /\ Requests(g, {"putGrant"})' \subseteq Requests(g, {"putGrant"})
                 /\ Requests(g, Bearing)' \subseteq Requests(g, Bearing)
      BY <1>a, <2>1, <2>3 DEF Codes, Requests, Minting, Bearing
    <3>2. ASSUME NEW g \in GrantIDs, g # h PROVE GrantOK(g)'
      <4>1. CodeMinters(g)' \subseteq CodeMinters(g)
        BY <1>a, <2>1, <2>3, <3>2 DEF CodeMinters, Requests, Minting
      <4>2. QED
        BY <1>a, <2>1, <3>1, <4>1, CalmGrant DEF CInv
    <3>3. GrantOK(h)'
      <4>1. GrantOK(h) /\ Codes(h) # {} /\ h \in codesSent
        BY <2>0, <2>h DEF CInv, Codes
      <4>2. Untouched(h)'
        BY <2>1, <3>1, <4>1 DEF GrantOK, Untouched, Unredeemed
      <4>3. Stored(h)'
        BY <2>1, <4>1 DEF GrantOK, Stored
      <4>4. Unborn(h)'
        BY <2>1, <3>1, <4>1 DEF GrantOK, Unborn
      <4>5. Unstored(h)'
        BY <2>1, <3>1, <4>1 DEF GrantOK, Unstored
      <4>6. QED
        BY <4>2, <4>3, <4>4, <4>5 DEF GrantOK
    <3>4. PairsOK'
      BY <1>a, <2>1, <2>3, MintPairs DEF CInv
    <3>5. QED
      BY <3>2, <3>3, <3>4 DEF CInv
  <2>4. QED
    BY <2>0, <2>2, <2>3, <2>h
<1>8. ASSUME NEW p \in Slots, RotateRefreshToken(p) PROVE CInv'
  <2>0. PICK t \in tokens :
           /\ tokens' = tokens \ {t}
           /\ \/ UNCHANGED <<pc, loc, nextPair>>
              \/ /\ pc' = [pc EXCEPT ![p] = "getGrant"]
                 /\ nextPair' = nextPair + 1
                 /\ loc'[p].grantID = t.grantID /\ loc'[p].pair = nextPair
                 /\ loc'[p].via = "refresh"
                 /\ \A q \in Slots \ {p} : loc'[q] = loc[q]
    <3>1. PICK t \in tokens, client \in Clients, ok \in BOOLEAN :
             /\ t.pair \in pairsSent
             /\ ConsumeMCPRefreshToken(t, client, ok)
             /\ IF ok
                THEN /\ Goto(p, "getGrant",
                             [NoLocals EXCEPT !.clientID = client,
                                              !.via = "refresh",
                                              !.grantID = t.grantID,
                                              !.pair = nextPair])
                     /\ nextPair' = nextPair + 1
                ELSE UNCHANGED <<pc, loc, nextPair>>
      BY ONLY <1>8 DEF RotateRefreshToken
    <3>2. QED
      BY <1>a, <3>1 DEF ConsumeMCPRefreshToken, Goto, NoLocals
  <2>h. PICK h \in GrantIDs : h = t.grantID
    BY <1>a, <2>0 DEF MCPToken
  <2>1. /\ UNCHANGED <<grants, authCodes, codesSent, pairsSent, nextGrant>>
        /\ tokens' \subseteq tokens
        /\ pc[p] = "idle"
    BY <1>8, <2>0 DEF RotateRefreshToken, At
  <2>2. CASE UNCHANGED <<pc, loc, nextPair>>
    <3>1. \A q \in Slots : Calm(q)
      BY <2>2 DEF Calm, Minting, Bearing
    <3>2. QED
      BY <1>a, <2>1, <2>2, <3>1, CalmCInv
  <2>3. CASE /\ pc' = [pc EXCEPT ![p] = "getGrant"]
             /\ nextPair' = nextPair + 1
             /\ loc'[p].grantID = h /\ loc'[p].pair = nextPair
             /\ loc'[p].via = "refresh"
             /\ \A q \in Slots \ {p} : loc'[q] = loc[q]
    <3>1. ASSUME NEW g \in GrantIDs
          PROVE  /\ Codes(g)' \subseteq Codes(g)
                 /\ Requests(g, {"putGrant"})' \subseteq Requests(g, {"putGrant"})
                 /\ Requests(g, Bearing)' \subseteq Requests(g, Bearing)
      BY <1>a, <2>1, <2>3 DEF Codes, Requests, Minting, Bearing
    <3>2. ASSUME NEW g \in GrantIDs PROVE GrantOK(g)'
      <4>1. CodeMinters(g)' \subseteq CodeMinters(g)
        BY <1>a, <2>1, <2>3 DEF CodeMinters, Requests, Minting
      <4>2. QED
        BY <1>a, <2>1, <3>1, <4>1, CalmGrant DEF CInv
    <3>3. PairsOK'
      BY <1>a, <2>1, <2>3, MintPairs DEF CInv
    <3>4. QED
      BY <3>2, <3>3 DEF CInv
  <2>4. QED
    BY <2>0, <2>2, <2>3, <2>h
<1>9. ASSUME NEW p \in Slots, TokenGetGrant(p) PROVE CInv'
  BY <1>a, <1>9, CalmCInv DEF TokenGetGrant, Calm, Goto, At, Minting, Bearing, Finish, storeVars
<1>10. ASSUME NEW p \in Slots, TokenPutAccess(p) PROVE CInv'
  <2>0. PICK h \in GrantIDs, n \in Pairs : h = loc[p].grantID /\ n = loc[p].pair
    BY <1>10 DEF TokenPutAccess, At, TInv, LocalsOK, LocalOK, Minting
  <2>1. /\ pc[p] = "putAccess"
        /\ \A t \in tokens' : t \in tokens \/ (t.grantID = h /\ t.pair = n)
        /\ UNCHANGED <<grants, authCodes, nextGrant, nextPair, codesSent,
                       pairsSent>>
        /\ pc' = [pc EXCEPT ![p] = "putRefresh"]
        /\ loc' = [loc EXCEPT ![p] = [@ EXCEPT !.expiresAt = now + RefreshTTL]]
    BY <1>10, <2>0 DEF TokenPutAccess, PutMCPToken, Goto, At
  <2>2. \A q \in Slots : Calm(q)
    BY <1>a, <2>1 DEF Calm, Minting, Bearing, Locals
  <2>3. pc[p] \in Minting /\ pc'[p] \in Minting
    BY <1>a, <2>1 DEF Minting
  <2>4. QED
    BY <1>a, <2>0, <2>1, <2>2, <2>3, MoreTokens
<1>11. ASSUME NEW p \in Slots, TokenPutRefresh(p) PROVE CInv'
  <2>0. PICK h \in GrantIDs, n \in Pairs : h = loc[p].grantID /\ n = loc[p].pair
    BY <1>11 DEF TokenPutRefresh, At, TInv, LocalsOK, LocalOK, Minting
  <2>1. /\ pc[p] = "putRefresh"
        /\ \A t \in tokens' : t \in tokens \/ (t.grantID = h /\ t.pair = n)
        /\ UNCHANGED <<grants, authCodes, nextGrant, nextPair, codesSent>>
        /\ pairsSent' = pairsSent \cup {n}
        /\ pc' = [pc EXCEPT ![p] = "idle"]
        /\ loc' = [loc EXCEPT ![p] = NoLocals]
    BY <1>11, <2>0 DEF TokenPutRefresh, PutMCPToken, Finish, Goto, At
  <2>2. \A q \in Slots : Calm(q)
    BY <1>a, <2>1 DEF Calm, Minting, Bearing
  <2>3. p \in Requests(h, Minting)
    BY <2>0, <2>1 DEF Requests, Minting
  <2>4. /\ n < nextPair
        /\ \A t \in tokens : t.pair = n => t.grantID = h
        /\ \A q \in Slots : pc[q] \in Minting /\ loc[q].pair = n => p = q
    BY <2>0, <2>3 DEF CInv, PairsOK, Requests
  <2>5. /\ h < nextGrant
        /\ Codes(h) = {} /\ Requests(h, Minting) \subseteq {p}
    BY <1>a, <2>3 DEF SInv, Single, Undrawn, GrantIDs
  <2>6. ASSUME NEW g \in GrantIDs
        PROVE  /\ Codes(g)' \subseteq Codes(g)
               /\ CodeMinters(g)' \subseteq CodeMinters(g)
               /\ Requests(g, {"putGrant"})' \subseteq Requests(g, {"putGrant"})
               /\ Requests(g, Bearing)' \subseteq Requests(g, Bearing)
    BY <2>1, <2>2 DEF Calm, Codes, CodeMinters, Requests, Minting, Bearing
  <2>7. ASSUME NEW g \in GrantIDs, g # h PROVE GrantOK(g)'
    <3>1. \A t \in tokens' : t.grantID = g =>
              t \in tokens /\ (t.pair \in pairsSent' => t.pair \in pairsSent)
      BY <2>1, <2>4, <2>7
    <3>2. QED
      BY <1>a, <2>1, <2>6, <3>1, CalmGrant DEF CInv
  <2>8. GrantOK(h)'
    <3>1. GrantOK(h)
      BY DEF CInv
    <3>2. CodeMinters(h)' = {}
      <4>1. CodeMinters(h)' \subseteq {p}
        BY <2>5, <2>6 DEF CodeMinters
      <4>2. p \notin CodeMinters(h)'
        BY <1>a, <2>1 DEF CodeMinters, Requests, Minting
      <4>3. QED
        BY <4>1, <4>2
    <3>3. Codes(h)' = {}
      BY <2>5, <2>6
    <3>4. Untouched(h)' /\ Stored(h)'
      BY <3>2, <3>3 DEF Untouched, Unredeemed, Stored
    <3>5. Unborn(h)'
      BY <1>a, <2>1, <2>5 DEF Unborn, GrantIDs
    <3>6. Unstored(h)'
      BY <2>1, <2>6, <3>1 DEF GrantOK, Unstored
    <3>7. QED
      BY <3>4, <3>5, <3>6 DEF GrantOK
  <2>9. PairsOK'
    <3>1. PairsOK
      BY DEF CInv
    <3>2. ASSUME NEW q \in Slots, pc'[q] \in Minting
          PROVE  /\ pc[q] \in Minting /\ q # p
                 /\ loc'[q] = loc[q]
                 /\ loc[q].pair # n
      BY <1>a, <2>1, <2>4, <3>2 DEF Minting
    <3>3. /\ \A t \in tokens' : t.pair < nextPair'
          /\ \A m \in pairsSent' : m < nextPair'
      BY <2>1, <2>4, <3>1 DEF PairsOK
    <3>4. ASSUME NEW q \in Slots, pc'[q] \in Minting
          PROVE  /\ loc'[q].pair < nextPair'
                 /\ loc'[q].pair \notin pairsSent'
                 /\ \A r \in Slots :
                       pc'[r] \in Minting /\ loc'[r].pair = loc'[q].pair => q = r
                 /\ \A t \in tokens' :
                       t.pair = loc'[q].pair => t.grantID = loc'[q].grantID
      BY <2>1, <3>1, <3>2, <3>4 DEF PairsOK
    <3>5. QED
      BY <3>3, <3>4 DEF PairsOK
  <2>10. QED
    BY <2>7, <2>8, <2>9 DEF CInv
<1>12. ASSUME NEW p \in Slots, BearerToken(p) PROVE CInv'
  <2>0. PICK t \in tokens :
           /\ t.pair \in pairsSent
           /\ tokens' \subseteq tokens
           /\ \/ UNCHANGED <<pc, loc>>
              \/ /\ pc' = [pc EXCEPT ![p] = "bearerGrant"]
                 /\ loc'[p].grantID = t.grantID
                 /\ \A q \in Slots \ {p} : loc'[q] = loc[q]
    <3>1. PICK t \in tokens, ok \in BOOLEAN :
             /\ t.pair \in pairsSent
             /\ GetMCPToken(t, ok)
             /\ IF ok /\ t.type = "access"
                THEN Goto(p, "bearerGrant",
                          [NoLocals EXCEPT !.grantID = t.grantID,
                                           !.expiresAt = t.expiresAt])
                ELSE UNCHANGED <<pc, loc>>
      BY ONLY <1>12 DEF BearerToken
    <3>2. QED
      BY <1>a, <3>1 DEF GetMCPToken, Goto, NoLocals
  <2>h. PICK h \in GrantIDs : h = t.grantID
    BY <1>a, <2>0 DEF MCPToken
  <2>1. /\ UNCHANGED <<grants, authCodes, codesSent, pairsSent, nextGrant,
                       nextPair>>
        /\ tokens' \subseteq tokens
    BY <1>12, <2>0 DEF BearerToken
  <2>2. CASE UNCHANGED <<pc, loc>>
    <3>1. \A q \in Slots : Calm(q)
      BY <2>2 DEF Calm, Minting, Bearing
    <3>2. QED
      BY <1>a, <2>1, <3>1, CalmCInv
  <2>3. CASE /\ pc' = [pc EXCEPT ![p] = "bearerGrant"]
             /\ loc'[p].grantID = h
             /\ \A q \in Slots \ {p} : loc'[q] = loc[q]
    <3>1. ASSUME NEW g \in GrantIDs
          PROVE  /\ Codes(g)' \subseteq Codes(g)
                 /\ CodeMinters(g)' \subseteq CodeMinters(g)
                 /\ Requests(g, {"putGrant"})' \subseteq Requests(g, {"putGrant"})
      BY <1>a, <2>1, <2>3 DEF Codes, CodeMinters, Requests, Minting
    <3>2. ASSUME NEW g \in GrantIDs, g # h PROVE GrantOK(g)'
      <4>1. Requests(g, Bearing)' \subseteq Requests(g, Bearing)
        BY <1>a, <2>3, <3>2 DEF Requests, Bearing
      <4>2. QED
        BY <1>a, <2>1, <3>1, <4>1, CalmGrant DEF CInv
    <3>3. GrantOK(h)'
      <4>1. GrantOK(h) /\ ~Unredeemed(h) /\ h < nextGrant
        BY <1>a, <2>0, <2>h DEF CInv, GrantOK, Untouched, Unborn, GrantIDs
      <4>2. ~Unredeemed(h)'
        BY <3>1, <4>1 DEF Unredeemed
      <4>3. ~(h >= nextGrant)'
        BY <1>a, <2>1, <4>1 DEF GrantIDs
      <4>4. Unstored(h)'
        BY <2>1, <3>1, <4>1 DEF GrantOK, Unstored
      <4>5. QED
        BY <4>2, <4>3, <4>4
           DEF GrantOK, Untouched, Unredeemed, Stored, Unborn
    <3>4. PairsOK'
      BY <1>a, <2>1, <2>3, CalmPairs DEF CInv, Minting
    <3>5. QED
      BY <3>2, <3>3, <3>4 DEF CInv
  <2>4. QED
    BY <2>0, <2>2, <2>3, <2>h
<1>13. ASSUME NEW p \in Slots, BearerGrant(p) PROVE CInv'
  BY <1>a, <1>13, CalmCInv DEF BearerGrant, Calm, Goto, At, Minting, Bearing, Finish, storeVars
<1>14. ASSUME NEW p \in Slots, LockGrant(p) PROVE CInv'
  BY <1>a, <1>14, CalmCInv DEF LockGrant, Calm, Goto, At, Minting, Bearing, Serve, Finish, storeVars
<1>15. ASSUME NEW p \in Slots, RefreshSucceeds(p) PROVE CInv'
  BY <1>a, <1>15, CalmCInv DEF RefreshSucceeds, Calm, Goto, At, Minting, Bearing, Serve, Finish, storeVars
<1>16. ASSUME NEW p \in Slots, RefreshFails(p) PROVE CInv'
  BY <1>a, <1>16, CalmCInv DEF RefreshFails, Calm, Goto, At, Minting, Bearing, storeVars
<1>17. ASSUME NEW p \in Slots, RefreshDeleteGrant(p) PROVE CInv'
  <2>0. PICK h \in GrantIDs : h = loc[p].grantID
    BY <1>17 DEF RefreshDeleteGrant, At, TInv, LocalsOK, LocalOK, Minting
  <2>1. /\ pc[p] = "deleteGrant"
        /\ grants' = grants \ {h}
        /\ tokens' \subseteq tokens
        /\ UNCHANGED <<authCodes, nextGrant, nextPair, codesSent, pairsSent>>
        /\ pc' = [pc EXCEPT ![p] = "idle"]
        /\ loc' = [loc EXCEPT ![p] = NoLocals]
    BY <1>17, <2>0 DEF RefreshDeleteGrant, DeleteGrant, Finish, Goto, At
  <2>2. \A q \in Slots : Calm(q)
    BY <1>a, <2>1 DEF Calm, Minting, Bearing
  <2>3. ASSUME NEW g \in GrantIDs
        PROVE  /\ Codes(g)' \subseteq Codes(g)
               /\ CodeMinters(g)' \subseteq CodeMinters(g)
               /\ Requests(g, {"putGrant"})' \subseteq Requests(g, {"putGrant"})
               /\ Requests(g, Bearing)' \subseteq Requests(g, Bearing)
    BY <2>1, <2>2 DEF Calm, Codes, CodeMinters, Requests, Minting, Bearing
  <2>4. ASSUME NEW g \in GrantIDs, g # h PROVE GrantOK(g)'
    BY <1>a, <2>1, <2>3, <2>4, CalmGrant DEF CInv
  <2>5. GrantOK(h)'
    <3>1. GrantOK(h) /\ Requests(h, Bearing) # {}
      BY <2>0, <2>1 DEF CInv, Requests, Bearing
    <3>2. Codes(h) = {} /\ CodeMinters(h) = {}
      BY <3>1 DEF GrantOK, Untouched, Unredeemed
    <3>3. Codes(h)' = {} /\ CodeMinters(h)' = {}
      BY <2>3, <3>2
    <3>4. Untouched(h)' /\ Stored(h)'
      BY <3>3 DEF Untouched, Unredeemed, Stored
    <3>5. Unborn(h)' /\ Unstored(h)'
      BY <2>1, <2>3, <3>1 DEF GrantOK, Unborn, Unstored
    <3>6. QED
      BY <3>4, <3>5 DEF GrantOK
  <2>6. PairsOK'
    BY <1>a, <2>1, <2>2, CalmPairs DEF CInv, Calm, Minting, Bearing
  <2>7. QED
    BY <2>4, <2>5, <2>6 DEF CInv
<1>18. ASSUME NEW p \in Slots, ServeEnds(p) PROVE CInv'
  BY <1>a, <1>18, CalmCInv DEF ServeEnds, Calm, Goto, At, Minting, Bearing, Finish, storeVars
<1>19. CASE Tick
  BY <1>a, <1>19, CalmCInv DEF Tick, Calm, storeVars, Minting, Bearing, Points
<1>20. CASE Restart
  <2>1. \A q \in Slots : pc'[q] = "idle"
    BY <1>20 DEF Restart
  <2>2. /\ UNCHANGED <<nextGrant, nextPair, codesSent, pairsSent>>
        /\ authCodes' = {} /\ tokens' = {}
    BY <1>20 DEF Restart
  <2>3. ASSUME NEW g \in GrantIDs PROVE GrantOK(g)'
    <3>1. /\ Codes(g)' = {} /\ CodeMinters(g)' = {}
          /\ Requests(g, {"putGrant"})' = {} /\ Requests(g, Bearing)' = {}
      BY <2>1, <2>2 DEF Codes, CodeMinters, Requests,
         Minting, Bearing
    <3>2. GrantOK(g)
      BY DEF CInv
    <3>3. Untouched(g)' /\ Stored(g)'
      BY <3>1 DEF Untouched, Unredeemed, Stored
    <3>4. Unborn(g)' /\ Unstored(g)'
      BY <2>2, <3>1, <3>2 DEF GrantOK, Unborn, Unstored
    <3>5. QED
      BY <3>3, <3>4 DEF GrantOK
  <2>4. PairsOK'
    BY <2>1, <2>2 DEF CInv, PairsOK, Minting
  <2>5. QED
    BY <2>3, <2>4 DEF CInv
<1>21. CASE UNCHANGED vars
  BY <1>a, <1>21, CalmCInv DEF vars, storeVars, Calm, Minting, Bearing
<1>22. QED
  BY <1>1, <1>2, <1>3, <1>4, <1>5, <1>6, <1>7, <1>8, <1>9, <1>10, <1>11,
     <1>12, <1>13, <1>14, <1>15, <1>16, <1>17, <1>18, <1>19, <1>20, <1>21
     DEF Next, Callback, Token, Mcp

\* A client that redeems its code in time never learns that the grant is gone:
\* the code store and the grant map, updated under separate critical sections,
\* agree whenever a code is in a client's hands or being exchanged.
THEOREM CodeFindsGrant == Spec => []CodeHasGrant
<1>1. Init => TInv /\ SInv /\ CInv
  BY InitTInv, InitSInv, InitCInv
<1>2. Spec => [](TInv /\ SInv /\ CInv)
  BY <1>1, StepTInv, StepSInv, StepCInv, PTL DEF Spec
<1>3. QED
  BY <1>2, CodeHasGrantInv, PTL

-----------------------------------------------------------------------------
(* What keeps a login on its way: the redirect URI from /oauth/authorize to *)
(* the code, the two bounded tables, and the refresh token afterwards.      *)

(* Redirect URIs. *)

OnTheWay == {"exchange", "userInfo", "putGrant"}

URIsVetted ==
    /\ \A a \in pendingAuths : a.redirectURI \in Registered[a.clientID]
    /\ CodeGoesToRegisteredURI

\* A step by which no URI travels further than the handler that holds it.
LEMMA CalmURIs ==
  ASSUME URIsVetted,
         \A a \in pendingAuths' :
             a \in pendingAuths \/ a.redirectURI \in Registered[a.clientID],
         authCodes' \subseteq authCodes,
         \A p \in Slots : pc'[p] \in OnTheWay =>
             /\ pc[p] \in OnTheWay
             /\ loc'[p].redirectURI = loc[p].redirectURI
             /\ loc'[p].clientID = loc[p].clientID
  PROVE  URIsVetted'
  BY DEF URIsVetted, CodeGoesToRegisteredURI, OnTheWay

LEMMA StepURIs == TInv /\ URIsVetted /\ [Next]_vars => URIsVetted'
<1> SUFFICES ASSUME TInv, URIsVetted, [Next]_vars PROVE URIsVetted'
  OBVIOUS
<1>a. /\ pc \in [Slots -> Points] /\ loc \in [Slots -> Locals]
  BY DEF TInv, TypeOK
<1> USE DEF OnTheWay
<1>1. CASE Authorize
  BY <1>a, <1>1, CalmURIs DEF Authorize, PutPendingAuth, Unexpired, AcceptedURIs
<1>2. ASSUME NEW p \in Slots, CallbackState(p) PROVE URIsVetted'
  <2>1. PICK a \in pendingAuths, ok \in BOOLEAN, denied \in BOOLEAN :
           /\ ConsumePendingAuth(a, ok)
           /\ IF ok /\ ~denied
              THEN Goto(p, "exchange",
                        [NoLocals EXCEPT !.clientID = a.clientID,
                                         !.redirectURI = a.redirectURI,
                                         !.codeChallenge = a.codeChallenge])
              ELSE UNCHANGED <<pc, loc>>
    BY <1>2, Zenon DEF CallbackState
  <2>2. pendingAuths' \subseteq pendingAuths /\ UNCHANGED authCodes
    BY <1>2, <2>1 DEF CallbackState, ConsumePendingAuth
  <2>3. \A q \in Slots :
           \/ pc'[q] = pc[q] /\ loc'[q] = loc[q]
           \/ loc'[q].clientID = a.clientID /\ loc'[q].redirectURI = a.redirectURI
    BY <1>a, <2>1 DEF Goto, NoLocals
  <2>4. QED
    BY <2>2, <2>3 DEF URIsVetted, CodeGoesToRegisteredURI
<1>3. ASSUME NEW p \in Slots, CallbackExchange(p) PROVE URIsVetted'
  BY <1>a, <1>3, CalmURIs DEF CallbackExchange, Goto, At, Finish, storeVars
<1>4. ASSUME NEW p \in Slots, CallbackRejectUser(p) PROVE URIsVetted'
  BY <1>a, <1>4, CalmURIs DEF CallbackRejectUser, Goto, At, Finish, storeVars
<1>5. ASSUME NEW p \in Slots, CallbackAcceptUser(p) PROVE URIsVetted'
  <2>1. /\ pc[p] = "userInfo" /\ UNCHANGED pendingAuths
        /\ \A c \in authCodes' :
              \/ c \in authCodes
              \/ /\ c.clientID = loc[p].clientID
                 /\ c.redirectURI = loc[p].redirectURI
    BY <1>5 DEF CallbackAcceptUser, PutAuthCode, Unexpired, At
  <2>2. \A q \in Slots : pc'[q] \in OnTheWay =>
             /\ pc[q] \in OnTheWay
             /\ loc'[q].redirectURI = loc[q].redirectURI
             /\ loc'[q].clientID = loc[q].clientID
    BY <1>a, <1>5, <2>1 DEF CallbackAcceptUser, Goto, Finish, Locals
  <2>3. QED
    BY <2>1, <2>2 DEF URIsVetted, CodeGoesToRegisteredURI
<1>6. ASSUME NEW p \in Slots, CallbackPutGrant(p) PROVE URIsVetted'
  BY <1>a, <1>6, CalmURIs DEF CallbackPutGrant, Goto, At, Finish
<1>7. ASSUME NEW p \in Slots, RedeemCode(p) PROVE URIsVetted'
  BY <1>a, <1>7, CalmURIs DEF RedeemCode, ConsumeAuthCode, Goto, At
<1>8. ASSUME NEW p \in Slots, RotateRefreshToken(p) PROVE URIsVetted'
  BY <1>a, <1>8, CalmURIs DEF RotateRefreshToken, Goto, At
<1>9. ASSUME NEW p \in Slots, TokenGetGrant(p) PROVE URIsVetted'
  BY <1>a, <1>9, CalmURIs DEF TokenGetGrant, Goto, At, Finish, storeVars
<1>10. ASSUME NEW p \in Slots, TokenPutAccess(p) PROVE URIsVetted'
  BY <1>a, <1>10, CalmURIs DEF TokenPutAccess, Goto, At
<1>11. ASSUME NEW p \in Slots, TokenPutRefresh(p) PROVE URIsVetted'
  BY <1>a, <1>11, CalmURIs DEF TokenPutRefresh, Goto, At, Finish
<1>12. ASSUME NEW p \in Slots, BearerToken(p) PROVE URIsVetted'
  BY <1>a, <1>12, CalmURIs DEF BearerToken, Goto, At
<1>13. ASSUME NEW p \in Slots, BearerGrant(p) PROVE URIsVetted'
  BY <1>a, <1>13, CalmURIs DEF BearerGrant, Goto, At, Finish, storeVars
<1>14. ASSUME NEW p \in Slots, LockGrant(p) PROVE URIsVetted'
  BY <1>a, <1>14, CalmURIs DEF LockGrant, Serve, Goto, At, Finish, storeVars
<1>15. ASSUME NEW p \in Slots, RefreshSucceeds(p) PROVE URIsVetted'
  BY <1>a, <1>15, CalmURIs DEF RefreshSucceeds, Serve, Goto, At, Finish, storeVars
<1>16. ASSUME NEW p \in Slots, RefreshFails(p) PROVE URIsVetted'
  BY <1>a, <1>16, CalmURIs DEF RefreshFails, Goto, At, storeVars
<1>17. ASSUME NEW p \in Slots, RefreshDeleteGrant(p) PROVE URIsVetted'
  BY <1>a, <1>17, CalmURIs DEF RefreshDeleteGrant, Goto, At, Finish
<1>18. ASSUME NEW p \in Slots, ServeEnds(p) PROVE URIsVetted'
  BY <1>a, <1>18, CalmURIs DEF ServeEnds, Goto, At, Finish, storeVars
<1>19. CASE Tick
  BY <1>a, <1>19, CalmURIs DEF Tick, storeVars
<1>20. CASE Restart
  BY <1>a, <1>20, CalmURIs DEF Restart
<1>21. CASE UNCHANGED vars
  BY <1>a, <1>21, CalmURIs DEF vars, storeVars
<1>22. QED
  BY <1>1, <1>2, <1>3, <1>4, <1>5, <1>6, <1>7, <1>8, <1>9, <1>10, <1>11,
     <1>12, <1>13, <1>14, <1>15, <1>16, <1>17, <1>18, <1>19, <1>20, <1>21
     DEF Next, Callback, Token, Mcp

\* Two answers of Gitea and other logins lie between the check of the redirect URI
\* and the redirect with the code: the code still goes to a URI that is
\* registered for its client (HandleAuthorize, HandleCallback).
THEOREM CodeStaysOnCourse == Spec => []CodeGoesToRegisteredURI
<1>1. Init => URIsVetted
  BY DEF Init, StoreEmpty, URIsVetted, CodeGoesToRegisteredURI
<1>2. URIsVetted => CodeGoesToRegisteredURI
  BY DEF URIsVetted
<1>3. QED
  BY <1>1, <1>2, StepURIs, InitTInv, StepTInv, PTL DEF Spec

-----------------------------------------------------------------------------
(* The bounded tables. *)

TablesFinite ==
    IsFiniteSet(pendingAuths) /\ IsFiniteSet(authCodes) /\ TablesBounded

LEMMA SmallerTable ==
  ASSUME NEW S, NEW T, IsFiniteSet(S), T \subseteq S, NEW max \in Nat,
         Cardinality(S) <= max
  PROVE  IsFiniteSet(T) /\ Cardinality(T) <= max
<1>1. IsFiniteSet(T) /\ Cardinality(T) <= Cardinality(S)
  BY FS_Subset
<1>2. Cardinality(T) \in Nat /\ Cardinality(S) \in Nat
  BY <1>1, FS_CardinalityType
<1>3. QED
  BY <1>1, <1>2

\* The sweep makes room, and the entry is stored only where there is some.
LEMMA SweptTable ==
  ASSUME NEW S, NEW e, NEW max \in Nat, NEW ok \in BOOLEAN,
         IsFiniteSet(S), Cardinality(S) <= max, ok = Room(Unexpired(S), max)
  PROVE  LET T == Unexpired(S) \cup (IF ok THEN {e} ELSE {})
         IN  IsFiniteSet(T) /\ Cardinality(T) <= max
<1>1. Unexpired(S) \subseteq S
  BY DEF Unexpired
<1>2. IsFiniteSet(Unexpired(S)) /\ Cardinality(Unexpired(S)) <= max
  BY <1>1, SmallerTable
<1>3. CASE ok
  <2>1. Cardinality(Unexpired(S)) < max
    BY <1>3 DEF Room
  <2>2. /\ IsFiniteSet(Unexpired(S) \cup {e})
        /\ \/ Cardinality(Unexpired(S) \cup {e}) = Cardinality(Unexpired(S))
           \/ Cardinality(Unexpired(S) \cup {e}) = Cardinality(Unexpired(S)) + 1
    BY <1>2, FS_AddElement
  <2>3. Cardinality(Unexpired(S)) \in Nat
    BY <1>2, FS_CardinalityType
  <2>4. QED
    BY <1>2, <1>3, <2>1, <2>2, <2>3
<1>4. CASE ~ok
  <2>1. Unexpired(S) \cup (IF ok THEN {e} ELSE {}) = Unexpired(S)
    BY <1>4
  <2>2. QED
    BY <1>2, <2>1
<1>5. QED
  BY <1>3, <1>4

LEMMA CalmTables ==
  ASSUME TablesFinite, pendingAuths' \subseteq pendingAuths,
         authCodes' \subseteq authCodes
  PROVE  TablesFinite'
<1>1. IsFiniteSet(pendingAuths)' /\ Cardinality(pendingAuths)' <= MaxPendingAuths
  BY SmallerTable, CapacityAssumption DEF TablesFinite, TablesBounded
<1>2. IsFiniteSet(authCodes)' /\ Cardinality(authCodes)' <= MaxAuthCodes
  BY SmallerTable, CapacityAssumption DEF TablesFinite, TablesBounded
<1>3. QED
  BY <1>1, <1>2 DEF TablesFinite, TablesBounded

LEMMA StepTables == TablesFinite /\ [Next]_vars => TablesFinite'
<1> SUFFICES ASSUME TablesFinite, [Next]_vars PROVE TablesFinite'
  OBVIOUS
<1>a. /\ IsFiniteSet(pendingAuths) /\ Cardinality(pendingAuths) <= MaxPendingAuths
      /\ IsFiniteSet(authCodes) /\ Cardinality(authCodes) <= MaxAuthCodes
      /\ MaxPendingAuths \in Nat /\ MaxAuthCodes \in Nat
  BY CapacityAssumption DEF TablesFinite, TablesBounded
<1>1. CASE Authorize
  <2>1. PICK e : \E ok \in BOOLEAN : PutPendingAuth(e, ok)
    BY <1>1, Zenon DEF Authorize
  <2>2. IsFiniteSet(pendingAuths)' /\ Cardinality(pendingAuths)' <= MaxPendingAuths
    BY <1>a, <2>1, SweptTable DEF PutPendingAuth
  <2>3. QED
    BY <1>1, <1>a, <2>2 DEF Authorize, TablesFinite, TablesBounded
<1>2. ASSUME NEW p \in Slots, CallbackState(p) PROVE TablesFinite'
  BY <1>a, <1>2, CalmTables DEF CallbackState, ConsumePendingAuth
<1>3. ASSUME NEW p \in Slots, CallbackExchange(p) PROVE TablesFinite'
  BY <1>a, <1>3, CalmTables DEF CallbackExchange, storeVars
<1>4. ASSUME NEW p \in Slots, CallbackRejectUser(p) PROVE TablesFinite'
  BY <1>a, <1>4, CalmTables DEF CallbackRejectUser, storeVars
<1>5. ASSUME NEW p \in Slots, CallbackAcceptUser(p) PROVE TablesFinite'
  <2>1. PICK e : \E ok \in BOOLEAN : PutAuthCode(e, ok)
    BY <1>5, Zenon DEF CallbackAcceptUser
  <2>2. IsFiniteSet(authCodes)' /\ Cardinality(authCodes)' <= MaxAuthCodes
    BY <1>a, <2>1, SweptTable DEF PutAuthCode
  <2>3. QED
    BY <1>5, <1>a, <2>2 DEF CallbackAcceptUser, TablesFinite, TablesBounded
<1>6. ASSUME NEW p \in Slots, CallbackPutGrant(p) PROVE TablesFinite'
  BY <1>a, <1>6, CalmTables DEF CallbackPutGrant
<1>7. ASSUME NEW p \in Slots, RedeemCode(p) PROVE TablesFinite'
  BY <1>a, <1>7, CalmTables DEF RedeemCode, ConsumeAuthCode
<1>8. ASSUME NEW p \in Slots, RotateRefreshToken(p) PROVE TablesFinite'
  BY <1>a, <1>8, CalmTables DEF RotateRefreshToken
<1>9. ASSUME NEW p \in Slots, TokenGetGrant(p) PROVE TablesFinite'
  BY <1>a, <1>9, CalmTables DEF TokenGetGrant, storeVars
<1>10. ASSUME NEW p \in Slots, TokenPutAccess(p) PROVE TablesFinite'
  BY <1>a, <1>10, CalmTables DEF TokenPutAccess
<1>11. ASSUME NEW p \in Slots, TokenPutRefresh(p) PROVE TablesFinite'
  BY <1>a, <1>11, CalmTables DEF TokenPutRefresh
<1>12. ASSUME NEW p \in Slots, BearerToken(p) PROVE TablesFinite'
  BY <1>a, <1>12, CalmTables DEF BearerToken
<1>13. ASSUME NEW p \in Slots, BearerGrant(p) PROVE TablesFinite'
  BY <1>a, <1>13, CalmTables DEF BearerGrant, storeVars
<1>14. ASSUME NEW p \in Slots, LockGrant(p) PROVE TablesFinite'
  BY <1>a, <1>14, CalmTables DEF LockGrant, storeVars
<1>15. ASSUME NEW p \in Slots, RefreshSucceeds(p) PROVE TablesFinite'
  BY <1>a, <1>15, CalmTables DEF RefreshSucceeds, storeVars
<1>16. ASSUME NEW p \in Slots, RefreshFails(p) PROVE TablesFinite'
  BY <1>a, <1>16, CalmTables DEF RefreshFails, storeVars
<1>17. ASSUME NEW p \in Slots, RefreshDeleteGrant(p) PROVE TablesFinite'
  BY <1>a, <1>17, CalmTables DEF RefreshDeleteGrant
<1>18. ASSUME NEW p \in Slots, ServeEnds(p) PROVE TablesFinite'
  BY <1>a, <1>18, CalmTables DEF ServeEnds, storeVars
<1>19. CASE Tick
  BY <1>a, <1>19, CalmTables DEF Tick, storeVars
<1>20. CASE Restart
  BY <1>a, <1>20, CalmTables DEF Restart
<1>21. CASE UNCHANGED vars
  BY <1>a, <1>21, CalmTables DEF vars, storeVars
<1>22. QED
  BY <1>1, <1>2, <1>3, <1>4, <1>5, <1>6, <1>7, <1>8, <1>9, <1>10, <1>11,
     <1>12, <1>13, <1>14, <1>15, <1>16, <1>17, <1>18, <1>19, <1>20, <1>21
     DEF Next, Callback, Token, Mcp

\* Whoever floods /oauth/authorize or completes logins without redeeming their
\* codes, neither table outgrows its capacity (PutPendingAuth, PutAuthCode).
THEOREM TablesStayBounded == Spec => []TablesBounded
<1>1. Init => TablesFinite
  BY FS_EmptySet, CapacityAssumption
     DEF Init, StoreEmpty, TablesFinite, TablesBounded
<1>2. TablesFinite => TablesBounded
  BY DEF TablesFinite
<1>3. QED
  BY <1>1, <1>2, StepTables, PTL DEF Spec

\* The two counters change in one action each.
LEMMA Newcomers ==
  ASSUME [Next]_vars
  PROVE  /\ nextState' # nextState => Authorize
         /\ nextGrant' # nextGrant => \E p \in Slots : CallbackAcceptUser(p)
<1> DEFINE Idle == nextState' = nextState /\ nextGrant' = nextGrant
<1>1. CASE Authorize
  BY <1>1 DEF Authorize
<1>2. ASSUME NEW p \in Slots, CallbackAcceptUser(p)
      PROVE  nextState' = nextState
  BY <1>2, Zenon DEF CallbackAcceptUser
<1>3. ASSUME NEW p \in Slots, Callback(p), ~CallbackAcceptUser(p)
      PROVE  Idle
  <2>1. CASE CallbackState(p)
    BY <2>1, Zenon DEF CallbackState
  <2>2. CASE CallbackExchange(p)
    BY <2>2, Zenon DEF CallbackExchange
  <2>3. CASE CallbackRejectUser(p)
    BY <2>3, Zenon DEF CallbackRejectUser
  <2>4. CASE CallbackPutGrant(p)
    BY <2>4, Zenon DEF CallbackPutGrant
  <2>5. QED
    BY <1>3, <2>1, <2>2, <2>3, <2>4, Zenon DEF Callback
<1>4. ASSUME NEW p \in Slots, Token(p)
      PROVE  Idle
  <2>1. CASE RedeemCode(p)
    BY <2>1, Zenon DEF RedeemCode
  <2>2. CASE RotateRefreshToken(p)
    BY <2>2, Zenon DEF RotateRefreshToken
  <2>3. CASE TokenGetGrant(p)
    BY <2>3, Zenon DEF TokenGetGrant
  <2>4. CASE TokenPutAccess(p)
    BY <2>4, Zenon DEF TokenPutAccess
  <2>5. CASE TokenPutRefresh(p)
    BY <2>5, Zenon DEF TokenPutRefresh
  <2>6. QED
    BY <1>4, <2>1, <2>2, <2>3, <2>4, <2>5, Zenon DEF Token
<1>5. ASSUME NEW p \in Slots, Mcp(p)
      PROVE  Idle
  <2>1. CASE BearerToken(p)
    BY <2>1, Zenon DEF BearerToken
  <2>2. CASE BearerGrant(p)
    BY <2>2, Zenon DEF BearerGrant
  <2>3. CASE LockGrant(p)
    BY <2>3, Zenon DEF LockGrant
  <2>4. CASE RefreshSucceeds(p)
    BY <2>4, Zenon DEF RefreshSucceeds
  <2>5. CASE RefreshFails(p)
    BY <2>5, Zenon DEF RefreshFails
  <2>6. CASE RefreshDeleteGrant(p)
    BY <2>6, Zenon DEF RefreshDeleteGrant
  <2>7. CASE ServeEnds(p)
    BY <2>7, Zenon DEF ServeEnds
  <2>8. QED
    BY <1>5, <2>1, <2>2, <2>3, <2>4, <2>5, <2>6, <2>7, Zenon DEF Mcp
<1>6. CASE Tick \/ Restart \/ UNCHANGED vars
  BY <1>6, Zenon DEF Tick, Restart, vars
<1>7. QED
  BY <1>1, <1>2, <1>3, <1>4, <1>5, <1>6, Zenon DEF Next

\* A table that keeps a newcomer out holds as many good entries as it may.
LEMMA RefusedTable ==
  ASSUME NEW S, IsFiniteSet(S), NEW max \in Nat, ~Room(Unexpired(S), max)
  PROVE  Cardinality({e \in S : ~Expired(e)}) >= max
<1>1. IsFiniteSet({e \in S : ~Expired(e)})
  BY FS_Subset, {e \in S : ~Expired(e)} \subseteq S
<1>2. Cardinality({e \in S : ~Expired(e)}) \in Nat
  BY <1>1, FS_CardinalityType
<1>3. QED
  BY <1>2 DEF Room, Unexpired

LEMMA StepNewcomersWait == TablesFinite /\ [Next]_vars => NewcomersWait
<1> SUFFICES ASSUME TablesFinite, [Next]_vars PROVE NewcomersWait
  OBVIOUS
<1>1. ASSUME Authorize
      PROVE  /\ \A a \in pendingAuths : a \in pendingAuths' \/ Expired(a)
             /\ \/ \E a \in pendingAuths' : a.state = nextState
                \/ Cardinality({a \in pendingAuths : ~Expired(a)}) >= MaxPendingAuths
  <2> DEFINE entry(c, u, ch) ==
        [state |-> nextState, clientID |-> c, redirectURI |-> u,
         codeChallenge |-> ch, expiresAt |-> now + PendingTTL]
  <2>1. \A c, u, ch : entry(c, u, ch).state = nextState
    OBVIOUS
  <2>2. \E c \in Clients, ch \in Challenges, ok \in BOOLEAN :
           \E u \in AcceptedURIs(c) : PutPendingAuth(entry(c, u, ch), ok)
    BY <1>1, Zenon DEF Authorize
  <2> HIDE DEF entry
  <2>3. PICK c, u, ch : \E ok \in BOOLEAN : PutPendingAuth(entry(c, u, ch), ok)
    BY <2>2, Zenon
  <2>4. entry(c, u, ch).state = nextState
    BY <2>1
  <2>5. PICK ok \in BOOLEAN : PutPendingAuth(entry(c, u, ch), ok)
    BY <2>3
  <2>6. \A a \in pendingAuths : a \in pendingAuths' \/ Expired(a)
    BY <2>5 DEF PutPendingAuth, Unexpired
  <2>7. CASE ok
    BY <2>4, <2>5, <2>6, <2>7 DEF PutPendingAuth
  <2>8. CASE ~ok
    <3>1. ~Room(Unexpired(pendingAuths), MaxPendingAuths)
      BY <2>5, <2>8 DEF PutPendingAuth
    <3>2. Cardinality({a \in pendingAuths : ~Expired(a)}) >= MaxPendingAuths
      BY <3>1, RefusedTable, CapacityAssumption DEF TablesFinite
    <3>3. QED
      BY <2>6, <3>2
  <2>9. QED
    BY <2>7, <2>8
<1>2. ASSUME NEW p \in Slots, CallbackAcceptUser(p)
      PROVE  \A c \in authCodes : c \in authCodes' \/ Expired(c)
  <2>1. PICK e : \E ok \in BOOLEAN : PutAuthCode(e, ok)
    BY <1>2, Zenon DEF CallbackAcceptUser
  <2>2. QED
    BY <2>1 DEF PutAuthCode, Unexpired
<1>3. QED
  BY <1>1, <1>2, Newcomers DEF NewcomersWait

\* A flood of logins displaces nobody and no expired entry counts against the
\* capacity, for tables of any size and any lifetimes.
THEOREM NewcomersDisplaceNobody == Spec => GoodEntriesKept
<1>1. Init => TablesFinite
  BY FS_EmptySet, CapacityAssumption
     DEF Init, StoreEmpty, TablesFinite, TablesBounded
<1>2. QED
  BY <1>1, StepTables, StepNewcomersWait, PTL DEF Spec, GoodEntriesKept

-----------------------------------------------------------------------------
(* Refresh tokens. *)

LEMMA StepRefreshKept == TInv /\ [Next]_vars => RefreshKept
<1> SUFFICES ASSUME TInv, [Next]_vars, NEW t \in tokens,
                    t.type = "refresh", t \notin tokens', ~Expired(t)
             PROVE  \/ ~HasGrant(t.grantID)'
                    \/ \E p \in Slots : /\ pc[p] = "idle" /\ pc'[p] = "getGrant"
                                        /\ loc'[p].clientID = t.clientID
                                        /\ loc'[p].grantID = t.grantID
  BY DEF RefreshKept
<1>a. /\ pc \in [Slots -> Points] /\ loc \in [Slots -> Locals]
  BY DEF TInv, TypeOK
<1>1. ASSUME NEW p \in Slots, RotateRefreshToken(p)
      PROVE  /\ pc[p] = "idle" /\ pc'[p] = "getGrant"
             /\ loc'[p].clientID = t.clientID /\ loc'[p].grantID = t.grantID
  <2>1. PICK u \in tokens, client \in Clients, ok \in BOOLEAN :
           /\ ConsumeMCPRefreshToken(u, client, ok)
           /\ IF ok
              THEN /\ Goto(p, "getGrant",
                           [NoLocals EXCEPT !.clientID = client, !.via = "refresh",
                                            !.grantID = u.grantID,
                                            !.pair = nextPair])
                   /\ nextPair' = nextPair + 1
              ELSE UNCHANGED <<pc, loc, nextPair>>
    BY <1>1, Zenon DEF RotateRefreshToken
  <2>2. u = t /\ ok /\ t.clientID = client
    BY <2>1 DEF ConsumeMCPRefreshToken
  <2>3. QED
    BY <1>a, <1>1, <2>1, <2>2 DEF RotateRefreshToken, At, Goto, NoLocals
<1>2. ASSUME NEW p \in Slots, RefreshDeleteGrant(p) PROVE ~HasGrant(t.grantID)'
  BY <1>2 DEF RefreshDeleteGrant, DeleteGrant, HasGrant
<1>3. ASSUME NEW p \in Slots, BearerToken(p) PROVE FALSE
  BY <1>3 DEF BearerToken, GetMCPToken
<1>4. ASSUME NEW p \in Slots, Callback(p) PROVE FALSE
  <2>1. CASE CallbackState(p)
    BY <2>1 DEF CallbackState
  <2>2. CASE CallbackExchange(p) \/ CallbackRejectUser(p)
    BY <2>2 DEF CallbackExchange, CallbackRejectUser, storeVars
  <2>3. CASE CallbackAcceptUser(p)
    BY <2>3 DEF CallbackAcceptUser
  <2>4. CASE CallbackPutGrant(p)
    BY <2>4 DEF CallbackPutGrant
  <2>5. QED
    BY <1>4, <2>1, <2>2, <2>3, <2>4 DEF Callback
<1>5. ASSUME NEW p \in Slots,
             \/ RedeemCode(p) \/ TokenGetGrant(p)
             \/ TokenPutAccess(p) \/ TokenPutRefresh(p)
      PROVE  FALSE
  <2>1. CASE RedeemCode(p)
    BY <2>1 DEF RedeemCode
  <2>2. CASE TokenGetGrant(p)
    BY <2>2 DEF TokenGetGrant, storeVars
  <2>3. CASE TokenPutAccess(p)
    BY <2>3 DEF TokenPutAccess, PutMCPToken
  <2>4. CASE TokenPutRefresh(p)
    BY <2>4 DEF TokenPutRefresh, PutMCPToken
  <2>5. QED
    BY <1>5, <2>1, <2>2, <2>3, <2>4
<1>6. ASSUME NEW p \in Slots,
             \/ BearerGrant(p) \/ LockGrant(p) \/ RefreshSucceeds(p)
             \/ RefreshFails(p) \/ ServeEnds(p)
      PROVE  FALSE
  BY <1>6 DEF BearerGrant, LockGrant, RefreshSucceeds, RefreshFails, ServeEnds,
     storeVars
<1>7. ASSUME Authorize \/ Tick \/ UNCHANGED vars PROVE FALSE
  BY <1>7 DEF Authorize, Tick, vars, storeVars
<1>8. ASSUME Restart PROVE ~HasGrant(t.grantID)'
  BY <1>8 DEF Restart, StoreEmpty, HasGrant
<1>9. QED
  BY <1>1, <1>2, <1>3, <1>4, <1>5, <1>6, <1>7, <1>8 DEF Next, Token, Mcp

\* A refresh token that has not expired and whose grant is stored leaves the
\* store only in an exchange by its own client (ConsumeMCPRefreshToken, and no
\* other method of the store, whatever requests run at once).
THEOREM OnlyOwnerSpends == Spec => RefreshTokenKept
<1>1. QED
  BY StepRefreshKept, InitTInv, StepTInv, PTL DEF Spec, RefreshTokenKept

=============================================================================
