----------------------------- MODULE SessionProofs --------------------------
(***************************************************************************)
(* What becomes of a grant: its mutex, its owner, its end.  A dead         *)
(* credential does not live on in the store, and OAuthServer implements    *)
(* GrantSession.  The proofs rest on the invariants of OAuthServerProofs.  *)
(***************************************************************************)
EXTENDS OAuthServerProofs

\* The invariants proved so far.
Known == TInv /\ SInv /\ CInv

LEMMA AlwaysKnown == Spec => []Known
<1>1. Init => Known
  BY InitTInv, InitSInv, InitCInv DEF Known
<1>2. Known /\ [Next]_vars => Known'
  BY StepTInv, StepSInv, StepCInv DEF Known
<1>3. QED
  BY <1>1, <1>2, PTL DEF Spec

-----------------------------------------------------------------------------
(* The grant's mutex. *)

\* A step that neither takes nor releases a mutex, nor renews a locked grant.
LEMMA CalmLock ==
  ASSUME TInv, TInv', LockMeansRefresh, UNCHANGED lock, now' >= now,
         \A g \in GrantIDs : lock[g] # None => heap'[g].expiresAt = heap[g].expiresAt,
         \A p \in Slots : pc[p] = "refresh" \/ pc'[p] = "refresh" =>
             pc'[p] = pc[p] /\ loc'[p] = loc[p]
  PROVE  LockMeansRefresh'
<1>1. ASSUME NEW g \in GrantIDs, lock'[g] # None
      PROVE  RefreshDue(g)' /\ pc'[lock'[g]] = "refresh" /\ loc'[lock'[g]].grantID = g
  <2>1. lock[g] \in Slots
    BY <1>1 DEF TInv, TypeOK
  <2>2. RefreshDue(g) /\ pc[lock[g]] = "refresh" /\ loc[lock[g]].grantID = g
    BY <1>1 DEF LockMeansRefresh
  <2>3. heap'[g].expiresAt = heap[g].expiresAt
    BY <1>1
  <2>4. heap[g].expiresAt \in Nat /\ now \in Nat /\ now' \in Nat /\ Margin \in Nat
    BY ServerAssumption DEF TInv, TypeOK, Grant
  <2>5. RefreshDue(g)'
    BY <2>2, <2>3, <2>4 DEF RefreshDue
  <2>6. QED
    BY <2>1, <2>2, <2>5
<1>2. ASSUME NEW p \in Slots, pc'[p] = "refresh" PROVE lock'[loc'[p].grantID] = p
  BY <1>2 DEF LockMeansRefresh
<1>3. QED
  BY <1>1, <1>2 DEF LockMeansRefresh

\* A grant without a request that authenticates by it is not locked.
LEMMA NotLocked ==
  ASSUME TInv, LockMeansRefresh, NEW g \in GrantIDs, Requests(g, Bearing) = {}
  PROVE  lock[g] = None
  BY DEF TInv, TypeOK, LockMeansRefresh, Requests, Bearing

LEMMA StepLock ==
    Known /\ TInv' /\ LockMeansRefresh /\ [Next]_vars => LockMeansRefresh'
<1> SUFFICES ASSUME TInv, SInv, CInv, TInv', LockMeansRefresh, [Next]_vars
             PROVE  LockMeansRefresh'
  BY DEF Known
<1>a. /\ pc \in [Slots -> Points] /\ loc \in [Slots -> Locals]
      /\ lock \in [GrantIDs -> Slots \cup {None}]
      /\ heap \in [GrantIDs -> Grant]
      /\ now \in Nat
  BY DEF TInv, TypeOK
<1>b. ASSUME NEW p \in Slots, pc[p] \in {"lock", "refresh", "deleteGrant"}
      PROVE  loc[p].grantID \in GrantIDs
  BY <1>b DEF TInv, LocalsOK, LocalOK
<1>1. CASE Authorize
  BY <1>a, <1>1, CalmLock DEF Authorize
<1>2. ASSUME NEW p \in Slots, CallbackState(p) PROVE LockMeansRefresh'
  BY <1>a, <1>2, CalmLock DEF CallbackState, Goto, At
<1>3. ASSUME NEW p \in Slots, CallbackExchange(p) PROVE LockMeansRefresh'
  BY <1>a, <1>3, CalmLock DEF CallbackExchange, Goto, At, Finish
<1>4. ASSUME NEW p \in Slots, CallbackRejectUser(p) PROVE LockMeansRefresh'
  BY <1>a, <1>4, CalmLock DEF CallbackRejectUser, Goto, At, Finish
<1>5. ASSUME NEW p \in Slots, CallbackAcceptUser(p) PROVE LockMeansRefresh'
  <2>1. nextGrant \in GrantIDs
    BY <1>5 DEF CallbackAcceptUser, TInv, TypeOK, GrantIDs
  <2>2. lock[nextGrant] = None
    <3>1. Requests(nextGrant, Bearing) = {}
      BY <2>1 DEF CInv, GrantOK, Unborn, TInv, TypeOK
    <3>2. QED
      BY <2>1, <3>1, NotLocked
  <2>3. \A g \in GrantIDs : lock[g] # None => heap'[g] = heap[g]
    BY <1>5, <1>a, <2>2 DEF CallbackAcceptUser
  <2>4. QED
    BY <1>a, <1>5, <2>3, CalmLock DEF CallbackAcceptUser, Goto, At, Finish
<1>6. ASSUME NEW p \in Slots, CallbackPutGrant(p) PROVE LockMeansRefresh'
  BY <1>a, <1>6, CalmLock DEF CallbackPutGrant, Goto, At, Finish
<1>7. ASSUME NEW p \in Slots, RedeemCode(p) PROVE LockMeansRefresh'
  BY <1>a, <1>7, CalmLock DEF RedeemCode, Goto, At
<1>8. ASSUME NEW p \in Slots, RotateRefreshToken(p) PROVE LockMeansRefresh'
  BY <1>a, <1>8, CalmLock DEF RotateRefreshToken, Goto, At
<1>9. ASSUME NEW p \in Slots, TokenGetGrant(p) PROVE LockMeansRefresh'
  BY <1>a, <1>9, CalmLock DEF TokenGetGrant, Goto, At, Finish
<1>10. ASSUME NEW p \in Slots, TokenPutAccess(p) PROVE LockMeansRefresh'
  BY <1>a, <1>10, CalmLock DEF TokenPutAccess, Goto, At
<1>11. ASSUME NEW p \in Slots, TokenPutRefresh(p) PROVE LockMeansRefresh'
  BY <1>a, <1>11, CalmLock DEF TokenPutRefresh, Goto, At, Finish
<1>12. ASSUME NEW p \in Slots, BearerToken(p) PROVE LockMeansRefresh'
  BY <1>a, <1>12, CalmLock DEF BearerToken, Goto, At
<1>13. ASSUME NEW p \in Slots, BearerGrant(p) PROVE LockMeansRefresh'
  BY <1>a, <1>13, CalmLock DEF BearerGrant, Goto, At, Finish
<1>14. ASSUME NEW p \in Slots, LockGrant(p) PROVE LockMeansRefresh'
  <2> DEFINE g == loc[p].grantID
  <2>1. pc[p] = "lock" /\ lock[g] = None /\ g \in GrantIDs
    BY <1>14, <1>b DEF LockGrant, At
  <2>2. CASE RefreshDue(g)
    <3>1. /\ lock' = [lock EXCEPT ![g] = p]
          /\ pc' = [pc EXCEPT ![p] = "refresh"] /\ loc' = [loc EXCEPT ![p] = loc[p]]
          /\ UNCHANGED <<now, heap>>
      BY <1>14, <2>2 DEF LockGrant, Goto
    <3>2. loc' = loc
      BY <3>1, <1>a
    <3>3. ASSUME NEW h \in GrantIDs, lock'[h] # None
          PROVE  RefreshDue(h)' /\ pc'[lock'[h]] = "refresh" /\ loc'[lock'[h]].grantID = h
      BY <1>a, <2>1, <2>2, <3>1, <3>2, <3>3 DEF LockMeansRefresh, RefreshDue
    <3>4. ASSUME NEW q \in Slots, pc'[q] = "refresh" PROVE lock'[loc'[q].grantID] = q
      <4>1. CASE q = p
        BY <1>a, <2>1, <3>1, <3>2, <4>1
      <4>2. CASE q # p
        <5>1. pc[q] = "refresh" /\ lock[loc[q].grantID] = q
          BY <1>a, <3>1, <3>4, <4>2 DEF LockMeansRefresh
        <5>2. loc[q].grantID # g
          BY <2>1, <5>1, ServerAssumption
        <5>3. QED
          BY <1>a, <3>1, <3>2, <5>1, <5>2
      <4>3. QED
        BY <4>1, <4>2
    <3>5. QED
      BY <3>3, <3>4 DEF LockMeansRefresh
  <2>3. CASE ~RefreshDue(g)
    BY <1>a, <1>14, <2>1, <2>3, CalmLock DEF LockGrant, Serve, Goto, Finish
  <2>4. QED
    BY <2>2, <2>3
<1>c. ASSUME NEW p \in Slots, pc[p] = "refresh", UNCHANGED now,
             Unlock(loc[p].grantID),
             \A h \in GrantIDs \ {loc[p].grantID} : heap'[h] = heap[h],
             pc'[p] # "refresh",
             \A q \in Slots \ {p} : pc'[q] = pc[q] /\ loc'[q] = loc[q]
      PROVE  LockMeansRefresh'
  <2> DEFINE g == loc[p].grantID
  <2>1. g \in GrantIDs /\ lock[g] = p
    BY <1>b, <1>c DEF LockMeansRefresh
  <2>2. lock' = [lock EXCEPT ![g] = None]
    BY <1>c DEF Unlock
  <2>3. ASSUME NEW h \in GrantIDs, lock'[h] # None
        PROVE  RefreshDue(h)' /\ pc'[lock'[h]] = "refresh" /\ loc'[lock'[h]].grantID = h
    <3>1. h # g /\ lock'[h] = lock[h]
      BY <1>a, <2>1, <2>2, <2>3
    <3>2. RefreshDue(h) /\ pc[lock[h]] = "refresh" /\ loc[lock[h]].grantID = h
      BY <2>3, <3>1 DEF LockMeansRefresh
    <3>3. lock[h] \in Slots \ {p}
      BY <1>a, <2>3, <3>1, <3>2
    <3>4. RefreshDue(h)'
      BY <1>c, <3>1, <3>2 DEF RefreshDue
    <3>5. QED
      BY <1>c, <3>1, <3>2, <3>3, <3>4
  <2>4. ASSUME NEW q \in Slots, pc'[q] = "refresh" PROVE lock'[loc'[q].grantID] = q
    <3>1. q # p /\ pc[q] = "refresh" /\ loc'[q] = loc[q] /\ lock[loc[q].grantID] = q
      BY <1>c, <2>4 DEF LockMeansRefresh
    <3>2. loc[q].grantID # g /\ loc[q].grantID \in GrantIDs
      BY <1>b, <2>1, <3>1
    <3>3. QED
      BY <1>a, <2>2, <3>1, <3>2
  <2>5. QED
    BY <2>3, <2>4 DEF LockMeansRefresh
<1>15. ASSUME NEW p \in Slots, RefreshSucceeds(p) PROVE LockMeansRefresh'
  <2>1. pc[p] = "refresh" /\ UNCHANGED now /\ Unlock(loc[p].grantID)
        /\ \A h \in GrantIDs \ {loc[p].grantID} : heap'[h] = heap[h]
    BY <1>15, <1>a DEF RefreshSucceeds, At
  <2>2. pc'[p] # "refresh" /\ \A q \in Slots \ {p} : pc'[q] = pc[q] /\ loc'[q] = loc[q]
    BY <1>15, <1>a DEF RefreshSucceeds, Serve, Finish, Goto
  <2>3. QED
    BY <1>c, <2>1, <2>2
<1>16. ASSUME NEW p \in Slots, RefreshFails(p) PROVE LockMeansRefresh'
  <2>1. pc[p] = "refresh" /\ UNCHANGED now /\ Unlock(loc[p].grantID)
        /\ \A h \in GrantIDs \ {loc[p].grantID} : heap'[h] = heap[h]
    BY <1>16, <1>a DEF RefreshFails, At
  <2>2. pc'[p] # "refresh" /\ \A q \in Slots \ {p} : pc'[q] = pc[q] /\ loc'[q] = loc[q]
    BY <1>16, <1>a DEF RefreshFails, Goto
  <2>3. QED
    BY <1>c, <2>1, <2>2
<1>17. ASSUME NEW p \in Slots, RefreshDeleteGrant(p) PROVE LockMeansRefresh'
  BY <1>a, <1>17, CalmLock DEF RefreshDeleteGrant, Goto, At, Finish
<1>18. ASSUME NEW p \in Slots, ServeEnds(p) PROVE LockMeansRefresh'
  BY <1>a, <1>18, CalmLock DEF ServeEnds, Goto, At, Finish
<1>19. CASE Tick
  BY <1>a, <1>19, CalmLock DEF Tick
<1>20. CASE Restart
  BY <1>20, ServerAssumption DEF Restart, LockMeansRefresh
<1>21. CASE UNCHANGED vars
  BY <1>a, <1>21, CalmLock DEF vars
<1>22. QED
  BY <1>1, <1>2, <1>3, <1>4, <1>5, <1>6, <1>7, <1>8, <1>9, <1>10, <1>11,
     <1>12, <1>13, <1>14, <1>15, <1>16, <1>17, <1>18, <1>19, <1>20, <1>21
     DEF Next, Callback, Token, Mcp

\* However many requests queue on a grant's mutex, and whatever the refresh in
\* front of them does, a holder is a request whose refresh is due and in
\* progress: those behind a successful refresh do not repeat it (verifyToken).
THEOREM LockedForRefresh == Spec => []LockMeansRefresh
<1>1. Init => LockMeansRefresh
  BY ServerAssumption DEF Init, LockMeansRefresh
<1>2. Known /\ Known' /\ LockMeansRefresh /\ [Next]_vars => LockMeansRefresh'
  BY StepLock DEF Known
<1>3. QED
  BY <1>1, <1>2, AlwaysKnown, PTL DEF Spec

-----------------------------------------------------------------------------
(* A grant that left the store does not return. *)

LEMMA StepStored == Known /\ [Next]_vars => StayDeleted
<1> SUFFICES ASSUME Known, [Next]_vars, NEW g \in codesSent, ~HasGrant(g)
             PROVE  ~HasGrant(g)'
  BY DEF StayDeleted
<1>1. ASSUME NEW p \in Slots, CallbackPutGrant(p) PROVE ~HasGrant(g)'
  <2>1. pc[p] = "putGrant" /\ loc[p].grantID \in GrantIDs
    BY <1>1 DEF CallbackPutGrant, At, Known, TInv, LocalsOK, LocalOK
  <2>2. p \in Requests(loc[p].grantID, {"putGrant"})
    BY <2>1 DEF Requests
  <2>3. loc[p].grantID \notin codesSent
    BY <2>1, <2>2 DEF Known, CInv, GrantOK, Unstored
  <2>4. QED
    BY <1>1, <2>3 DEF CallbackPutGrant, PutGrant, HasGrant
<1>2. ASSUME NEW p \in Slots,
             Callback(p) \/ Token(p) \/ Mcp(p), ~CallbackPutGrant(p)
      PROVE  grants' \subseteq grants
  <2>1. CASE CallbackState(p)
    BY <2>1 DEF CallbackState
  <2>2. CASE CallbackExchange(p)
    BY <2>2 DEF CallbackExchange, storeVars
  <2>3. CASE CallbackRejectUser(p)
    BY <2>3 DEF CallbackRejectUser, storeVars
  <2>4. CASE CallbackAcceptUser(p)
    BY <2>4 DEF CallbackAcceptUser
  <2>5. CASE RedeemCode(p)
    BY <2>5 DEF RedeemCode
  <2>6. CASE RotateRefreshToken(p)
    BY <2>6 DEF RotateRefreshToken
  <2>7. CASE TokenGetGrant(p)
    BY <2>7 DEF TokenGetGrant, storeVars
  <2>8. CASE TokenPutAccess(p)
    BY <2>8 DEF TokenPutAccess
  <2>9. CASE TokenPutRefresh(p)
    BY <2>9 DEF TokenPutRefresh
  <2>10. CASE BearerToken(p)
    BY <2>10 DEF BearerToken
  <2>11. CASE BearerGrant(p)
    BY <2>11 DEF BearerGrant, storeVars
  <2>12. CASE LockGrant(p)
    BY <2>12 DEF LockGrant, storeVars
  <2>13. CASE RefreshSucceeds(p)
    BY <2>13 DEF RefreshSucceeds, storeVars
  <2>14. CASE RefreshFails(p)
    BY <2>14 DEF RefreshFails, storeVars
  <2>15. CASE RefreshDeleteGrant(p)
    BY <2>15 DEF RefreshDeleteGrant, DeleteGrant
  <2>16. CASE ServeEnds(p)
    BY <2>16 DEF ServeEnds, storeVars
  <2>17. QED
    BY <1>2, <2>1, <2>2, <2>3, <2>4, <2>5, <2>6, <2>7, <2>8, <2>9,
       <2>10, <2>11, <2>12, <2>13, <2>14, <2>15, <2>16
       DEF Callback, Token, Mcp
<1>3. CASE Authorize \/ Tick \/ Restart \/ UNCHANGED vars
  BY <1>3 DEF Authorize, Tick, Restart, vars, storeVars, HasGrant
<1>4. QED
  BY <1>1, <1>2, <1>3 DEF Next, HasGrant

\* Nothing brings a deleted grant back: not the callback, which stores its own
\* grant once, and not a refresh that was under way when it was deleted.
THEOREM DeletedForGood == Spec => GrantsDoNotReturn
<1>1. QED
  BY StepStored, AlwaysKnown, PTL DEF Spec, GrantsDoNotReturn

-----------------------------------------------------------------------------
(* A grant stays with the client that started its login. *)

\* Whether the client cl holds a code, a token or an exchange of g.
Holds(g, cl) ==
    \/ \E c \in Codes(g) : c.clientID = cl
    \/ \E t \in tokens : t.grantID = g /\ t.clientID = cl
    \/ \E p \in Requests(g, Minting) : loc[p].clientID = cl

OwnedOnce == \A g \in GrantIDs : \A c, d \in Clients : Holds(g, c) /\ Holds(g, d) => c = d

LEMMA OwnedMeansOneClient == TInv /\ OwnedOnce => OneClientPerGrant
<1> SUFFICES ASSUME TInv, OwnedOnce, NEW g \in GrantIDs,
                    NEW c \in {x.clientID : x \in Codes(g)}
                       \cup {t.clientID : t \in {u \in tokens : u.grantID = g}}
                       \cup {loc[p].clientID : p \in Requests(g, Minting)},
                    NEW d \in {x.clientID : x \in Codes(g)}
                       \cup {t.clientID : t \in {u \in tokens : u.grantID = g}}
                       \cup {loc[p].clientID : p \in Requests(g, Minting)}
             PROVE  c = d
  BY DEF OneClientPerGrant
<1>1. Holds(g, c) /\ Holds(g, d)
  BY DEF Holds
<1>2. \A x : Holds(g, x) => x \in Clients
  BY DEF Holds, TInv, TypeOK, LocalsOK, LocalOK, AuthCode, MCPToken, Codes, Requests
<1>3. QED
  BY <1>1, <1>2 DEF OwnedOnce

\* A step by which nobody comes to hold anything new.
LEMMA CalmOwners ==
  ASSUME OwnedOnce, \A g \in GrantIDs : \A c \in Clients : Holds(g, c)' => Holds(g, c)
  PROVE  OwnedOnce'
  BY DEF OwnedOnce

\* A step by which at most the client owner comes to hold something of h.
LEMMA OneOwner ==
  ASSUME OwnedOnce, NEW h, NEW owner, Holds(h, owner),
         authCodes' \subseteq authCodes,
         \A t \in tokens' : t \in tokens \/ (t.grantID = h /\ t.clientID = owner),
         \A p \in Slots : pc'[p] \in Minting =>
             \/ /\ pc[p] \in Minting
                /\ loc'[p].grantID = loc[p].grantID
                /\ loc'[p].clientID = loc[p].clientID
             \/ loc'[p].grantID = h /\ loc'[p].clientID = owner
  PROVE  OwnedOnce'
<1> SUFFICES ASSUME NEW g \in GrantIDs, NEW cl \in Clients, Holds(g, cl)'
             PROVE  Holds(g, cl)
  BY CalmOwners
<1>1. CASE \E c \in Codes(g)' : c.clientID = cl
  BY <1>1 DEF Holds, Codes
<1>2. CASE \E t \in tokens' : t.grantID = g /\ t.clientID = cl
  BY <1>2 DEF Holds
<1>3. CASE \E p \in Requests(g, Minting)' : loc'[p].clientID = cl
  <2>1. PICK p \in Slots :
           pc'[p] \in Minting /\ loc'[p].grantID = g /\ loc'[p].clientID = cl
    BY <1>3 DEF Requests
  <2>2. CASE loc'[p].grantID = h /\ loc'[p].clientID = owner
    BY <2>1, <2>2
  <2>3. CASE pc[p] \in Minting /\ loc[p].grantID = g /\ loc[p].clientID = cl
    BY <2>3 DEF Holds, Requests
  <2>4. QED
    BY <2>1, <2>2, <2>3
<1>4. QED
  BY <1>1, <1>2, <1>3 DEF Holds

LEMMA CalmHolders ==
  ASSUME OwnedOnce, authCodes' \subseteq authCodes, tokens' \subseteq tokens,
         \A p \in Slots : pc'[p] \in Minting =>
             /\ pc[p] \in Minting
             /\ loc'[p].grantID = loc[p].grantID
             /\ loc'[p].clientID = loc[p].clientID
  PROVE  OwnedOnce'
<1>1. \A g \in GrantIDs : \A c \in Clients : Holds(g, c)' => Holds(g, c)
  BY DEF Holds, Codes, Requests
<1>2. QED
  BY <1>1, CalmOwners

LEMMA StepOwners == Known /\ OwnedOnce /\ [Next]_vars => OwnedOnce'
<1> SUFFICES ASSUME TInv, SInv, CInv, OwnedOnce, [Next]_vars PROVE OwnedOnce'
  BY DEF Known
<1>a. /\ pc \in [Slots -> Points] /\ loc \in [Slots -> Locals]
  BY DEF TInv, TypeOK
<1> USE DEF Minting
<1>1. CASE Authorize
  BY <1>a, <1>1, CalmHolders DEF Authorize
<1>2. ASSUME NEW p \in Slots, CallbackState(p) PROVE OwnedOnce'
  BY <1>a, <1>2, CalmHolders DEF CallbackState, Goto, At
<1>3. ASSUME NEW p \in Slots, CallbackExchange(p) PROVE OwnedOnce'
  BY <1>a, <1>3, CalmHolders DEF CallbackExchange, Goto, At, Finish, storeVars
<1>4. ASSUME NEW p \in Slots, CallbackRejectUser(p) PROVE OwnedOnce'
  BY <1>a, <1>4, CalmHolders DEF CallbackRejectUser, Goto, At, Finish, storeVars
<1>5. ASSUME NEW p \in Slots, CallbackAcceptUser(p) PROVE OwnedOnce'
  <2>1. nextGrant \in GrantIDs
    BY <1>5 DEF CallbackAcceptUser, TInv, TypeOK, GrantIDs
  <2>2. /\ Codes(nextGrant) = {} /\ Requests(nextGrant, Minting) = {}
        /\ \A t \in tokens : t.grantID # nextGrant
    BY <2>1 DEF SInv, Undrawn, CInv, GrantOK, Unborn, TInv, TypeOK
  <2>3. \A c \in authCodes' : c \in authCodes \/
            (c.grantID = nextGrant /\ c.clientID = loc[p].clientID)
    BY <1>5 DEF CallbackAcceptUser, PutAuthCode, Unexpired
  <2>4. \A q \in Slots : pc'[q] \in Minting =>
            pc[q] \in Minting /\ loc'[q] = loc[q]
    BY <1>a, <1>5 DEF CallbackAcceptUser, Goto, Finish, At
  <2>5. UNCHANGED tokens
    BY <1>5 DEF CallbackAcceptUser
  <2>6. ASSUME NEW g \in GrantIDs, NEW c \in Clients, Holds(g, c)'
        PROVE  IF g = nextGrant THEN c = loc[p].clientID ELSE Holds(g, c)
    BY <2>2, <2>3, <2>4, <2>5, <2>6 DEF Holds, Codes, Requests
  <2>7. QED
    BY <2>6 DEF OwnedOnce
<1>6. ASSUME NEW p \in Slots, CallbackPutGrant(p) PROVE OwnedOnce'
  BY <1>a, <1>6, CalmHolders DEF CallbackPutGrant, Goto, At, Finish
<1>7. ASSUME NEW p \in Slots, RedeemCode(p) PROVE OwnedOnce'
  <2>1. PICK c \in authCodes, client \in Clients,
              uri \in RedirectURIs \cup {None},
              verifier \in Challenges \cup {None}, ok \in BOOLEAN :
           /\ ConsumeAuthCode(c, ok)
           /\ IF /\ ok
                 /\ c.clientID = client
                 /\ c.redirectURI = uri
                 /\ c.codeChallenge = verifier
              THEN /\ Goto(p, "getGrant",
                         [NoLocals EXCEPT !.clientID = client, !.via = "code",
                                          !.grantID = c.grantID,
                                          !.pair = nextPair])
                   /\ nextPair' = nextPair + 1
              ELSE UNCHANGED <<pc, loc, nextPair>>
    BY <1>7, Zenon DEF RedeemCode
  <2> DEFINE l == [NoLocals EXCEPT !.clientID = client, !.via = "code",
                                   !.grantID = c.grantID, !.pair = nextPair]
  <2>2. UNCHANGED tokens
    BY <1>7 DEF RedeemCode
  <2>3. CASE UNCHANGED <<pc, loc>>
    BY <2>1, <2>2, <2>3, CalmHolders DEF ConsumeAuthCode
  <2>4. CASE c.clientID = client /\ Goto(p, "getGrant", l)
    <3>1. l.grantID = c.grantID /\ l.clientID = client
      BY DEF NoLocals
    <3> HIDE DEF l
    <3>2. /\ loc'[p] = l
          /\ \A q \in Slots \ {p} : pc'[q] = pc[q] /\ loc'[q] = loc[q]
      BY <1>a, <2>4 DEF Goto
    <3>3. Holds(c.grantID, c.clientID)
      BY DEF Holds, Codes
    <3>4. QED
      BY <2>1, <2>2, <2>4, <3>1, <3>2, <3>3, OneOwner DEF ConsumeAuthCode
  <2>5. QED
    BY <2>1, <2>3, <2>4
<1>8. ASSUME NEW p \in Slots, RotateRefreshToken(p) PROVE OwnedOnce'
  <2>1. PICK t \in tokens, client \in Clients, ok \in BOOLEAN :
           /\ ConsumeMCPRefreshToken(t, client, ok)
           /\ IF ok
              THEN /\ Goto(p, "getGrant",
                         [NoLocals EXCEPT !.clientID = client, !.via = "refresh",
                                          !.grantID = t.grantID,
                                          !.pair = nextPair])
                   /\ nextPair' = nextPair + 1
              ELSE UNCHANGED <<pc, loc, nextPair>>
    BY <1>8, Zenon DEF RotateRefreshToken
  <2> DEFINE l == [NoLocals EXCEPT !.clientID = client, !.via = "refresh",
                                   !.grantID = t.grantID, !.pair = nextPair]
  <2>2. UNCHANGED authCodes
    BY <1>8 DEF RotateRefreshToken
  <2>3. CASE UNCHANGED <<pc, loc>>
    BY <2>1, <2>2, <2>3, CalmHolders DEF ConsumeMCPRefreshToken
  <2>4. CASE Goto(p, "getGrant", l)
    <3>1. l.grantID = t.grantID /\ l.clientID = client
      BY DEF NoLocals
    <3> HIDE DEF l
    <3>2. /\ loc'[p] = l
          /\ \A q \in Slots \ {p} : pc'[q] = pc[q] /\ loc'[q] = loc[q]
      BY <1>a, <2>4 DEF Goto
    <3>3. Holds(t.grantID, client)
      BY <2>1 DEF Holds, ConsumeMCPRefreshToken
    <3>4. QED
      BY <2>1, <2>2, <3>1, <3>2, <3>3, OneOwner DEF ConsumeMCPRefreshToken
  <2>5. QED
    BY <2>1, <2>3, <2>4
<1>9. ASSUME NEW p \in Slots, TokenGetGrant(p) PROVE OwnedOnce'
  BY <1>a, <1>9, CalmHolders DEF TokenGetGrant, Goto, At, Finish, storeVars
<1>b. ASSUME NEW p \in Slots, pc[p] \in Minting, UNCHANGED authCodes,
             \A t \in tokens' : t \in tokens \/
                 (t.grantID = loc[p].grantID /\ t.clientID = loc[p].clientID),
             \A q \in Slots : pc'[q] \in Minting =>
                 /\ pc[q] \in Minting
                 /\ loc'[q].grantID = loc[q].grantID
                 /\ loc'[q].clientID = loc[q].clientID
      PROVE  OwnedOnce'
  <2>1. Holds(loc[p].grantID, loc[p].clientID)
    BY <1>b DEF Holds, Requests
  <2>2. QED
    BY <1>b, <2>1, OneOwner
<1>10. ASSUME NEW p \in Slots, TokenPutAccess(p) PROVE OwnedOnce'
  <2>1. /\ pc[p] \in Minting /\ UNCHANGED authCodes
        /\ \A t \in tokens' : t \in tokens \/
                 (t.grantID = loc[p].grantID /\ t.clientID = loc[p].clientID)
    BY <1>10 DEF TokenPutAccess, PutMCPToken, At
  <2>2. \A q \in Slots : pc'[q] \in Minting =>
            /\ pc[q] \in Minting
            /\ loc'[q].grantID = loc[q].grantID
            /\ loc'[q].clientID = loc[q].clientID
    BY <1>10, <1>a DEF TokenPutAccess, Goto, At, Locals
  <2>3. QED
    BY <1>b, <2>1, <2>2
<1>11. ASSUME NEW p \in Slots, TokenPutRefresh(p) PROVE OwnedOnce'
  <2>1. /\ pc[p] \in Minting /\ UNCHANGED authCodes
        /\ \A t \in tokens' : t \in tokens \/
                 (t.grantID = loc[p].grantID /\ t.clientID = loc[p].clientID)
    BY <1>11 DEF TokenPutRefresh, PutMCPToken, At
  <2>2. \A q \in Slots : pc'[q] \in Minting =>
            /\ pc[q] \in Minting
            /\ loc'[q].grantID = loc[q].grantID
            /\ loc'[q].clientID = loc[q].clientID
    BY <1>11, <1>a DEF TokenPutRefresh, Goto, At, Finish
  <2>3. QED
    BY <1>b, <2>1, <2>2
<1>12. ASSUME NEW p \in Slots, BearerToken(p) PROVE OwnedOnce'
  BY <1>a, <1>12, CalmHolders DEF BearerToken, GetMCPToken, Goto, At
<1>13. ASSUME NEW p \in Slots, BearerGrant(p) PROVE OwnedOnce'
  BY <1>a, <1>13, CalmHolders DEF BearerGrant, Goto, At, Finish, storeVars
<1>14. ASSUME NEW p \in Slots, LockGrant(p) PROVE OwnedOnce'
  BY <1>a, <1>14, CalmHolders DEF LockGrant, Serve, Goto, At, Finish, storeVars
<1>15. ASSUME NEW p \in Slots, RefreshSucceeds(p) PROVE OwnedOnce'
  BY <1>a, <1>15, CalmHolders DEF RefreshSucceeds, Serve, Goto, At, Finish, storeVars
<1>16. ASSUME NEW p \in Slots, RefreshFails(p) PROVE OwnedOnce'
  BY <1>a, <1>16, CalmHolders DEF RefreshFails, Goto, At, storeVars
<1>17. ASSUME NEW p \in Slots, RefreshDeleteGrant(p) PROVE OwnedOnce'
  BY <1>a, <1>17, CalmHolders DEF RefreshDeleteGrant, DeleteGrant, Goto, At, Finish
<1>18. ASSUME NEW p \in Slots, ServeEnds(p) PROVE OwnedOnce'
  BY <1>a, <1>18, CalmHolders DEF ServeEnds, Goto, At, Finish, storeVars
<1>19. CASE Tick
  BY <1>a, <1>19, CalmHolders DEF Tick, storeVars
<1>20. CASE Restart
  BY <1>a, <1>20, CalmHolders DEF Restart
<1>21. CASE UNCHANGED vars
  BY <1>a, <1>21, CalmHolders DEF vars, storeVars
<1>22. QED
  BY <1>1, <1>2, <1>3, <1>4, <1>5, <1>6, <1>7, <1>8, <1>9, <1>10, <1>11,
     <1>12, <1>13, <1>14, <1>15, <1>16, <1>17, <1>18, <1>19, <1>20, <1>21
     DEF Next, Callback, Token, Mcp

\* No exchange or rotation, however interleaved, moves the authority over a grant
\* to another client than the one whose login created it.
THEOREM GrantKeepsClient == Spec => []OneClientPerGrant
<1>1. Init => OwnedOnce
  BY DEF Init, StoreEmpty, OwnedOnce, Holds, Codes, Requests, Minting
<1>2. Known /\ OwnedOnce => OneClientPerGrant
  BY OwnedMeansOneClient DEF Known
<1>3. QED
  BY <1>1, <1>2, StepOwners, AlwaysKnown, PTL DEF Spec

-----------------------------------------------------------------------------
(* A grant between its callback and its end. *)

\* Until its callback has answered, a grant is all the callback's: nobody has a
\* token of it, exchanges its code or refreshes it.
Young(g) ==
    Requests(g, {"putGrant"}) # {} =>
        /\ Requests(g, Minting) = {} /\ Requests(g, Bearing) = {}
        /\ \A t \in tokens : t.grantID # g
        /\ ~heap[g].superseded

AllYoung == \A g \in GrantIDs : Young(g)

\* A request that has no new part in anything but the grant h.
Keeps(p, h) ==
    pc'[p] \in {"putGrant"} \cup Minting \cup Bearing =>
        \/ loc'[p].grantID = h
        \/ /\ loc'[p].grantID = loc[p].grantID
           /\ \/ pc'[p] = "putGrant" /\ pc[p] = "putGrant"
              \/ pc'[p] \in Minting /\ pc[p] \in Minting
              \/ pc'[p] \in Bearing /\ pc[p] \in Bearing

\* A step that gives only a grant h something new, which is not young.
LEMMA YoungStep ==
  ASSUME AllYoung, NEW h, Requests(h, {"putGrant"})' = {},
         \A t \in tokens' : t \in tokens \/ t.grantID = h,
         \A g \in GrantIDs \ {h} : heap'[g].superseded => heap[g].superseded,
         \A p \in Slots : Keeps(p, h)
  PROVE  AllYoung'
<1> SUFFICES ASSUME NEW g \in GrantIDs, Requests(g, {"putGrant"})' # {}
             PROVE  /\ Requests(g, Minting)' = {} /\ Requests(g, Bearing)' = {}
                    /\ \A t \in tokens' : t.grantID # g
                    /\ ~heap'[g].superseded
  BY DEF AllYoung, Young
<1>1. g # h
  OBVIOUS
<1>2. /\ Requests(g, {"putGrant"})' \subseteq Requests(g, {"putGrant"})
      /\ Requests(g, Minting)' \subseteq Requests(g, Minting)
      /\ Requests(g, Bearing)' \subseteq Requests(g, Bearing)
  BY <1>1 DEF Requests, Keeps, Minting, Bearing
<1>3. Young(g)
  BY DEF AllYoung
<1>4. QED
  BY <1>1, <1>2, <1>3 DEF Young

\* A step that gives no grant anything new.
LEMMA CalmYoung ==
  ASSUME TInv', AllYoung, tokens' \subseteq tokens,
         \A g \in GrantIDs : heap'[g].superseded => heap[g].superseded,
         \A p \in Slots : Keeps(p, 0)
  PROVE  AllYoung'
<1>1. Requests(0, {"putGrant"})' = {}
  BY DEF TInv, LocalsOK, LocalOK, Requests, GrantIDs
<1>2. QED
  BY <1>1, YoungStep

\* A grant with something to redeem or to present is not young.
LEMMA NotYoung ==
  ASSUME CInv, AllYoung, NEW g \in GrantIDs,
         \/ g \in codesSent
         \/ \E t \in tokens : t.grantID = g
         \/ Requests(g, Minting) # {} \/ Requests(g, Bearing) # {}
  PROVE  Requests(g, {"putGrant"}) = {}
  BY DEF AllYoung, Young, CInv, GrantOK, Unstored

\* No request takes up the callback's last step.
LEMMA StillOld ==
  ASSUME NEW g, Requests(g, {"putGrant"}) = {},
         \A p \in Slots : pc'[p] = "putGrant" =>
             pc[p] = "putGrant" /\ loc'[p].grantID = loc[p].grantID
  PROVE  Requests(g, {"putGrant"})' = {}
  BY DEF Requests

\* A refresh that succeeds makes no credential a dead one.
LEMMA RefreshRevives ==
  ASSUME heap \in [GrantIDs -> Grant], NEW p \in Slots, RefreshSucceeds(p)
  PROVE  \A g \in GrantIDs : heap'[g].superseded => heap[g].superseded
<1>1. PICK expiresIn \in ExpiresIn, rotated \in BOOLEAN :
         heap' = [heap EXCEPT ![loc[p].grantID] =
                     [expiresAt |-> now + Lifetime(expiresIn),
                      superseded |-> @.superseded /\ ~rotated]]
  BY DEF RefreshSucceeds
<1>2. ASSUME NEW g \in GrantIDs PROVE heap'[g].superseded => heap[g].superseded
  <2>1. CASE g = loc[p].grantID
    <3>1. heap'[g].superseded = (heap[g].superseded /\ ~rotated)
      BY <1>1, <2>1
    <3>2. QED
      BY <3>1
  <2>2. CASE g # loc[p].grantID
    BY <1>1, <2>2
  <2>3. QED
    BY <2>1, <2>2
<1>3. QED
  BY <1>2

LEMMA StepYoung == Known /\ TInv' /\ AllYoung /\ [Next]_vars => AllYoung'
<1> SUFFICES ASSUME TInv, SInv, CInv, TInv', AllYoung, [Next]_vars PROVE AllYoung'
  BY DEF Known
<1>a. /\ pc \in [Slots -> Points] /\ loc \in [Slots -> Locals]
      /\ heap \in [GrantIDs -> Grant]
      /\ tokens \subseteq MCPToken
  BY DEF TInv, TypeOK
<1>b. ASSUME NEW p \in Slots, pc[p] \in Minting \cup Bearing
      PROVE  /\ loc[p].grantID \in GrantIDs
             /\ Requests(loc[p].grantID, {"putGrant"}) = {}
  <2>1. loc[p].grantID \in GrantIDs
    BY <1>b DEF TInv, LocalsOK, LocalOK, Minting, Bearing
  <2>2. QED
    BY <1>b, <2>1, NotYoung DEF Requests
<1>1. CASE Authorize
  BY <1>a, <1>1, CalmYoung DEF Authorize, Keeps, Minting, Bearing
<1>2. ASSUME NEW p \in Slots, CallbackState(p) PROVE AllYoung'
  BY <1>a, <1>2, CalmYoung DEF CallbackState, Goto, At, Keeps, Minting, Bearing
<1>3. ASSUME NEW p \in Slots, CallbackExchange(p) PROVE AllYoung'
  BY <1>a, <1>3, CalmYoung
     DEF CallbackExchange, Goto, At, Finish, storeVars, Keeps, Minting, Bearing
<1>4. ASSUME NEW p \in Slots, CallbackRejectUser(p) PROVE AllYoung'
  BY <1>a, <1>4, CalmYoung
     DEF CallbackRejectUser, Goto, At, Finish, storeVars, Keeps, Minting, Bearing
<1>5. ASSUME NEW p \in Slots, CallbackAcceptUser(p) PROVE AllYoung'
  <2>1. nextGrant \in GrantIDs
    BY <1>5 DEF CallbackAcceptUser, TInv, TypeOK, GrantIDs
  <2>2. /\ Requests(nextGrant, Minting) = {} /\ Requests(nextGrant, Bearing) = {}
        /\ \A t \in tokens : t.grantID # nextGrant
    BY <2>1 DEF SInv, Undrawn, CInv, GrantOK, Unborn, TInv, TypeOK
  <2>3. /\ UNCHANGED tokens
        /\ \A g \in GrantIDs : heap'[g].superseded => heap[g].superseded
        /\ heap'[nextGrant].superseded => heap' = heap
    BY <1>5, <1>a DEF CallbackAcceptUser
  <2>4. \A q \in Slots : pc'[q] \in Minting \cup Bearing =>
            pc'[q] = pc[q] /\ loc'[q] = loc[q]
    BY <1>5, <1>a DEF CallbackAcceptUser, At, Goto, Finish, Minting, Bearing
  <2>5. CASE Finish(p)
    BY <1>a, <2>3, <2>4, <2>5, CalmYoung DEF Keeps, Finish, Goto, Minting, Bearing
  <2>6. CASE ~Finish(p)
    <3>1. /\ pc' = [pc EXCEPT ![p] = "putGrant"]
          /\ loc' = [loc EXCEPT ![p] = [loc[p] EXCEPT !.grantID = nextGrant]]
          /\ heap'[nextGrant].superseded = FALSE
      BY <1>5, <1>a, <2>1, <2>6 DEF CallbackAcceptUser, Goto
    <3>2. loc'[p].grantID = nextGrant
      BY <1>a, <3>1 DEF Locals
    <3>3. ASSUME NEW g \in GrantIDs PROVE Young(g)'
      <4>1. CASE g = nextGrant
        <5>1. Requests(g, Minting)' = {} /\ Requests(g, Bearing)' = {}
          BY <2>2, <2>4, <3>1, <3>2, <4>1 DEF Requests
        <5>2. (\A t \in tokens' : t.grantID # g) /\ ~heap'[g].superseded
          BY <2>2, <2>3, <3>1, <4>1
        <5>3. QED
          BY <5>1, <5>2 DEF Young
      <4>2. CASE g # nextGrant
        <5>1. /\ Requests(g, {"putGrant"})' \subseteq Requests(g, {"putGrant"})
              /\ Requests(g, Minting)' \subseteq Requests(g, Minting)
              /\ Requests(g, Bearing)' \subseteq Requests(g, Bearing)
          BY <1>a, <2>4, <3>1, <3>2, <4>2 DEF Requests
        <5>2. QED
          BY <2>3, <5>1 DEF AllYoung, Young
      <4>3. QED
        BY <4>1, <4>2
    <3>4. QED
      BY <3>3 DEF AllYoung
  <2>7. QED
    BY <2>5, <2>6
<1>6. ASSUME NEW p \in Slots, CallbackPutGrant(p) PROVE AllYoung'
  BY <1>a, <1>6, CalmYoung DEF CallbackPutGrant, Goto, At, Finish, Keeps, Minting, Bearing
<1>7. ASSUME NEW p \in Slots, RedeemCode(p) PROVE AllYoung'
  <2>1. PICK c \in authCodes :
           /\ c.grantID \in codesSent
           /\ authCodes' = authCodes \ {c}
           /\ \/ UNCHANGED <<pc, loc>>
              \/ /\ pc' = [pc EXCEPT ![p] = "getGrant"]
                 /\ loc'[p].grantID = c.grantID
                 /\ \A q \in Slots \ {p} : loc'[q] = loc[q]
    <3>1. PICK c \in authCodes, client \in Clients,
               uri \in RedirectURIs \cup {None},
               verifier \in Challenges \cup {None}, ok \in BOOLEAN :
             /\ c.grantID \in codesSent
             /\ ConsumeAuthCode(c, ok)
             /\ IF /\ ok
                   /\ c.clientID = client
                   /\ c.redirectURI = uri
                   /\ c.codeChallenge = verifier
                THEN /\ Goto(p, "getGrant",
                             [NoLocals EXCEPT !.clientID = client, !.via = "code",
                                              !.grantID = c.grantID,
                                              !.pair = nextPair])
                     /\ nextPair' = nextPair + 1
                ELSE UNCHANGED <<pc, loc, nextPair>>
      BY <1>7, Zenon DEF RedeemCode
    <3>2. QED
      BY <1>a, <3>1 DEF ConsumeAuthCode, Goto, NoLocals
  <2>2. UNCHANGED <<tokens, heap>>
    BY <1>7 DEF RedeemCode
  <2>3. c.grantID \in GrantIDs
    BY DEF TInv, TypeOK, AuthCode
  <2>4. Requests(c.grantID, {"putGrant"})' = {}
    BY <1>a, <2>1, <2>3, NotYoung, StillOld
  <2>5. \A q \in Slots : Keeps(q, c.grantID)
    BY <1>a, <2>1 DEF Keeps, Minting, Bearing
  <2>6. QED
    BY <2>2, <2>4, <2>5, YoungStep
<1>8. ASSUME NEW p \in Slots, RotateRefreshToken(p) PROVE AllYoung'
  <2>1. PICK t \in tokens :
           /\ tokens' = tokens \ {t}
           /\ \/ UNCHANGED <<pc, loc>>
              \/ /\ pc' = [pc EXCEPT ![p] = "getGrant"]
                 /\ loc'[p].grantID = t.grantID
                 /\ \A q \in Slots \ {p} : loc'[q] = loc[q]
    <3>1. PICK t \in tokens, client \in Clients, ok \in BOOLEAN :
             /\ t.pair \in pairsSent
             /\ ConsumeMCPRefreshToken(t, client, ok)
             /\ IF ok
                THEN /\ Goto(p, "getGrant",
                             [NoLocals EXCEPT !.clientID = client,
                                              !.via = "refresh",
                                              !.grantID = t.grantID,
                                              !.pair = nextPair])
                     /\ nextPair' = nextPair + 1
                ELSE UNCHANGED <<pc, loc, nextPair>>
      BY <1>8, Zenon DEF RotateRefreshToken
    <3>2. QED
      BY <1>a, <3>1 DEF ConsumeMCPRefreshToken, Goto, NoLocals
  <2>2. UNCHANGED heap
    BY <1>8 DEF RotateRefreshToken
  <2>3. t.grantID \in GrantIDs
    BY <1>a DEF MCPToken
  <2>4. Requests(t.grantID, {"putGrant"})' = {}
    BY <1>a, <2>1, <2>3, NotYoung, StillOld
  <2>5. \A q \in Slots : Keeps(q, t.grantID)
    BY <1>a, <2>1 DEF Keeps, Minting, Bearing
  <2>6. QED
    BY <2>1, <2>2, <2>4, <2>5, YoungStep
<1>9. ASSUME NEW p \in Slots, TokenGetGrant(p) PROVE AllYoung'
  BY <1>a, <1>9, CalmYoung
     DEF TokenGetGrant, Goto, At, Finish, storeVars, Keeps, Minting, Bearing
<1>10. ASSUME NEW p \in Slots, TokenPutAccess(p) PROVE AllYoung'
  <2>h. PICK h \in GrantIDs : h = loc[p].grantID /\ Requests(h, {"putGrant"}) = {}
    <3>1. pc[p] = "putAccess"
      BY <1>10 DEF TokenPutAccess, At
    <3>2. QED
      BY <1>b, <3>1 DEF Minting, Bearing
  <2>1. /\ pc[p] = "putAccess" /\ UNCHANGED heap
        /\ \A t \in tokens' : t \in tokens \/ t.grantID = h
        /\ pc' = [pc EXCEPT ![p] = "putRefresh"]
        /\ loc'[p].grantID = h
        /\ \A q \in Slots \ {p} : loc'[q] = loc[q]
    BY <1>10, <1>a, <2>h DEF TokenPutAccess, PutMCPToken, At, Goto, Locals
  <2>2. Requests(h, {"putGrant"})' = {}
    BY <1>a, <2>h, <2>1, StillOld
  <2>3. \A q \in Slots : Keeps(q, h)
    BY <1>a, <2>h, <2>1 DEF Keeps, Minting, Bearing
  <2>4. QED
    BY <2>1, <2>2, <2>3, YoungStep
<1>11. ASSUME NEW p \in Slots, TokenPutRefresh(p) PROVE AllYoung'
  <2>h. PICK h \in GrantIDs : h = loc[p].grantID /\ Requests(h, {"putGrant"}) = {}
    <3>1. pc[p] = "putRefresh"
      BY <1>11 DEF TokenPutRefresh, At
    <3>2. QED
      BY <1>b, <3>1 DEF Minting, Bearing
  <2>1. /\ pc[p] = "putRefresh" /\ UNCHANGED heap
        /\ \A t \in tokens' : t \in tokens \/ t.grantID = h
        /\ pc' = [pc EXCEPT ![p] = "idle"]
        /\ \A q \in Slots \ {p} : loc'[q] = loc[q]
    BY <1>11, <1>a, <2>h DEF TokenPutRefresh, PutMCPToken, At, Goto, Finish
  <2>2. Requests(h, {"putGrant"})' = {}
    BY <1>a, <2>h, <2>1, StillOld
  <2>3. \A q \in Slots : Keeps(q, h)
    BY <1>a, <2>h, <2>1 DEF Keeps, Minting, Bearing
  <2>4. QED
    BY <2>1, <2>2, <2>3, YoungStep
<1>12. ASSUME NEW p \in Slots, BearerToken(p) PROVE AllYoung'
  <2>1. PICK t \in tokens :
           /\ tokens' \subseteq tokens
           /\ \/ UNCHANGED <<pc, loc>>
              \/ /\ pc' = [pc EXCEPT ![p] = "bearerGrant"]
                 /\ loc'[p].grantID = t.grantID
                 /\ \A q \in Slots \ {p} : loc'[q] = loc[q]
    BY <1>a, <1>12 DEF BearerToken, GetMCPToken, Goto, NoLocals
  <2>2. UNCHANGED heap
    BY <1>12 DEF BearerToken
  <2>3. t.grantID \in GrantIDs
    BY <1>a DEF MCPToken
  <2>4. Requests(t.grantID, {"putGrant"})' = {}
    BY <1>a, <2>1, <2>3, NotYoung, StillOld
  <2>5. \A q \in Slots : Keeps(q, t.grantID)
    BY <1>a, <2>1 DEF Keeps, Minting, Bearing
  <2>6. QED
    BY <2>1, <2>2, <2>4, <2>5, YoungStep
<1>13. ASSUME NEW p \in Slots, BearerGrant(p) PROVE AllYoung'
  BY <1>a, <1>13, CalmYoung
     DEF BearerGrant, Goto, At, Finish, storeVars, Keeps, Minting, Bearing
<1>14. ASSUME NEW p \in Slots, LockGrant(p) PROVE AllYoung'
  BY <1>a, <1>14, CalmYoung
     DEF LockGrant, Serve, Goto, At, Finish, storeVars, Keeps, Minting, Bearing
<1>15. ASSUME NEW p \in Slots, RefreshSucceeds(p) PROVE AllYoung'
  <2>1. \A g \in GrantIDs : heap'[g].superseded => heap[g].superseded
    BY <1>a, <1>15, RefreshRevives
  <2>2. \A q \in Slots : Keeps(q, 0)
    BY <1>a, <1>15 DEF RefreshSucceeds, Serve, Goto, Finish, Keeps, Minting, Bearing
  <2>3. QED
    BY <1>15, <2>1, <2>2, CalmYoung DEF RefreshSucceeds, storeVars
<1>16. ASSUME NEW p \in Slots, RefreshFails(p) PROVE AllYoung'
  <2>h. PICK h \in GrantIDs : h = loc[p].grantID /\ Requests(h, {"putGrant"}) = {}
    <3>1. pc[p] = "refresh"
      BY <1>16 DEF RefreshFails, At
    <3>2. QED
      BY <1>b, <3>1 DEF Minting, Bearing
  <2>1. /\ pc[p] = "refresh" /\ UNCHANGED tokens
        /\ \A g \in GrantIDs \ {h} : heap'[g] = heap[g]
        /\ pc' = [pc EXCEPT ![p] = "deleteGrant"]
        /\ loc' = loc
    BY <1>16, <1>a, <2>h DEF RefreshFails, At, Goto, storeVars
  <2>2. Requests(h, {"putGrant"})' = {}
    BY <1>a, <2>h, <2>1, StillOld
  <2>3. \A q \in Slots : Keeps(q, h)
    BY <1>a, <2>h, <2>1 DEF Keeps, Minting, Bearing
  <2>4. QED
    BY <2>1, <2>2, <2>3, YoungStep
<1>17. ASSUME NEW p \in Slots, RefreshDeleteGrant(p) PROVE AllYoung'
  BY <1>a, <1>17, CalmYoung
     DEF RefreshDeleteGrant, DeleteGrant, Goto, At, Finish, Keeps, Minting, Bearing
<1>18. ASSUME NEW p \in Slots, ServeEnds(p) PROVE AllYoung'
  BY <1>a, <1>18, CalmYoung
     DEF ServeEnds, Goto, At, Finish, storeVars, Keeps, Minting, Bearing
<1>19. CASE Tick
  BY <1>a, <1>19, CalmYoung DEF Tick, storeVars, Keeps, Minting, Bearing
<1>20. CASE Restart
  BY <1>20 DEF Restart, AllYoung, Young, Requests
<1>21. CASE UNCHANGED vars
  BY <1>a, <1>21, CalmYoung DEF vars, storeVars, Keeps, Minting, Bearing
<1>22. QED
  BY <1>1, <1>2, <1>3, <1>4, <1>5, <1>6, <1>7, <1>8, <1>9, <1>10, <1>11,
     <1>12, <1>13, <1>14, <1>15, <1>16, <1>17, <1>18, <1>19, <1>20, <1>21
     DEF Next, Callback, Token, Mcp

LEMMA AlwaysYoung == Spec => [](Known /\ AllYoung)
<1>1. Init => AllYoung
  BY DEF Init, AllYoung, Young, Requests
<1>2. Known /\ Known' /\ AllYoung /\ [Next]_vars => AllYoung'
  BY StepYoung DEF Known
<1>3. QED
  BY <1>1, <1>2, AlwaysKnown, PTL DEF Spec

-----------------------------------------------------------------------------
(* No life on a dead credential. *)

\* A step that loses no refresh token and keeps every request on its way to
\* delete a grant.
LEMMA CalmCondemned ==
  ASSUME SupersededIsCondemned,
         \A g \in grants' : g \in grants \/ ~heap'[g].superseded,
         \A g \in grants' : heap'[g].superseded => heap[g].superseded,
         \A p \in Slots : pc[p] = "deleteGrant" =>
             \/ pc'[p] = "deleteGrant" /\ loc'[p].grantID = loc[p].grantID
             \/ loc[p].grantID \notin grants'
  PROVE  SupersededIsCondemned'
<1> SUFFICES ASSUME NEW g \in grants', heap'[g].superseded
             PROVE  Requests(g, {"deleteGrant"})' # {}
  BY DEF SupersededIsCondemned
<1>1. PICK p \in Slots : pc[p] = "deleteGrant" /\ loc[p].grantID = g
  BY DEF SupersededIsCondemned, Requests
<1>2. pc'[p] = "deleteGrant" /\ loc'[p].grantID = g
  BY <1>1
<1>3. QED
  BY <1>2 DEF Requests

LEMMA StepCondemned ==
    Known /\ AllYoung /\ SupersededIsCondemned /\ [Next]_vars
        => SupersededIsCondemned'
<1> SUFFICES ASSUME TInv, CInv, AllYoung, SupersededIsCondemned, [Next]_vars
             PROVE  SupersededIsCondemned'
  BY DEF Known
<1>a. /\ pc \in [Slots -> Points] /\ loc \in [Slots -> Locals]
      /\ heap \in [GrantIDs -> Grant]
      /\ grants \subseteq GrantIDs
  BY DEF TInv, TypeOK
<1>1. CASE Authorize
  BY <1>a, <1>1, CalmCondemned DEF Authorize
<1>2. ASSUME NEW p \in Slots, CallbackState(p) PROVE SupersededIsCondemned'
  BY <1>a, <1>2, CalmCondemned DEF CallbackState, Goto, At
<1>3. ASSUME NEW p \in Slots, CallbackExchange(p) PROVE SupersededIsCondemned'
  BY <1>a, <1>3, CalmCondemned DEF CallbackExchange, Goto, At, Finish, storeVars
<1>4. ASSUME NEW p \in Slots, CallbackRejectUser(p) PROVE SupersededIsCondemned'
  BY <1>a, <1>4, CalmCondemned DEF CallbackRejectUser, Goto, At, Finish, storeVars
<1>5. ASSUME NEW p \in Slots, CallbackAcceptUser(p) PROVE SupersededIsCondemned'
  <2>1. /\ UNCHANGED grants
        /\ \A g \in grants : heap'[g].superseded => heap[g].superseded
    BY <1>a, <1>5 DEF CallbackAcceptUser
  <2>2. \A q \in Slots : pc[q] = "deleteGrant" => pc'[q] = pc[q] /\ loc'[q] = loc[q]
    BY <1>a, <1>5 DEF CallbackAcceptUser, Goto, At, Finish
  <2>3. QED
    BY <2>1, <2>2, CalmCondemned
<1>6. ASSUME NEW p \in Slots, CallbackPutGrant(p) PROVE SupersededIsCondemned'
  <2>1. loc[p].grantID \in GrantIDs /\ p \in Requests(loc[p].grantID, {"putGrant"})
    BY <1>6 DEF CallbackPutGrant, At, Requests, TInv, LocalsOK, LocalOK
  <2>2. ~heap[loc[p].grantID].superseded
    BY <2>1 DEF AllYoung, Young
  <2>3. /\ grants' = grants \cup {loc[p].grantID} /\ UNCHANGED heap
        /\ \A q \in Slots : pc[q] = "deleteGrant" => pc'[q] = pc[q] /\ loc'[q] = loc[q]
    BY <1>a, <1>6 DEF CallbackPutGrant, PutGrant, Goto, At, Finish
  <2>4. QED
    BY <2>2, <2>3, CalmCondemned
<1>7. ASSUME NEW p \in Slots, RedeemCode(p) PROVE SupersededIsCondemned'
  BY <1>a, <1>7, CalmCondemned DEF RedeemCode, Goto, At
<1>8. ASSUME NEW p \in Slots, RotateRefreshToken(p) PROVE SupersededIsCondemned'
  BY <1>a, <1>8, CalmCondemned DEF RotateRefreshToken, Goto, At
<1>9. ASSUME NEW p \in Slots, TokenGetGrant(p) PROVE SupersededIsCondemned'
  BY <1>a, <1>9, CalmCondemned DEF TokenGetGrant, Goto, At, Finish, storeVars
<1>10. ASSUME NEW p \in Slots, TokenPutAccess(p) PROVE SupersededIsCondemned'
  BY <1>a, <1>10, CalmCondemned DEF TokenPutAccess, Goto, At
<1>11. ASSUME NEW p \in Slots, TokenPutRefresh(p) PROVE SupersededIsCondemned'
  BY <1>a, <1>11, CalmCondemned DEF TokenPutRefresh, Goto, At, Finish
<1>12. ASSUME NEW p \in Slots, BearerToken(p) PROVE SupersededIsCondemned'
  BY <1>a, <1>12, CalmCondemned DEF BearerToken, Goto, At
<1>13. ASSUME NEW p \in Slots, BearerGrant(p) PROVE SupersededIsCondemned'
  BY <1>a, <1>13, CalmCondemned DEF BearerGrant, Goto, At, Finish, storeVars
<1>14. ASSUME NEW p \in Slots, LockGrant(p) PROVE SupersededIsCondemned'
  BY <1>a, <1>14, CalmCondemned DEF LockGrant, Serve, Goto, At, Finish, storeVars
<1>15. ASSUME NEW p \in Slots, RefreshSucceeds(p) PROVE SupersededIsCondemned'
  <2>1. \A g \in GrantIDs : heap'[g].superseded => heap[g].superseded
    BY <1>a, <1>15, RefreshRevives
  <2>2. /\ UNCHANGED grants
        /\ \A q \in Slots : pc[q] = "deleteGrant" => pc'[q] = pc[q] /\ loc'[q] = loc[q]
    BY <1>a, <1>15 DEF RefreshSucceeds, Serve, Goto, At, Finish, storeVars
  <2>3. QED
    BY <1>a, <2>1, <2>2, CalmCondemned
<1>16. ASSUME NEW p \in Slots, RefreshFails(p) PROVE SupersededIsCondemned'
  <2>1. /\ UNCHANGED grants
        /\ pc' = [pc EXCEPT ![p] = "deleteGrant"] /\ loc' = loc
        /\ \A g \in GrantIDs \ {loc[p].grantID} : heap'[g] = heap[g]
    BY <1>a, <1>16 DEF RefreshFails, Goto, At, storeVars
  <2>2. ASSUME NEW g \in grants', heap'[g].superseded
        PROVE  Requests(g, {"deleteGrant"})' # {}
    <3>1. CASE g = loc[p].grantID
      BY <1>a, <2>1, <3>1 DEF Requests
    <3>2. CASE g # loc[p].grantID
      <4>1. Requests(g, {"deleteGrant"}) # {}
        BY <1>a, <2>1, <2>2, <3>2 DEF SupersededIsCondemned
      <4>2. QED
        BY <1>a, <2>1, <4>1 DEF Requests
    <3>3. QED
      BY <3>1, <3>2
  <2>3. QED
    BY <2>2 DEF SupersededIsCondemned
<1>17. ASSUME NEW p \in Slots, RefreshDeleteGrant(p) PROVE SupersededIsCondemned'
  BY <1>a, <1>17, CalmCondemned DEF RefreshDeleteGrant, DeleteGrant, Goto, At, Finish
<1>18. ASSUME NEW p \in Slots, ServeEnds(p) PROVE SupersededIsCondemned'
  BY <1>a, <1>18, CalmCondemned DEF ServeEnds, Goto, At, Finish, storeVars
<1>19. CASE Tick
  BY <1>a, <1>19, CalmCondemned DEF Tick, storeVars
<1>20. CASE Restart
  BY <1>20 DEF Restart, SupersededIsCondemned
<1>21. CASE UNCHANGED vars
  BY <1>a, <1>21, CalmCondemned DEF vars, storeVars
<1>22. QED
  BY <1>1, <1>2, <1>3, <1>4, <1>5, <1>6, <1>7, <1>8, <1>9, <1>10, <1>11,
     <1>12, <1>13, <1>14, <1>15, <1>16, <1>17, <1>18, <1>19, <1>20, <1>21
     DEF Next, Callback, Token, Mcp

\* However a lost answer, the requests queued behind it and the deletion of the
\* grant interleave, a stored grant whose refresh token Gitea has replaced has a
\* request at hand that is about to delete it (RefreshGiteaToken, verifyToken).
THEOREM DeadGrantsGo == Spec => []SupersededIsCondemned
<1>1. Init => SupersededIsCondemned
  BY DEF Init, StoreEmpty, SupersededIsCondemned
<1>2. QED
  BY <1>1, StepCondemned, AlwaysYoung, PTL DEF Spec

-----------------------------------------------------------------------------
(* The refinement of GrantSession. *)

\* A grant's stage where successors of different kinds exclude each other.
Line(g) ==
    IF g >= nextGrant THEN "none"
    ELSE IF Requests(g, {"putGrant"}) # {} THEN "login"
    ELSE IF Codes(g) # {} THEN "code"
    ELSE IF Requests(g, Minting) # {} THEN "minting"
    ELSE IF RefreshTokens(g) # {} THEN "session"
    ELSE "ended"

InLine == \A g \in GrantIDs : Stage(g) = Line(g)

LEMMA StageLine == SInv => InLine
<1> SUFFICES ASSUME SInv, NEW g \in GrantIDs PROVE Stage(g) = Line(g)
  BY DEF InLine
<1> DEFINE kinds == {s[1] : s \in Successors(g)}
<1>1. "code" \in kinds <=> Codes(g) # {}
  <2>1. ASSUME NEW x \in Codes(g) PROVE "code" \in kinds
    <3>1. <<"code", x>> \in Successors(g) /\ <<"code", x>>[1] = "code"
      BY DEF Successors
    <3>2. QED
      BY <3>1
  <2>2. ASSUME NEW s \in Successors(g), s[1] = "code" PROVE Codes(g) # {}
    BY <2>2 DEF Successors
  <2>3. QED
    BY <2>1, <2>2
<1>2. "refresh" \in kinds <=> RefreshTokens(g) # {}
  <2>1. ASSUME NEW x \in RefreshTokens(g) PROVE "refresh" \in kinds
    <3>1. <<"refresh", x>> \in Successors(g) /\ <<"refresh", x>>[1] = "refresh"
      BY DEF Successors
    <3>2. QED
      BY <3>1
  <2>2. ASSUME NEW s \in Successors(g), s[1] = "refresh" PROVE RefreshTokens(g) # {}
    BY <2>2 DEF Successors
  <2>3. QED
    BY <2>1, <2>2
<1>3. "request" \in kinds <=> Requests(g, Minting) # {}
  <2>1. ASSUME NEW x \in Requests(g, Minting) PROVE "request" \in kinds
    <3>1. <<"request", x>> \in Successors(g) /\ <<"request", x>>[1] = "request"
      BY DEF Successors
    <3>2. QED
      BY <3>1
  <2>2. ASSUME NEW s \in Successors(g), s[1] = "request" PROVE Requests(g, Minting) # {}
    BY <2>2 DEF Successors
  <2>3. QED
    BY <2>1, <2>2
<1>4. kinds \subseteq {"code", "refresh", "request"}
  BY DEF Successors
<1>5. /\ Codes(g) # {} => RefreshTokens(g) = {} /\ Requests(g, Minting) = {}
      /\ RefreshTokens(g) # {} => Requests(g, Minting) = {}
  BY DEF SInv, Single
<1>6. Stage(g) = IF g >= nextGrant THEN "none"
                 ELSE IF Requests(g, {"putGrant"}) # {} THEN "login"
                 ELSE CASE kinds = {}          -> "ended"
                        [] kinds = {"code"}    -> "code"
                        [] kinds = {"request"} -> "minting"
                        [] kinds = {"refresh"} -> "session"
                        [] OTHER               -> "forked"
  BY DEF Stage
<1> HIDE DEF kinds
<1>7. CASE Codes(g) # {}
  <2>1. kinds = {"code"}
    BY <1>1, <1>2, <1>3, <1>4, <1>5, <1>7
  <2>2. QED
    BY <1>6, <1>7, <2>1 DEF Line
<1>8. CASE Codes(g) = {} /\ Requests(g, Minting) # {}
  <2>1. kinds = {"request"}
    BY <1>1, <1>2, <1>3, <1>4, <1>5, <1>8
  <2>2. QED
    BY <1>6, <1>8, <2>1 DEF Line
<1>9. CASE Codes(g) = {} /\ Requests(g, Minting) = {} /\ RefreshTokens(g) # {}
  <2>1. kinds = {"refresh"}
    BY <1>1, <1>2, <1>3, <1>4, <1>9
  <2>2. QED
    BY <1>6, <1>9, <2>1 DEF Line
<1>10. CASE Codes(g) = {} /\ Requests(g, Minting) = {} /\ RefreshTokens(g) = {}
  <2>1. kinds = {}
    BY <1>1, <1>2, <1>3, <1>4, <1>10
  <2>2. QED
    BY <1>6, <1>10, <2>1 DEF Line
<1>11. QED
  BY <1>7, <1>8, <1>9, <1>10

MayEnd(g) == Line(g)' = Line(g) \/ (Line(g) # "none" /\ Line(g)' = "ended")

\* A step that gives only the grant h something new and takes the callback's last
\* step only for h: every other grant stays where it is or ends.
LEMMA OthersMayEnd ==
  ASSUME SInv, NEW h,
         \A g \in GrantIDs \ {h} : g >= nextGrant' <=> g >= nextGrant,
         \A c \in authCodes' : c \in authCodes \/ c.grantID = h,
         \A t \in tokens' : t.type = "refresh" => t \in tokens \/ t.grantID = h,
         \A p \in Slots : pc'[p] = "putGrant" =>
             \/ loc'[p].grantID = h
             \/ pc[p] = "putGrant" /\ loc'[p].grantID = loc[p].grantID,
         \A p \in Slots : pc[p] = "putGrant" =>
             \/ loc[p].grantID = h
             \/ pc'[p] = "putGrant" /\ loc'[p].grantID = loc[p].grantID,
         \A p \in Slots : pc'[p] \in Minting =>
             \/ loc'[p].grantID = h
             \/ pc[p] \in Minting /\ loc'[p].grantID = loc[p].grantID
  PROVE  \A g \in GrantIDs \ {h} : MayEnd(g)
<1> SUFFICES ASSUME NEW g \in GrantIDs \ {h} PROVE MayEnd(g)
  OBVIOUS
<1>1. /\ Codes(g)' \subseteq Codes(g)
      /\ RefreshTokens(g)' \subseteq RefreshTokens(g)
      /\ Requests(g, Minting)' \subseteq Requests(g, Minting)
  BY DEF Codes, RefreshTokens, Requests, Minting
<1>2. Requests(g, {"putGrant"})' # {} <=> Requests(g, {"putGrant"}) # {}
  BY DEF Requests
<1>3. /\ Codes(g) # {} => RefreshTokens(g) = {} /\ Requests(g, Minting) = {}
      /\ RefreshTokens(g) # {} => Requests(g, Minting) = {}
  BY DEF SInv, Single
<1>4. QED
  BY <1>1, <1>2, <1>3 DEF MayEnd, Line

LEMMA CalmStages ==
  ASSUME SInv, UNCHANGED nextGrant, authCodes' \subseteq authCodes,
         \A t \in tokens' : t.type = "refresh" => t \in tokens,
         \A p \in Slots : pc[p] = "putGrant" \/ pc'[p] = "putGrant" =>
             pc'[p] = pc[p] /\ loc'[p].grantID = loc[p].grantID,
         \A p \in Slots : pc'[p] \in Minting =>
             pc[p] \in Minting /\ loc'[p].grantID = loc[p].grantID
  PROVE  \A g \in GrantIDs : MayEnd(g)
<1>1. 0 \notin GrantIDs
  BY DEF GrantIDs
<1>2. \A g \in GrantIDs \ {0} : MayEnd(g)
  BY OthersMayEnd
<1>3. QED
  BY <1>1, <1>2

LEMMA EndStep ==
  ASSUME InLine, InLine', \A g \in GrantIDs : MayEnd(g)
  PROVE  Session!Next
<1>1. \A g \in GrantIDs : Line(g)' \in Session!Stages
  BY DEF Line, Session!Stages
<1>2. QED
  BY <1>1 DEF InLine, MayEnd, Session!Next, Session!End, Session!Ends

LEMMA AdvanceStep ==
  ASSUME InLine, InLine', NEW h \in GrantIDs,
         \A g \in GrantIDs \ {h} : MayEnd(g),
         <<Line(h), Line(h)'>> \in Session!Moves \/ MayEnd(h)
  PROVE  Session!Next
<1>1. CASE MayEnd(h)
  BY <1>1, EndStep
<1>2. CASE <<Line(h), Line(h)'>> \in Session!Moves
  <2>1. \A g \in GrantIDs : Line(g)' \in Session!Stages
    BY DEF Line, Session!Stages
  <2>2. Session!Advance(h)
    BY <1>2 DEF InLine, MayEnd, Session!Advance, Session!Ends
  <2>3. QED
    BY <2>1, <2>2 DEF InLine, Session!Next
<1>3. QED
  BY <1>1, <1>2

LEMMA StepSession ==
    Known /\ AllYoung /\ InLine /\ InLine' /\ [Next]_vars
        => Session!Next \/ \A g \in GrantIDs : Stage(g)' = Stage(g)
<1> SUFFICES ASSUME TInv, SInv, CInv, AllYoung, InLine, InLine', [Next]_vars
             PROVE  Session!Next \/ \A g \in GrantIDs : Stage(g)' = Stage(g)
  BY DEF Known
<1>a. /\ pc \in [Slots -> Points] /\ loc \in [Slots -> Locals]
      /\ nextGrant \in Nat \ {0}
      /\ authCodes \subseteq AuthCode /\ tokens \subseteq MCPToken
  BY DEF TInv, TypeOK
\* The kinds of successors exclude each other, and a young grant has none.
<1>b. ASSUME NEW g \in GrantIDs
      PROVE  /\ Codes(g) # {} => /\ RefreshTokens(g) = {} /\ Requests(g, Minting) = {}
                                 /\ g < nextGrant
             /\ RefreshTokens(g) # {} => Requests(g, Minting) = {} /\ g < nextGrant
             /\ Requests(g, Minting) # {} => g < nextGrant
  BY <1>a DEF SInv, Single, Undrawn, GrantIDs
<1>1. CASE Authorize
  BY <1>a, <1>1, CalmStages, EndStep DEF Authorize, Minting
<1>2. ASSUME NEW p \in Slots, CallbackState(p)
      PROVE  Session!Next
  BY <1>a, <1>2, CalmStages, EndStep DEF CallbackState, Goto, At, Minting
<1>3. ASSUME NEW p \in Slots, CallbackExchange(p)
      PROVE  Session!Next
  BY <1>a, <1>3, CalmStages, EndStep DEF CallbackExchange, Goto, At, Finish, storeVars, Minting
<1>4. ASSUME NEW p \in Slots, CallbackRejectUser(p)
      PROVE  Session!Next
  BY <1>a, <1>4, CalmStages, EndStep DEF CallbackRejectUser, Goto, At, Finish, storeVars, Minting
<1>5. ASSUME NEW p \in Slots, CallbackAcceptUser(p)
      PROVE  Session!Next
  <2>1. nextGrant \in GrantIDs /\ pc[p] = "userInfo" /\ UNCHANGED tokens
    BY <1>5 DEF CallbackAcceptUser, At, TInv, TypeOK, GrantIDs
  <2>2. CASE Finish(p)
    <3>1. authCodes' \subseteq authCodes /\ UNCHANGED nextGrant
      BY <1>5, <1>a, <2>1, <2>2 DEF CallbackAcceptUser, PutAuthCode, Unexpired, Goto, Finish
    <3>2. QED
      BY <1>a, <2>1, <2>2, <3>1, CalmStages, EndStep DEF Finish, Goto, Minting
  <2>3. CASE ~Finish(p)
    <3>h. PICK h \in GrantIDs : h = nextGrant
      BY <2>1
    <3>1. /\ pc' = [pc EXCEPT ![p] = "putGrant"]
          /\ loc' = [loc EXCEPT ![p] = [loc[p] EXCEPT !.grantID = h]]
          /\ nextGrant' = h + 1
          /\ \A c \in authCodes' : c \in authCodes \/ c.grantID = h
      BY <1>5, <1>a, <2>3, <3>h DEF CallbackAcceptUser, PutAuthCode, Unexpired, Goto
    <3>2. loc'[p].grantID = h
      BY <1>a, <3>1 DEF Locals
    <3>3. \A g \in GrantIDs \ {h} : MayEnd(g)
      BY <1>a, <2>1, <3>h, <3>1, <3>2, OthersMayEnd DEF GrantIDs, Minting
    <3>4. Requests(h, {"putGrant"})' # {}
      BY <1>a, <3>1, <3>2 DEF Requests
    <3>5. Line(h) = "none" /\ Line(h)' = "login"
      BY <1>a, <3>h, <3>1, <3>4 DEF Line, GrantIDs
    <3>6. QED
      BY <3>3, <3>5, AdvanceStep DEF Session!Moves
  <2>4. QED
    BY <2>2, <2>3
<1>6. ASSUME NEW p \in Slots, CallbackPutGrant(p)
      PROVE  Session!Next
  <2>h. PICK h \in GrantIDs : h = loc[p].grantID
    BY <1>6 DEF CallbackPutGrant, At, TInv, LocalsOK, LocalOK
  <2>1. /\ pc[p] = "putGrant" /\ UNCHANGED <<tokens, authCodes, nextGrant>>
        /\ pc' = [pc EXCEPT ![p] = "idle"] /\ loc' = [loc EXCEPT ![p] = NoLocals]
    BY <1>6 DEF CallbackPutGrant, At, Finish, Goto
  <2>2. p \in Requests(h, {"putGrant"})
    BY <2>h, <2>1 DEF Requests
  <2>3. \A g \in GrantIDs \ {h} : MayEnd(g)
    BY <1>a, <2>h, <2>1, OthersMayEnd DEF Minting
  <2>4. Line(h) = "login"
    BY <1>a, <2>2 DEF Line, CInv, GrantOK, Unborn
  <2>5. Requests(h, {"putGrant"})' = {}
    BY <1>a, <2>1, <2>2 DEF Requests, CInv, GrantOK, Unstored
  <2>6. Requests(h, Minting)' = {} /\ RefreshTokens(h)' = {}
    BY <1>a, <2>1, <2>2 DEF AllYoung, Young, Requests, RefreshTokens, Minting
  <2>7. Line(h)' \in {"code", "ended"}
    BY <2>1, <2>4, <2>5, <2>6 DEF Line
  <2>8. QED
    BY <2>3, <2>4, <2>7, AdvanceStep DEF MayEnd, Session!Moves
<1>7. ASSUME NEW p \in Slots, RedeemCode(p)
      PROVE  Session!Next
  <2>1. PICK c \in authCodes :
           /\ c.grantID \in codesSent
           /\ authCodes' = authCodes \ {c}
           /\ \/ UNCHANGED <<pc, loc>>
              \/ /\ pc' = [pc EXCEPT ![p] = "getGrant"]
                 /\ loc'[p].grantID = c.grantID
                 /\ \A q \in Slots \ {p} : loc'[q] = loc[q]
    <3>1. PICK c \in authCodes, client \in Clients,
               uri \in RedirectURIs \cup {None},
               verifier \in Challenges \cup {None}, ok \in BOOLEAN :
             /\ c.grantID \in codesSent
             /\ ConsumeAuthCode(c, ok)
             /\ IF /\ ok
                   /\ c.clientID = client
                   /\ c.redirectURI = uri
                   /\ c.codeChallenge = verifier
                THEN /\ Goto(p, "getGrant",
                             [NoLocals EXCEPT !.clientID = client, !.via = "code",
                                              !.grantID = c.grantID,
                                              !.pair = nextPair])
                     /\ nextPair' = nextPair + 1
                ELSE UNCHANGED <<pc, loc, nextPair>>
      BY <1>7, Zenon DEF RedeemCode
    <3>2. QED
      BY <1>a, <3>1 DEF ConsumeAuthCode, Goto, NoLocals
  <2>h. PICK h \in GrantIDs : h = c.grantID
    BY <1>a DEF AuthCode
  <2>2. UNCHANGED <<tokens, nextGrant>> /\ pc[p] = "idle"
    BY <1>7 DEF RedeemCode, At
  <2>3. \A g \in GrantIDs \ {h} : MayEnd(g)
    BY <1>a, <2>h, <2>1, <2>2, OthersMayEnd DEF Minting
  <2>4. Requests(h, {"putGrant"}) = {} /\ Codes(h) # {}
    BY <2>h, <2>1, NotYoung DEF Codes
  <2>5. Line(h) = "code"
    BY <1>a, <1>b, <2>4 DEF Line, GrantIDs
  <2>6. Requests(h, {"putGrant"})' = {}
    BY <1>a, <2>1, <2>4, StillOld
  <2>7. Codes(h)' = {} /\ RefreshTokens(h)' = {}
    BY <1>b, <2>h, <2>1, <2>2, <2>4 DEF SInv, Single, Codes, RefreshTokens
  <2>8. Line(h)' \in {"minting", "ended"}
    BY <2>2, <2>5, <2>6, <2>7 DEF Line
  <2>9. QED
    BY <2>3, <2>5, <2>8, AdvanceStep DEF MayEnd, Session!Moves
<1>8. ASSUME NEW p \in Slots, RotateRefreshToken(p)
      PROVE  Session!Next
  <2>1. PICK t \in tokens :
           /\ t.type = "refresh"
           /\ tokens' = tokens \ {t}
           /\ \/ UNCHANGED <<pc, loc>>
              \/ /\ pc' = [pc EXCEPT ![p] = "getGrant"]
                 /\ loc'[p].grantID = t.grantID
                 /\ \A q \in Slots \ {p} : loc'[q] = loc[q]
    <3>1. PICK t \in tokens, client \in Clients, ok \in BOOLEAN :
             /\ t.pair \in pairsSent
             /\ ConsumeMCPRefreshToken(t, client, ok)
             /\ IF ok
                THEN /\ Goto(p, "getGrant",
                             [NoLocals EXCEPT !.clientID = client,
                                              !.via = "refresh",
                                              !.grantID = t.grantID,
                                              !.pair = nextPair])
                     /\ nextPair' = nextPair + 1
                ELSE UNCHANGED <<pc, loc, nextPair>>
      BY <1>8, Zenon DEF RotateRefreshToken
    <3>2. QED
      BY <1>a, <3>1 DEF ConsumeMCPRefreshToken, Goto, NoLocals
  <2>h. PICK h \in GrantIDs : h = t.grantID
    BY <1>a DEF MCPToken
  <2>2. UNCHANGED <<authCodes, nextGrant>> /\ pc[p] = "idle"
    BY <1>8 DEF RotateRefreshToken, At
  <2>3. \A g \in GrantIDs \ {h} : MayEnd(g)
    BY <1>a, <2>h, <2>1, <2>2, OthersMayEnd DEF Minting
  <2>4. /\ Requests(h, {"putGrant"}) = {} /\ RefreshTokens(h) # {}
        /\ Codes(h) = {} /\ Requests(h, Minting) = {}
    BY <1>b, <2>h, <2>1, NotYoung DEF RefreshTokens
  <2>5. Line(h) = "session"
    BY <1>a, <1>b, <2>4 DEF Line, GrantIDs
  <2>6. Requests(h, {"putGrant"})' = {}
    BY <1>a, <2>1, <2>4, StillOld
  <2>7. Codes(h)' = {} /\ RefreshTokens(h)' = {}
    BY <2>h, <2>1, <2>2, <2>4 DEF SInv, Single, Codes, RefreshTokens
  <2>8. Line(h)' \in {"minting", "ended"}
    BY <2>2, <2>5, <2>6, <2>7 DEF Line
  <2>9. QED
    BY <2>3, <2>5, <2>8, AdvanceStep DEF MayEnd, Session!Moves
<1>9. ASSUME NEW p \in Slots, TokenGetGrant(p)
      PROVE  Session!Next
  BY <1>a, <1>9, CalmStages, EndStep DEF TokenGetGrant, Goto, At, Finish, storeVars, Minting
<1>10. ASSUME NEW p \in Slots, TokenPutAccess(p)
       PROVE  Session!Next
  BY <1>a, <1>10, CalmStages, EndStep DEF TokenPutAccess, PutMCPToken, Goto, At, Locals, Minting
<1>11. ASSUME NEW p \in Slots, TokenPutRefresh(p)
       PROVE  Session!Next
  <2>1. /\ pc[p] = "putRefresh" /\ UNCHANGED <<authCodes, nextGrant>>
        /\ tokens' = tokens \cup
               {[pair |-> loc[p].pair, type |-> "refresh",
                 grantID |-> loc[p].grantID, clientID |-> loc[p].clientID,
                 expiresAt |-> loc[p].expiresAt]}
        /\ pc' = [pc EXCEPT ![p] = "idle"] /\ loc' = [loc EXCEPT ![p] = NoLocals]
    BY <1>11 DEF TokenPutRefresh, PutMCPToken, At, Finish, Goto
  <2>h. PICK h \in GrantIDs : h = loc[p].grantID
    BY <2>1 DEF TInv, LocalsOK, LocalOK
  <2>2. p \in Requests(h, Minting)
    BY <2>h, <2>1 DEF Requests, Minting
  <2>3. \A g \in GrantIDs \ {h} : MayEnd(g)
    BY <1>a, <2>h, <2>1, OthersMayEnd DEF Minting
  <2>4. Requests(h, {"putGrant"}) = {} /\ Codes(h) = {}
    BY <1>b, <2>2, NotYoung
  <2>5. Line(h) = "minting"
    BY <1>a, <1>b, <2>2, <2>4 DEF Line, GrantIDs
  <2>6. Requests(h, {"putGrant"})' = {}
    BY <1>a, <2>1, <2>4, StillOld
  <2>7. Codes(h)' = {} /\ RefreshTokens(h)' # {}
    <3> DEFINE t == [pair |-> loc[p].pair, type |-> "refresh",
                     grantID |-> loc[p].grantID, clientID |-> loc[p].clientID,
                     expiresAt |-> loc[p].expiresAt]
    <3>1. t \in tokens' /\ t.type = "refresh" /\ t.grantID = h
      BY <2>h, <2>1
    <3> HIDE DEF t
    <3>2. QED
      BY <2>1, <2>4, <3>1 DEF Codes, RefreshTokens
  <2>8. Requests(h, Minting)' = {}
    BY <1>a, <2>1, <2>2 DEF SInv, Single, Requests, Minting
  <2>9. Line(h)' = "session"
    BY <1>a, <1>b, <2>1, <2>2, <2>6, <2>7, <2>8 DEF Line, GrantIDs
  <2>10. QED
    BY <2>3, <2>5, <2>9, AdvanceStep DEF Session!Moves
<1>12. ASSUME NEW p \in Slots, BearerToken(p)
       PROVE  Session!Next
  BY <1>a, <1>12, CalmStages, EndStep DEF BearerToken, GetMCPToken, Goto, At, Minting
<1>13. ASSUME NEW p \in Slots, BearerGrant(p)
       PROVE  Session!Next
  BY <1>a, <1>13, CalmStages, EndStep DEF BearerGrant, Goto, At, Finish, storeVars, Minting
<1>14. ASSUME NEW p \in Slots, LockGrant(p)
       PROVE  Session!Next
  BY <1>a, <1>14, CalmStages, EndStep DEF LockGrant, Serve, Goto, At, Finish, storeVars, Minting
<1>15. ASSUME NEW p \in Slots, RefreshSucceeds(p)
       PROVE  Session!Next
  BY <1>a, <1>15, CalmStages, EndStep DEF RefreshSucceeds, Serve, Goto, At, Finish, storeVars, Minting
<1>16. ASSUME NEW p \in Slots, RefreshFails(p)
       PROVE  Session!Next
  BY <1>a, <1>16, CalmStages, EndStep DEF RefreshFails, Goto, At, storeVars, Minting
<1>17. ASSUME NEW p \in Slots, RefreshDeleteGrant(p)
       PROVE  Session!Next
  BY <1>a, <1>17, CalmStages, EndStep DEF RefreshDeleteGrant, DeleteGrant, Goto, At, Finish, Minting
<1>18. ASSUME NEW p \in Slots, ServeEnds(p)
       PROVE  Session!Next
  BY <1>a, <1>18, CalmStages, EndStep DEF ServeEnds, Goto, At, Finish, storeVars, Minting
<1>19. CASE Tick
  BY <1>a, <1>19, CalmStages, EndStep DEF Tick, storeVars, Minting
<1>20. CASE Restart
  <2>1. ASSUME NEW g \in GrantIDs PROVE MayEnd(g)
    BY <1>20 DEF Restart, MayEnd, Line, Requests, Codes, RefreshTokens, Minting
  <2>2. QED
    BY <2>1, EndStep
<1>21. CASE UNCHANGED vars
  <2>1. ASSUME NEW g \in GrantIDs PROVE Line(g)' = Line(g)
    BY <1>21 DEF vars, storeVars, Line, Requests, Codes, RefreshTokens
  <2>2. QED
    BY <2>1 DEF InLine
<1>22. QED
  BY <1>1, <1>2, <1>3, <1>4, <1>5, <1>6, <1>7, <1>8, <1>9, <1>10, <1>11,
     <1>12, <1>13, <1>14, <1>15, <1>16, <1>17, <1>18, <1>19, <1>20, <1>21
     DEF Next, Callback, Token, Mcp

\* The handlers and the middleware together implement GrantSession: however many
\* requests interleave, retry, fail or are lost to a restart, a grant only moves
\* along the line of stages, and one that ended stays ended.
THEOREM ImplementsSession == Spec => SessionSpec
<1>1. Init => Session!Init
  <2>1. ASSUME Init, NEW g \in GrantIDs PROVE Stage(g) = "none"
    <3>1. g >= nextGrant
      BY <2>1 DEF Init, GrantIDs
    <3>2. QED
      BY <3>1 DEF Stage
  <2>2. QED
    BY <2>1 DEF Session!Init
<1>2. Known => InLine
  BY StageLine DEF Known
<1>3. Known /\ AllYoung /\ InLine /\ InLine' /\ [Next]_vars
          => [Session!Next]_([g \in GrantIDs |-> Stage(g)])
  BY StepSession
<1>4. QED
  BY <1>1, <1>2, <1>3, AlwaysYoung, PTL DEF Spec, SessionSpec, Session!Spec

=============================================================================
