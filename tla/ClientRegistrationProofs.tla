---------------------- MODULE ClientRegistrationProofs ----------------------
(***************************************************************************)
(* Proofs about ClientRegistration, for any URIs, allowlists, key files    *)
(* and number of registrations and restarts.                               *)
(***************************************************************************)
EXTENDS ClientRegistration, TLAPS

\* What a parsed key is.
LEMMA ParsedKey ==
    ASSUME NEW f \in KeyFiles
    PROVE  parseSigningKey(f) \in Key \cup {None}
<1>1. f \in KeyFileType
  BY RegistrationAssumption
<1> QED BY <1>1 DEF parseSigningKey, KeyFileType, Key

\* White space at the end of the file does not change the key: the file gives
\* the same key or none.  Base64 takes more than 32 bytes for 32.
LEMMA NewlineHarmless ==
    ASSUME NEW f \in KeyFiles, NEW g \in KeyFiles, SameKeyText(f, g),
           parseSigningKey(f) # None, parseSigningKey(g) # None
    PROVE  parseSigningKey(f) = parseSigningKey(g)
<1>1. /\ f \in KeyFileType /\ g \in KeyFileType
      /\ 4 * f.decodes <= 3 * f.core /\ 4 * g.decodes <= 3 * g.core
  BY RegistrationAssumption
<1>2. /\ f.text = g.text /\ f.lead = g.lead /\ f.core = g.core
      /\ f.decodes = g.decodes
  BY <1>1 DEF SameKeyText, KeyFileType
<1>3. /\ f.lead \in Nat /\ f.core \in Nat /\ f.tail \in Nat /\ f.decodes \in Nat
      /\ g.tail \in Nat
  BY <1>1 DEF KeyFileType
<1>4. CASE f.lead + f.core + f.tail = 32
  <2>1. f.decodes # 32
    BY <1>1, <1>3, <1>4
  <2>2. CASE g.lead + g.core + g.tail = 32
    <3>1. f.tail = g.tail
      BY <1>2, <1>3, <1>4, <2>2
    <3> QED BY <1>2, <1>4, <2>2, <3>1 DEF parseSigningKey
  <2>3. CASE g.lead + g.core + g.tail # 32
    <3>1. f.core = 32
      BY <1>2, <2>1, <2>3 DEF parseSigningKey
    <3>2. f.lead = 0 /\ f.tail = 0
      BY <1>3, <1>4, <3>1
    <3> QED BY <1>2, <1>4, <2>1, <2>3, <3>1, <3>2 DEF parseSigningKey
  <2> QED BY <2>2, <2>3
<1>5. CASE f.lead + f.core + f.tail # 32
  <2>1. CASE f.decodes = 32
    <3>1. g.lead + g.core + g.tail # 32
      BY <1>1, <1>2, <1>3, <2>1
    <3> QED BY <1>2, <1>5, <2>1, <3>1 DEF parseSigningKey
  <2>2. CASE f.decodes # 32
    <3>1. f.core = 32
      BY <1>5, <2>2 DEF parseSigningKey
    <3>2. CASE g.lead + g.core + g.tail = 32
      <4>1. g.lead = 0 /\ g.tail = 0
        BY <1>2, <1>3, <3>1, <3>2
      <4> QED BY <1>2, <1>5, <2>2, <3>1, <3>2, <4>1 DEF parseSigningKey
    <3>3. CASE g.lead + g.core + g.tail # 32
      BY <1>2, <1>5, <2>2, <3>1, <3>3 DEF parseSigningKey
    <3> QED BY <3>2, <3>3
  <2> QED BY <2>1, <2>2
<1> QED BY <1>4, <1>5

-----------------------------------------------------------------------------
(* The inductive invariant.                                                 *)

\* A running server uses the key of the file that it read.
KeyRead ==
    /\ file \in KeyFiles
    /\ key = None \/ key = parseSigningKey(file)
    /\ up => key # None

\* What ties a registration to the server that issued it.
IssuedBy(r) ==
    /\ r.file \in KeyFiles /\ r.key # None /\ r.key = parseSigningKey(r.file)
    /\ r.id.payload.uris = r.uris /\ r.id.payload.method = r.method
    /\ r.id.mac = [key |-> r.key, payload |-> r.id.payload]
    /\ r.uris \subseteq r.allowed \cap Https
    /\ r.secret = IF r.method = "none" THEN None ELSE [key |-> r.key, id |-> r.id]

RInv ==
    /\ TypeOK
    /\ KeyRead
    /\ \A r \in issued : IssuedBy(r)

\* A registration is a pair of a payload and its signature.
LEMMA IssuedID ==
    ASSUME TypeOK, NEW r \in issued
    PROVE  r.id = [payload |-> r.id.payload, mac |-> r.id.mac]
<1>1. r.id \in ClientID
  BY DEF TypeOK, Registered
<1> QED BY <1>1 DEF ClientID

\* An ID that a client puts together and that verifies was issued, and under
\* the key in use.
LEMMA VerifiedWasIssued ==
    ASSUME RInv, NEW id \in Presentable, VerifyClientID(key, id)
    PROVE  \E r \in issued : r.id = id /\ r.key = key
<1>1. PICK p \in [uris : SUBSET RedirectURIs, method : Methods, iat : 0..MaxTime],
           r \in issued : id = [payload |-> p, mac |-> r.id.mac]
  BY DEF Presentable
<1>2. r.id.mac = [key |-> r.key, payload |-> r.id.payload]
  BY DEF RInv, IssuedBy
<1>3. r.id.mac = [key |-> key, payload |-> p]
  BY <1>1 DEF VerifyClientID
<1>4. r.key = key /\ r.id.payload = p
  BY <1>2, <1>3
<1>5. r.id = id
  BY <1>1, <1>4, IssuedID DEF RInv
<1> QED BY <1>4, <1>5

\* The answer to a registration is of its type.
LEMMA AnswerTyped ==
    ASSUME RInv, NEW uris \in SUBSET RedirectURIs, NEW m \in Advertised \cup {None},
           Register(uris, m)
    PROVE  \E r \in Registered : issued' = issued \cup {r} /\ IssuedBy(r)
<1> DEFINE method == AuthMethod(m)
           payload == [uris |-> uris, method |-> method, iat |-> now]
           id == SignClientID(key, payload)
           secret == IF method = "none" THEN None ELSE ComputeClientSecret(key, id)
           r == [id |-> id, method |-> method, uris |-> uris, secret |-> secret,
                 file |-> file, key |-> key, allowed |-> allowed]
<1>1. /\ up /\ method \in Methods /\ uris \subseteq allowed \cap Https
      /\ issued' = issued \cup {r}
  BY DEF Register, ValidateRedirectURIs
<1>2. key \in Key /\ file \in KeyFiles /\ now \in Nat /\ allowed \subseteq RedirectURIs
  BY <1>1 DEF RInv, TypeOK
<1>3. payload \in Payload
  BY <1>1, <1>2 DEF Payload
<1>4. id \in ClientID
  BY <1>2, <1>3 DEF SignClientID, ClientID
<1>5. secret \in Secret \cup {None}
  BY <1>2, <1>4 DEF ComputeClientSecret, Secret
<1>6. r \in Registered
  BY <1>1, <1>2, <1>4, <1>5 DEF Registered
<1>7. key # None /\ key = parseSigningKey(file)
  BY <1>1 DEF RInv, KeyRead
<1>8. id.payload = payload /\ id.mac = [key |-> key, payload |-> payload]
  BY DEF SignClientID
<1>9. IssuedBy(r)
  BY <1>1, <1>2, <1>7, <1>8 DEF IssuedBy, ComputeClientSecret
<1> QED BY <1>1, <1>6, <1>9

LEMMA RInvInit == Init => RInv
<1> SUFFICES ASSUME Init PROVE RInv
  OBVIOUS
<1>1. TypeOK
  BY DEF Init, TypeOK
<1>2. KeyRead
  BY DEF Init, KeyRead
<1>3. \A r \in issued : IssuedBy(r)
  BY DEF Init
<1> QED BY <1>1, <1>2, <1>3 DEF RInv

LEMMA RInvNext ==
    ASSUME RInv, [Next]_vars
    PROVE  RInv'
<1>1. ASSUME NEW f \in KeyFiles, NEW s \in Settings, Restart(f, s)
      PROVE  RInv'
  <2>1. parseSigningKey(f) \in Key \cup {None}
    BY ParsedKey
  <2>2. Allowlist(s) \subseteq RedirectURIs
    BY RegistrationAssumption DEF Allowlist
  <2>3. TypeOK'
    BY <1>1, <2>1, <2>2 DEF Restart, RInv, TypeOK
  <2>4. KeyRead'
    BY <1>1 DEF Restart, KeyRead
  <2>5. \A r \in issued' : IssuedBy(r)
    BY <1>1 DEF Restart, RInv
  <2> QED BY <2>3, <2>4, <2>5 DEF RInv, IssuedBy
<1>2. ASSUME NEW uris \in SUBSET RedirectURIs, NEW m \in Advertised \cup {None},
             Register(uris, m)
      PROVE  RInv'
  <2>1. PICK r \in Registered : issued' = issued \cup {r} /\ IssuedBy(r)
    BY <1>2, AnswerTyped
  <2>2. UNCHANGED <<up, file, key, allowed, now>> /\ reply' = None
    BY <1>2 DEF Register
  <2>3. TypeOK'
    BY <2>1, <2>2 DEF RInv, TypeOK
  <2>4. KeyRead'
    BY <2>2 DEF RInv, KeyRead
  <2>5. \A q \in issued' : IssuedBy(q)
    BY <2>1 DEF RInv
  <2> QED BY <2>3, <2>4, <2>5 DEF RInv, IssuedBy
<1>3. ASSUME NEW id \in Presentable, NEW uri \in RedirectURIs, Authorize(id, uri)
      PROVE  RInv'
  <2>1. UNCHANGED <<up, file, key, allowed, now, issued>>
        /\ reply' = [id |-> id, uri |-> uri, secret |-> None, basic |-> FALSE]
    BY <1>3 DEF Authorize
  <2>2. id \in ClientID
    <3>1. PICK r \in issued : r.id = id
      BY <1>3, VerifiedWasIssued DEF Authorize, Redirects
    <3> QED BY <3>1 DEF RInv, TypeOK, Registered
  <2>3. reply' \in Passed
    BY <2>1, <2>2 DEF Passed
  <2> QED BY <2>1, <2>3 DEF RInv, TypeOK, KeyRead, IssuedBy
<1>4. ASSUME NEW id \in Presentable, NEW s \in Secrets, NEW basic \in BOOLEAN,
             Token(id, s, basic)
      PROVE  RInv'
  <2>1. UNCHANGED <<up, file, key, allowed, now, issued>>
        /\ reply' = [id |-> id, uri |-> None, secret |-> s, basic |-> basic]
    BY <1>4 DEF Token
  <2>2. id \in ClientID
    <3>1. PICK r \in issued : r.id = id
      BY <1>4, VerifiedWasIssued DEF Token, Authenticates
    <3> QED BY <3>1 DEF RInv, TypeOK, Registered
  <2>3. s \in Secret \cup {None}
    BY DEF Secrets, RInv, TypeOK, Registered
  <2>4. reply' \in Passed
    BY <2>1, <2>2, <2>3 DEF Passed
  <2> QED BY <2>1, <2>4 DEF RInv, TypeOK, KeyRead, IssuedBy
<1>5. CASE Tick
  BY <1>5 DEF Tick, RInv, TypeOK, KeyRead, IssuedBy
<1>6. CASE UNCHANGED vars
  BY <1>6 DEF vars, RInv, TypeOK, KeyRead, IssuedBy
<1> QED BY <1>1, <1>2, <1>3, <1>4, <1>5, <1>6 DEF Next

\* Every variable keeps its type; RInv is inductive.
THEOREM TypeCorrect == Spec => []TypeOK
<1>1. Spec => []RInv
  BY RInvInit, RInvNext, PTL DEF Spec
<1>2. RInv => TypeOK
  BY DEF RInv
<1> QED BY <1>1, <1>2, PTL

\* A registration outlives restarts with the same key text, whatever becomes
\* of the allowlist and of white space at the end of the key file.
THEOREM RegistrationsLast == Spec => []RegistrationsUsable
<1>1. RInv => RegistrationsUsable
  <2> SUFFICES ASSUME RInv, up, NEW r \in issued, SameKeyText(r.file, file)
               PROVE  /\ \A uri \in r.uris : Redirects(r.id, uri)
                      /\ Authenticates(r.id, r.secret, r.method = "client_secret_basic")
    BY DEF RegistrationsUsable
  <2>1. IssuedBy(r) /\ KeyRead
    BY DEF RInv
  <2>2. r.key = key
    BY <2>1, NewlineHarmless DEF IssuedBy, KeyRead
  <2>3. VerifyClientID(key, r.id)
    BY <2>1, <2>2 DEF IssuedBy, VerifyClientID
  <2>4. \A uri \in r.uris : Redirects(r.id, uri)
    BY <2>1, <2>3 DEF IssuedBy, Redirects
  <2>5. Authenticates(r.id, r.secret, r.method = "client_secret_basic")
    BY <2>1, <2>2, <2>3 DEF IssuedBy, Authenticates, ComputeClientSecret
  <2> QED BY <2>4, <2>5
<1>2. Spec => []RInv
  BY RInvInit, RInvNext, PTL DEF Spec
<1> QED BY <1>1, <1>2, PTL

-----------------------------------------------------------------------------
(* What passes the client checks.                                           *)

Vetted == AcceptedWasIssued /\ RedirectsVetted /\ SecretNeeded

LEMMA VettedKept ==
    ASSUME RInv, RInv', Vetted, [Next]_vars
    PROVE  Vetted'
<1>1. CASE reply' = None
  BY <1>1 DEF Vetted, AcceptedWasIssued, RedirectsVetted, SecretNeeded
<1>2. CASE UNCHANGED <<key, issued, reply>>
  BY <1>2 DEF Vetted, AcceptedWasIssued, RedirectsVetted, SecretNeeded
<1>3. ASSUME NEW id \in Presentable, NEW uri \in RedirectURIs, Authorize(id, uri)
      PROVE  Vetted'
  <2>1. /\ issued' = issued /\ key' = key
        /\ reply' = [id |-> id, uri |-> uri, secret |-> None, basic |-> FALSE]
        /\ VerifyClientID(key, id) /\ uri \in id.payload.uris
    BY <1>3 DEF Authorize, Redirects
  <2>2. PICK r \in issued : r.id = id /\ r.key = key
    BY <2>1, VerifiedWasIssued
  <2>3. uri \in r.allowed \cap Https
    BY <2>1, <2>2 DEF RInv, IssuedBy
  <2>4. reply'.id = id /\ reply'.uri = uri /\ uri # None
    BY <2>1, RegistrationAssumption
  <2> QED BY <2>1, <2>2, <2>3, <2>4 DEF Vetted, AcceptedWasIssued, RedirectsVetted, SecretNeeded
<1>4. ASSUME NEW id \in Presentable, NEW s \in Secrets, NEW basic \in BOOLEAN,
             Token(id, s, basic)
      PROVE  Vetted'
  <2>1. /\ issued' = issued /\ key' = key
        /\ reply' = [id |-> id, uri |-> None, secret |-> s, basic |-> basic]
        /\ Authenticates(id, s, basic)
    BY <1>4 DEF Token
  <2>2. PICK r \in issued : r.id = id /\ r.key = key
    BY <2>1, VerifiedWasIssued DEF Authenticates
  <2>3. r.secret = s /\ r.method = id.payload.method
    <3>1. /\ r.id.payload.method = r.method
          /\ r.secret = IF r.method = "none" THEN None ELSE [key |-> r.key, id |-> r.id]
      BY <2>2 DEF RInv, IssuedBy
    <3>2. s = IF id.payload.method = "none" THEN None ELSE [key |-> key, id |-> id]
      BY <2>1 DEF Authenticates, ComputeClientSecret
    <3>3. r.method = id.payload.method
      BY <2>2, <3>1
    <3> QED BY <2>2, <3>1, <3>2, <3>3
  <2>4. basic = (r.method = "client_secret_basic")
    BY <2>1, <2>3 DEF Authenticates
  <2>5. reply'.id = id /\ reply'.uri = None /\ reply'.secret = s /\ reply'.basic = basic
    BY <2>1
  <2> QED BY <2>1, <2>2, <2>3, <2>4, <2>5 DEF Vetted, AcceptedWasIssued, RedirectsVetted, SecretNeeded
<1>5. CASE \/ \E f \in KeyFiles, s \in Settings : Restart(f, s)
           \/ \E uris \in SUBSET RedirectURIs, m \in Advertised \cup {None} : Register(uris, m)
  BY <1>1, <1>5 DEF Restart, Register
<1>6. CASE Tick \/ UNCHANGED vars
  BY <1>2, <1>6 DEF Tick, vars
<1> QED BY <1>3, <1>4, <1>5, <1>6 DEF Next

LEMMA AlwaysVetted == Spec => []Vetted
<1>1. Init => Vetted
  BY DEF Init, Vetted, AcceptedWasIssued, RedirectsVetted, SecretNeeded
<1> QED BY <1>1, RInvInit, RInvNext, VettedKept, PTL DEF Spec

\* A changed payload, and a registration under another key, pass nowhere.
THEOREM OnlyIssuedPass == Spec => []AcceptedWasIssued
<1>1. Vetted => AcceptedWasIssued
  BY DEF Vetted
<1> QED BY <1>1, AlwaysVetted, PTL

\* Whatever becomes of the list, browsers go only where it once allowed.
THEOREM OnlyVettedRedirects == Spec => []RedirectsVetted
<1>1. Vetted => RedirectsVetted
  BY DEF Vetted
<1> QED BY <1>1, AlwaysVetted, PTL

\* No client authenticates without its own secret.
THEOREM OnlyOwnSecret == Spec => []SecretNeeded
<1>1. Vetted => SecretNeeded
  BY DEF Vetted
<1> QED BY <1>1, AlwaysVetted, PTL

=============================================================================
