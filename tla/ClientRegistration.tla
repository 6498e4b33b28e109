------------------------- MODULE ClientRegistration -------------------------
(***************************************************************************)
(* Dynamic client registration and what it is good for (pkg/oauth:         *)
(* register.go, client.go, the client checks of authorize.go and token.go) *)
(* over restarts of the server with another signing key or allowlist.      *)
(*                                                                         *)
(* Nothing about a client is stored: its ID carries its redirect URIs and  *)
(* its authentication method under an HMAC, and its secret is an HMAC of   *)
(* the ID.  Codes of authentication are perfect here: one is the record of *)
(* the key and of what it covers.  The environment is clients, which       *)
(* present any payload under any code they have seen, and the operator,    *)
(* who edits the key file and the allowlist and recreates the container.   *)
(***************************************************************************)
EXTENDS Integers, FiniteSets

CONSTANTS
    RedirectURIs,
    Https,                 \* those that are absolute https:// URLs
    DefaultRedirectURIs,
    Settings,              \* values of --oauth-allowed-redirect-uris
    Unset,                 \* the setting that is not given
    KeyFiles,              \* contents of the signing key file
    None,                  \* a missing value
    MaxRegistrations, MaxTime      \* bounds

Methods == {"none", "client_secret_post", "client_secret_basic"}

\* The key file: lead and tail bytes of white space around core bytes, which
\* decode from base64 to so many bytes, or do not (0).  text is their value.
KeyFileType == [text : STRING, lead : Nat, core : Nat, tail : Nat, decodes : Nat]

\* A key of 32 bytes: text with the white space that belongs to it, or what
\* text decodes to.
Key == [text : STRING, decoded : BOOLEAN, lead : Nat, tail : Nat]
Payload == [uris : SUBSET RedirectURIs, method : Methods, iat : Nat]
ClientID == [payload : Payload, mac : [key : Key, payload : Payload]]
Secret == [key : Key, id : ClientID]

ASSUME RegistrationAssumption ==
    /\ Https \subseteq RedirectURIs /\ DefaultRedirectURIs \subseteq RedirectURIs
    /\ Settings \ {Unset} \subseteq SUBSET RedirectURIs
    /\ KeyFiles \subseteq KeyFileType
    /\ \A f \in KeyFiles : 4 * f.decodes <= 3 * f.core
    /\ None \notin RedirectURIs \cup Key \cup Secret
    /\ MaxRegistrations \in Nat /\ MaxTime \in Nat

VARIABLES
    up,        \* the server runs
    file,      \* the key file as the server last read it
    key,       \* flag.OAuthSigningKey
    allowed,   \* flag.OAuthAllowedRedirectURIs
    now,       \* the clock, in seconds
    issued,    \* the answers to registrations, each with what it was decided by
    reply      \* the last request: one that passed its client checks, or None

vars == <<up, file, key, allowed, now, issued, reply>>

Registered ==
    [id : ClientID, secret : Secret \cup {None}, method : Methods,
     uris : SUBSET RedirectURIs,
     file : KeyFiles, key : Key, allowed : SUBSET RedirectURIs]
Passed ==
    [id : ClientID, uri : RedirectURIs \cup {None}, secret : Secret \cup {None},
     basic : BOOLEAN]

TypeOK ==
    /\ up \in BOOLEAN
    /\ file \in KeyFiles
    /\ key \in Key \cup {None}
    /\ up => key \in Key
    /\ allowed \subseteq RedirectURIs
    /\ now \in Nat
    /\ issued \subseteq Registered
    /\ reply \in Passed \cup {None}

-----------------------------------------------------------------------------
(* Start-up.                                                                *)

\* Defect: a file of at least 32 bytes is taken as it is.
WholeFile(f) ==
    IF f.lead + f.core + f.tail >= 32
    THEN [text |-> f.text, decoded |-> FALSE, lead |-> f.lead, tail |-> f.tail]
    ELSE None

parseSigningKey(f) ==
    CASE f.lead + f.core + f.tail = 32 ->
            [text |-> f.text, decoded |-> FALSE, lead |-> f.lead, tail |-> f.tail]
      [] f.decodes = 32 -> [text |-> f.text, decoded |-> TRUE, lead |-> 0, tail |-> 0]
      [] f.core = 32 -> [text |-> f.text, decoded |-> FALSE, lead |-> 0, tail |-> 0]
      [] OTHER -> None

\* The built-in list stands in for a list that is not given, not for one
\* without entries.
Allowlist(setting) == IF setting = Unset THEN DefaultRedirectURIs ELSE setting

Init ==
    /\ up = FALSE
    /\ file \in KeyFiles
    /\ key = None /\ allowed = {}
    /\ now = 0
    /\ issued = {} /\ reply = None

\* Defect: a key that cannot be parsed does not stop the server.
StartsAnyway(f, setting) ==
    /\ file' = f
    /\ key' = parseSigningKey(f)
    /\ up' = TRUE
    /\ allowed' = Allowlist(setting)
    /\ reply' = None
    /\ UNCHANGED <<now, issued>>

\* The operator recreates the container; without a key it exits at once.
Restart(f, setting) ==
    /\ file' = f
    /\ key' = parseSigningKey(f)
    /\ up' = (key' # None)
    /\ allowed' = Allowlist(setting)
    /\ reply' = None
    /\ UNCHANGED <<now, issued>>

-----------------------------------------------------------------------------
(* client.go                                                                *)

SignClientID(k, payload) ==
    [payload |-> payload, mac |-> [key |-> k, payload |-> payload]]

\* Defect: the key is not part of the comparison.
VerifiesAnyKey(k, id) == id.mac.payload = id.payload

VerifyClientID(k, id) == id.mac = [key |-> k, payload |-> id.payload]

ComputeClientSecret(k, id) == [key |-> k, id |-> id]

\* Defect: one listed URI admits the others.
ValidIfOneListed(uris) == uris \cap allowed \cap Https # {}

ValidateRedirectURIs(uris) == uris # {} /\ uris \subseteq allowed \cap Https

-----------------------------------------------------------------------------
(* The handlers.  What they refuse changes nothing and is no step.          *)

\* token_endpoint_auth_methods_supported of the metadata: what clients choose
\* from, if they ask for a method at all.
Advertised == {"none", "client_secret_post", "client_secret_basic"}

AuthMethod(requested) == IF requested = None THEN "client_secret_basic" ELSE requested

\* POST /oauth/register
Register(uris, requested) ==
    LET method == AuthMethod(requested)
        id == SignClientID(key, [uris |-> uris, method |-> method, iat |-> now])
    IN
    /\ up
    /\ Cardinality(issued) < MaxRegistrations
    /\ method \in Methods
    /\ ValidateRedirectURIs(uris)
    /\ issued' = issued \cup
            {[id |-> id, method |-> method, uris |-> uris,
              secret |-> IF method = "none" THEN None ELSE ComputeClientSecret(key, id),
              file |-> file, key |-> key, allowed |-> allowed]}
    /\ reply' = None
    /\ UNCHANGED <<up, file, key, allowed, now>>

\* GET /oauth/authorize trusts the redirect URI: from here on it sends the
\* browser there, with an error or in the end with a code.
Redirects(id, uri) == VerifyClientID(key, id) /\ uri \in id.payload.uris

\* Defect: a client with a secret may leave it out.
SecretIfGiven(id, secret, basic) ==
    VerifyClientID(key, id) /\ secret \in {None, ComputeClientSecret(key, id)}

\* POST /oauth/token authenticates the client: basic says that its ID and
\* secret are in an Authorization: Basic header and not in the form.
Authenticates(id, secret, basic) ==
    /\ VerifyClientID(key, id)
    /\ basic <=> id.payload.method = "client_secret_basic"
    /\ secret = IF id.payload.method = "none" THEN None ELSE ComputeClientSecret(key, id)

Authorize(id, uri) ==
    /\ up
    /\ Redirects(id, uri)
    /\ reply' = [id |-> id, uri |-> uri, secret |-> None, basic |-> FALSE]
    /\ UNCHANGED <<up, file, key, allowed, now, issued>>

Token(id, secret, basic) ==
    /\ up
    /\ Authenticates(id, secret, basic)
    /\ reply' = [id |-> id, uri |-> None, secret |-> secret, basic |-> basic]
    /\ UNCHANGED <<up, file, key, allowed, now, issued>>

Tick ==
    /\ now < MaxTime
    /\ now' = now + 1
    /\ UNCHANGED <<up, file, key, allowed, issued, reply>>

\* What a client can put together: a payload of its own under a signature it
\* has seen, and a secret it has seen, or none.
Presentable ==
    {[payload |-> p, mac |-> r.id.mac] :
        p \in [uris : SUBSET RedirectURIs, method : Methods, iat : 0..MaxTime],
        r \in issued}
Secrets == {r.secret : r \in issued} \cup {None}

Next ==
    \/ \E f \in KeyFiles, s \in Settings : Restart(f, s)
    \/ \E uris \in SUBSET RedirectURIs, m \in Advertised \cup {None} : Register(uris, m)
    \/ \E id \in Presentable, uri \in RedirectURIs : Authorize(id, uri)
    \/ \E id \in Presentable, s \in Secrets, basic \in BOOLEAN : Token(id, s, basic)
    \/ Tick

Spec == Init /\ [][Next]_vars

-----------------------------------------------------------------------------
\* The operator changed nothing of the file but the white space it ends with,
\* which editors and echo add and drop.
SameKeyText(f, g) == [f EXCEPT !.tail = g.tail] = g

\* A registration outlives every restart of a server that reads the same key
\* text, with whatever allowlist: each of its URIs is accepted and its method
\* and secret authenticate it (AS-1; nothing is stored, parseSigningKey trims).
RegistrationsUsable ==
    up => \A r \in issued : SameKeyText(r.file, file) =>
              /\ \A uri \in r.uris : Redirects(r.id, uri)
              /\ Authenticates(r.id, r.secret, r.method = "client_secret_basic")

\* Nothing passes the client checks of authorize or token that was not issued
\* by a server with the key in use: neither a payload that was changed nor a
\* registration from before the key was (VerifyClientID).
AcceptedWasIssued == reply # None => \E r \in issued : r.id = reply.id /\ r.key = key

\* A browser is only sent to URIs that were https and on the allowlist of the
\* server that registered the client, though the list is not read again and
\* may have changed since (ValidateRedirectURIs, HandleAuthorize).
RedirectsVetted ==
    reply # None /\ reply.uri # None =>
        \E r \in issued : r.id = reply.id /\ reply.uri \in r.allowed \cap Https

\* A client authenticates only with the very secret that its registration was
\* answered with, by the method it was answered with (HandleToken).
SecretNeeded ==
    reply # None /\ reply.uri = None =>
        \E r \in issued :
            /\ r.id = reply.id
            /\ reply.secret = r.secret
            /\ reply.basic = (r.method = "client_secret_basic")

=============================================================================
