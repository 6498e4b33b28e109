----------------------------- MODULE ToolCalls ------------------------------
(***************************************************************************)
(* One client's tool calls: which tools the registry offers under the      *)
(* server's flags (pkg/tool), the gate in front of the handlers, and the   *)
(* requests a handler makes through the SDK's client, the REST helper and  *)
(* the attachment client (pkg/gitea), whose transports refuse writes and   *)
(* whose redirect checks keep requests at home.                            *)
(*                                                                         *)
(* A handler is its program (see ToolHandlers).  Calls run concurrently in *)
(* the server and share nothing but clients keyed by their credential, so  *)
(* one call at a time is enough.  Gitea answers a request with success, an *)
(* error, a redirect, that it will act later, or not at all after it has   *)
(* acted.                                                                  *)
(***************************************************************************)
EXTENDS Integers, Sequences, FiniteSets

CONSTANTS
    Tools,        \* what the init functions register
    ScopeLists,   \* the values of --scope; {} is no list
    ToolLists,    \* the values of --tools
    MaxHops       \* redirects that are followed: 10 in the code

Vias == {"sdk", "rest", "attachment", "disk"}
Steps ==
    [via : Vias, writes : BOOLEAN, paths : Nat \ {0}, optional : BOOLEAN,
     flag : {"none", "read", "ignored"}, defers : BOOLEAN]

ASSUME CallsAssumption ==
    /\ MaxHops \in Nat
    /\ \A t \in Tools : \A m \in DOMAIN t.methods : t.methods[m] \subseteq Seq(Steps)

VARIABLES
    oauth, readOnly, scopes, allowed,   \* the flags, fixed at start-up
    header,      \* the caller sent a usable Authorization header
    called,      \* name and method of the call
    stage,       \* what has become of it
    program, pos, path,   \* its handler's steps, the current one, its path
    flight, hops,         \* the request Gitea has not answered, its redirects
    sent,        \* requests the call has made
    written,     \* how often Gitea has carried out a write for it
    lost,        \* an answer after which Gitea had acted was lost
    refused,     \* the transport has refused a request of it
    saved        \* it has written a file on the server

flags == <<oauth, readOnly, scopes, allowed>>
vars == <<flags, header, called, stage, program, pos, path, flight, hops,
          sent, written, lost, refused, saved>>

Hosts == {"gitea", "elsewhere"}
Credentials == {"grant", "header", "server"}
Requests == [via : Vias, credential : Credentials, host : Hosts, writes : BOOLEAN]
NoFlight == [host |-> "none", writes |-> FALSE]
Flights == [host : Hosts, writes : BOOLEAN]

TypeOK ==
    /\ oauth \in BOOLEAN /\ readOnly \in BOOLEAN /\ header \in BOOLEAN
    /\ stage \in {"idle", "running", "succeeded", "failed"}
    /\ program \in Seq(Steps)
    /\ pos \in 1..Len(program) + 1
    /\ path \in Nat \ {0}
    /\ pos <= Len(program) => path <= program[pos].paths
    /\ flight \in Flights \cup {NoFlight}
    /\ flight # NoFlight => stage = "running" /\ pos <= Len(program)
    /\ hops \in 0..MaxHops
    /\ sent \subseteq Requests
    /\ written \in Nat
    /\ lost \in BOOLEAN /\ refused \in BOOLEAN /\ saved \in BOOLEAN

-----------------------------------------------------------------------------
(* The registry.                                                            *)

OAuthDeniedTools == {"actions_config_read", "notification_read", "package_read"}

OAuthDeniedMethods(name) ==
    CASE name = "actions_run_read" ->
            {"download_job_log", "get_job_log_preview", "download_artifact"}
      [] name = "attachment_read" -> {"download"}
      [] OTHER -> {}

Listed(t) == (scopes = {} /\ allowed = {}) \/ t.scope \in scopes \/ t.name \in allowed

\* Defect: write tools are offered in read-only mode.
OffersWrites(t) == (oauth => t.name \notin OAuthDeniedTools) /\ Listed(t)

Offered(t) ==
    /\ t.writes => ~readOnly /\ ~oauth
    /\ oauth => t.name \notin OAuthDeniedTools
    /\ Listed(t)

\* Defect: the gate lets every method of the handler through.
AnyMethod(t) == DOMAIN t.methods

Exposed(t) == DOMAIN t.methods \ (IF oauth THEN OAuthDeniedMethods(t.name) ELSE {})

-----------------------------------------------------------------------------
(* Credentials, transports, redirects.                                      *)

\* Defect: the caller's header is ignored.
ServersToken == "server"

tokenFromContext == IF header THEN "header" ELSE "server"

ClientFromContext ==
    IF oauth THEN "grant" ELSE IF header THEN "header" ELSE "server"

Credential(via) == IF via = "sdk" THEN ClientFromContext ELSE tokenFromContext

\* Defect: the REST helper's transport is not wrapped.
GuardsSdkOnly(via) == via = "sdk" /\ (readOnly \/ oauth)

Guarded(via) == readOnly \/ (oauth /\ via = "sdk")

\* Defect: any redirect of a read is followed.
FollowsAnywhere(step, host) == ~flight.writes /\ hops < MaxHops

Follows(step, host) ==
    /\ ~flight.writes
    /\ hops < MaxHops
    /\ Guarded(step.via) => host = "gitea"
    /\ step.via = "attachment" => host = "gitea"

Request(step, host, writes) ==
    [via |-> step.via, credential |-> Credential(step.via), host |-> host, writes |-> writes]

-----------------------------------------------------------------------------
\* --oauth-client-id is given or not; OAuth mode forces read-only.
ReadOnlyFlag == IF oauth THEN {TRUE} ELSE BOOLEAN

Init ==
    /\ oauth \in BOOLEAN
    /\ readOnly \in ReadOnlyFlag
    /\ scopes \in ScopeLists /\ allowed \in ToolLists
    /\ header = FALSE /\ called = <<>> /\ stage = "idle"
    /\ program = <<>> /\ pos = 1 /\ path = 1
    /\ flight = NoFlight /\ hops = 0
    /\ sent = {} /\ written = 0
    /\ lost = FALSE /\ refused = FALSE /\ saved = FALSE

\* A tools/call request arrives; in OAuth mode only with a bearer token.
NewCall(t, m) ==
    /\ stage # "running"
    /\ header' \in IF oauth THEN {TRUE} ELSE BOOLEAN
    /\ called' = <<t.name, m>>
    /\ pos' = 1 /\ path' = 1 /\ flight' = NoFlight /\ hops' = 0
    /\ sent' = {} /\ written' = 0
    /\ lost' = FALSE /\ refused' = FALSE /\ saved' = FALSE
    /\ UNCHANGED flags

CallTool(t, m) ==
    /\ NewCall(t, m)
    /\ Offered(t) /\ m \in Exposed(t)
    /\ program' \in t.methods[m]
    /\ stage' = "running"

DenyCall(t, m) ==
    /\ NewCall(t, m)
    /\ ~(Offered(t) /\ m \in Exposed(t))
    /\ program' = <<>>
    /\ stage' = "failed"

\* The current step is over; if it failed, the call too unless it may fail.
StepDone ==
    /\ pos' = pos + 1 /\ path' = 1 /\ flight' = NoFlight /\ hops' = 0
    /\ UNCHANGED stage

StepFails ==
    IF program[pos].optional THEN StepDone
    ELSE /\ stage' = "failed"
         /\ flight' = NoFlight
         /\ UNCHANGED <<pos, path, hops>>

\* Gitea has not done what was asked.  That is an error, or a success flag of
\* the SDK that is false: a failure for a handler that looks at it.
StepRefused == StepFails \/ (program[pos].flag = "ignored" /\ StepDone)

Running == stage = "running" /\ flight = NoFlight
AtStep == Running /\ pos <= Len(program)

\* Arguments, or what was read, turn out unusable.  After a write no handler
\* checks more than its outcome (StepRefused, AnswerDeferred).
GiveUp ==
    /\ Running
    /\ \A i \in 1..pos - 1 : ~program[i].writes
    /\ stage' = "failed"
    /\ UNCHANGED <<flags, header, called, program, pos, path, flight, hops,
                   sent, written, lost, refused, saved>>

\* RoundTrip of the read-only transport.
Refuse ==
    /\ AtStep
    /\ program[pos].writes /\ Guarded(program[pos].via)
    /\ refused' = TRUE
    /\ StepFails
    /\ UNCHANGED <<flags, header, called, program, sent, written, lost, saved>>

Send ==
    /\ AtStep
    /\ program[pos].via # "disk"
    /\ ~(program[pos].writes /\ Guarded(program[pos].via))
    /\ flight' = [host |-> "gitea", writes |-> program[pos].writes]
    /\ sent' = sent \cup {Request(program[pos], "gitea", program[pos].writes)}
    /\ UNCHANGED <<flags, header, called, stage, program, pos, path, hops,
                   written, lost, refused, saved>>

Carried == IF flight.writes THEN 1 ELSE 0

AnswerSuccess ==
    /\ flight # NoFlight
    /\ written' = written + Carried
    /\ StepDone
    /\ UNCHANGED <<flags, header, called, program, sent, lost, refused, saved>>

\* Defect: the loop over the paths runs once too often.
TriesOneMore(reply) == reply = "missing" /\ path <= program[pos].paths

\* Defect: the next path is tried after any failure.
TriesAfterAnything(reply) == path < program[pos].paths

\* doJSONWithFallback and fetchJobLogBytes go on after 404 and 405 only.
TriesNextPath(reply) == reply = "missing" /\ path < program[pos].paths

\* "missing": 404 or 405; "error": another status, or no connection; "lost":
\* Gitea acted, but its answer did not arrive or cannot be decoded.
AnswerFailure(reply) ==
    /\ flight # NoFlight
    /\ written' = IF reply = "lost" THEN written + Carried ELSE written
    /\ lost' = (lost \/ reply = "lost")
    /\ IF TriesNextPath(reply)
       THEN /\ path' = path + 1 /\ flight' = NoFlight /\ hops' = 0
            /\ UNCHANGED <<stage, pos>>
       ELSE IF reply = "lost" THEN StepFails ELSE StepRefused
    /\ UNCHANGED <<flags, header, called, program, sent, refused, saved>>

\* Gitea has accepted a merge for the time when its checks succeed: no error,
\* but "merged" is false, and the handler fails.
AnswerDeferred ==
    /\ flight # NoFlight
    /\ program[pos].defers
    /\ written' = written + Carried
    /\ StepFails
    /\ UNCHANGED <<flags, header, called, program, sent, lost, refused, saved>>

\* Go's client turns a redirected write into a GET if it is let.
AnswerRedirect(host) ==
    /\ flight # NoFlight
    /\ IF Follows(program[pos], host)
       THEN /\ flight' = [host |-> host, writes |-> FALSE]
            /\ sent' = sent \cup {Request(program[pos], host, FALSE)}
            /\ hops' = hops + 1
            /\ UNCHANGED <<stage, pos, path>>
       ELSE StepRefused /\ UNCHANGED sent
    /\ UNCHANGED <<flags, header, called, program, written, lost, refused, saved>>

\* The disk may fail, before or after a part of the file is there.
Save ==
    /\ AtStep
    /\ program[pos].via = "disk"
    /\ \/ saved' = TRUE /\ StepDone
       \/ saved' \in BOOLEAN /\ StepFails
    /\ UNCHANGED <<flags, header, called, program, sent, written, lost, refused>>

Finish ==
    /\ Running
    /\ pos > Len(program)
    /\ stage' = "succeeded"
    /\ UNCHANGED <<flags, header, called, program, pos, path, flight, hops,
                   sent, written, lost, refused, saved>>

Next ==
    \/ \E t \in Tools : \E m \in DOMAIN t.methods : CallTool(t, m) \/ DenyCall(t, m)
    \/ GiveUp \/ Refuse \/ Send \/ AnswerSuccess \/ AnswerDeferred
    \/ \E reply \in {"missing", "error", "lost"} : AnswerFailure(reply)
    \/ \E host \in Hosts : AnswerRedirect(host)
    \/ Save \/ Finish

Spec == Init /\ [][Next]_vars

-----------------------------------------------------------------------------
\* What the handlers' programs have in common: a write is the last step, goes
\* to Gitea, and its failure is the call's.
WriteIsLast(p) ==
    \A i \in 1..Len(p) :
        p[i].writes => i = Len(p) /\ p[i].via # "disk" /\ ~p[i].optional

WritesComeLast(tools) ==
    \A t \in tools : \A m \in DOMAIN t.methods : \A p \in t.methods[m] : WriteIsLast(p)

\* A false success flag is never taken for a success.
ReadsFlags(p) == \A i \in 1..Len(p) : p[i].flag # "ignored"

\* No step can be accepted for later.
Settles(p) == \A i \in 1..Len(p) : ~p[i].defers

\* The one tool that drops the flag.
FlagIgnorers == {"delete_branch"}

FlagsRead(tools) ==
    \A t \in tools : \A m \in DOMAIN t.methods : \A p \in t.methods[m] :
        t.name \in FlagIgnorers \/ ReadsFlags(p)

ReadsOnly(p) == \A i \in 1..Len(p) : ~p[i].writes
SavesNothing(p) == \A i \in 1..Len(p) : p[i].via # "disk"

\* No method of a read tool writes.
ReadToolsRead(tools) ==
    \A t \in tools : \A m \in DOMAIN t.methods : \A p \in t.methods[m] :
        t.writes \/ ReadsOnly(p)

\* A method that may save a file is kept from web clients in one way or other.
SavesDenied(tools) ==
    \A t \in tools : \A m \in DOMAIN t.methods : \A p \in t.methods[m] :
        \/ t.writes \/ t.name \in OAuthDeniedTools \/ m \in OAuthDeniedMethods(t.name)
        \/ SavesNothing(p)

-----------------------------------------------------------------------------
(* The registry and the transport are separate guards over separate tables: *)
(* no call that the first lets through is stopped by the second, so a tool  *)
(* that is offered can work (Tools in tool.go, RoundTrip in                 *)
(* readonly_transport.go).                                                  *)
LayersAgree == ~refused

\* In read-only mode, which OAuth mode implies, no call sends a write, even
\* one that is registered with the wrong tool: the transport stops it
\* (RoundTrip in readonly_transport.go).
NothingWritten == readOnly => \A r \in sent : ~r.writes

\* A web client's call never leaves a file on the server: every method that
\* can is on one of the OAuth denylists (tool.go), whatever its arguments.
NoFilesForWebClients == oauth => ~saved

\* A call has at most one effect on Gitea, although handlers go on to other
\* paths after a failure and answers are lost (doJSONWithFallback).
WriteOnce == written <= 1

\* A write that is reported as done was carried out, by every tool but
\* delete_branch: errors, redirects, missing endpoints and success flags that
\* are false are not taken for success (checkRedirect, DoJSON, RenameBranchFn,
\* mergePullRequestFn; DeleteBranchFn drops the flag).
SuccessMeansDone ==
    /\ stage = "succeeded"
    /\ \E i \in 1..Len(program) : program[i].writes
    /\ called[1] \notin FlagIgnorers
    => written = 1

\* A failed call of which every request was answered has changed nothing, unless
\* it asked for a merge that may wait for its checks: what a handler still looks
\* at after its write says no more than that the write was refused.
FailureMeansNothing == stage = "failed" /\ ~lost /\ Settles(program) => written = 0

\* All requests of a call carry the one credential its caller is entitled to:
\* in OAuth mode the Gitea token of the grant, else the token of the header,
\* else the server's (ClientFromContext, tokenFromContext).
CallersCredential ==
    \A r \in sent :
        r.credential = IF oauth THEN "grant" ELSE IF header THEN "header" ELSE "server"

\* Without OAuth the two look-ups of the credential, the SDK client's and the
\* REST helper's, agree for every call, also one that uses both and one that
\* is redirected (ClientFromContext, tokenFromContext).
PatCredential == ~oauth => CallersCredential

\* In read-only mode no redirect takes a request to another host; one for an
\* attachment never does (checkRedirect, makeCheckRedirectOAuth,
\* attachmentHTTPClient).
StaysHome ==
    \A r \in sent : readOnly \/ r.via = "attachment" => r.host = "gitea"

=============================================================================
