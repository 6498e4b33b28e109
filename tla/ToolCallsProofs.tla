--------------------------- MODULE ToolCallsProofs --------------------------
(***************************************************************************)
(* Proofs about ToolCalls, for every catalogue of tools, every choice of   *)
(* flags and any number of redirects and paths.                            *)
(***************************************************************************)
EXTENDS ToolCalls, TLAPS

\* What a call starts with is typed.
LEMMA NewCallFacts ==
    ASSUME NEW t \in Tools, NEW m \in DOMAIN t.methods, NewCall(t, m)
    PROVE  /\ header' \in BOOLEAN
           /\ pos' = 1 /\ path' = 1 /\ hops' = 0 /\ flight' = NoFlight
           /\ sent' = {} /\ written' = 0
           /\ lost' = FALSE /\ refused' = FALSE /\ saved' = FALSE
           /\ readOnly' = readOnly /\ oauth' = oauth
BY CallsAssumption DEF NewCall, flags

\* The two halves of the type invariant: where the call is in its program,
\* and what it has done.
Progress ==
    /\ stage \in {"idle", "running", "succeeded", "failed"}
    /\ program \in Seq(Steps)
    /\ pos \in 1..Len(program) + 1
    /\ path \in Nat \ {0}
    /\ pos <= Len(program) => path <= program[pos].paths
    /\ flight \in Flights \cup {NoFlight}
    /\ flight # NoFlight => stage = "running" /\ pos <= Len(program)
    /\ hops \in 0..MaxHops

Record ==
    /\ oauth \in BOOLEAN /\ readOnly \in BOOLEAN /\ header \in BOOLEAN
    /\ sent \subseteq Requests
    /\ written \in Nat
    /\ lost \in BOOLEAN /\ refused \in BOOLEAN /\ saved \in BOOLEAN

LEMMA Halves == TypeOK <=> Progress /\ Record
BY DEF TypeOK, Progress, Record

LEMMA HalvesPrimed == TypeOK' <=> Progress' /\ Record'
BY DEF TypeOK, Progress, Record

\* The current step is one of Steps.
LEMMA CurrentStep ==
    ASSUME Progress, pos <= Len(program)
    PROVE  /\ program[pos] \in Steps
           /\ program[pos].via \in Vias /\ program[pos].writes \in BOOLEAN
           /\ program[pos].paths \in Nat \ {0} /\ program[pos].optional \in BOOLEAN
           /\ pos \in Nat /\ Len(program) \in Nat
<1>1. program \in Seq(Steps) /\ pos \in 1..Len(program) /\ Len(program) \in Nat
  BY DEF Progress
<1>2. program[pos] \in Steps
  BY <1>1
<1> QED BY <1>1, <1>2 DEF Steps

\* The end of a step keeps the first half.
LEMMA DoneProgress ==
    ASSUME Progress, pos <= Len(program), UNCHANGED program, StepDone
    PROVE  Progress'
<1>1. program \in Seq(Steps) /\ pos \in 1..Len(program) /\ Len(program) \in Nat
  BY DEF Progress
<1>2. pos' = pos + 1 /\ path' = 1 /\ flight' = NoFlight /\ hops' = 0
      /\ program' = program /\ stage' = stage
  BY DEF StepDone
<1>3. pos' \in 1..Len(program) + 1
  BY <1>1, <1>2
<1>4. pos' <= Len(program) => path' <= program[pos'].paths
  <2> SUFFICES ASSUME pos' <= Len(program) PROVE 1 <= program[pos'].paths
    BY <1>2
  <2>1. program[pos'] \in Steps
    BY <1>1, <1>3
  <2> QED BY <2>1 DEF Steps
<1>5. hops' \in 0..MaxHops /\ path' \in Nat \ {0}
  BY <1>2, CallsAssumption
<1> QED BY <1>1, <1>2, <1>3, <1>4, <1>5 DEF Progress

LEMMA FailsProgress ==
    ASSUME Progress, pos <= Len(program), UNCHANGED program, StepFails
    PROVE  Progress'
<1>1. CASE StepDone
  BY <1>1, DoneProgress
<1>2. CASE stage' = "failed" /\ flight' = NoFlight /\ UNCHANGED <<pos, path, hops>>
  BY <1>2 DEF Progress
<1> QED BY <1>1, <1>2 DEF StepFails

LEMMA RefusedProgress ==
    ASSUME Progress, pos <= Len(program), UNCHANGED program, StepRefused
    PROVE  Progress'
BY DoneProgress, FailsProgress DEF StepRefused

\* What a step sends is a request.
LEMMA RequestTyped ==
    ASSUME Progress, Record, pos <= Len(program),
           NEW host \in Hosts, NEW writes \in BOOLEAN
    PROVE  Request(program[pos], host, writes) \in Requests
<1>1. ClientFromContext \in Credentials /\ tokenFromContext \in Credentials
  BY DEF ClientFromContext, tokenFromContext, Credentials
<1>2. Credential(program[pos].via) \in Credentials
  BY <1>1 DEF Credential
<1> QED BY <1>2, CurrentStep DEF Request, Requests

\* Every variable keeps its type.
THEOREM TypeCorrect == Spec => []TypeOK
<1>1. Init => TypeOK
  <2> SUFFICES ASSUME Init PROVE TypeOK
    OBVIOUS
  <2>1. oauth \in BOOLEAN /\ readOnly \in BOOLEAN /\ header \in BOOLEAN
    BY CallsAssumption DEF Init, ReadOnlyFlag
  <2>2. program \in Seq(Steps) /\ pos \in 1..Len(program) + 1 /\ ~(pos <= Len(program))
    BY DEF Init
  <2>3. path \in Nat \ {0} /\ hops \in 0..MaxHops /\ written \in Nat
    BY CallsAssumption DEF Init
  <2>4. sent \subseteq Requests /\ flight = NoFlight
    BY DEF Init
  <2>5. /\ stage \in {"idle", "running", "succeeded", "failed"}
        /\ lost \in BOOLEAN /\ refused \in BOOLEAN /\ saved \in BOOLEAN
    BY DEF Init
  <2> QED BY <2>1, <2>2, <2>3, <2>4, <2>5 DEF TypeOK
<1>2. TypeOK /\ [Next]_vars => TypeOK'
  <2> SUFFICES ASSUME TypeOK, [Next]_vars PROVE TypeOK'
    OBVIOUS
  <2>a. Progress /\ Record
    BY Halves
  <2>1. ASSUME NEW t \in Tools, NEW m \in DOMAIN t.methods, CallTool(t, m)
        PROVE  TypeOK'
    <3>1. NewCall(t, m) /\ program' \in t.methods[m] /\ stage' = "running"
      BY <2>1 DEF CallTool
    <3>2. t.methods[m] \subseteq Seq(Steps)
      BY CallsAssumption
    <3>3. program' \in Seq(Steps)
      BY <3>1, <3>2
    <3>4. Len(program') \in Nat /\ (1 <= Len(program') => program'[1] \in Steps)
      BY <3>3
    <3>5. 1 <= Len(program') => 1 <= program'[1].paths
      BY <3>4 DEF Steps
    <3>6. /\ header' \in BOOLEAN /\ readOnly' = readOnly /\ oauth' = oauth
          /\ pos' = 1 /\ path' = 1 /\ hops' = 0 /\ flight' = NoFlight
          /\ sent' = {} /\ written' = 0
          /\ lost' = FALSE /\ refused' = FALSE /\ saved' = FALSE
      BY <3>1, NewCallFacts
    <3>7. Progress'
      BY <3>1, <3>3, <3>4, <3>5, <3>6, CallsAssumption DEF Progress
    <3>8. Record'
      BY <2>a, <3>6 DEF Record
    <3> QED BY <3>7, <3>8, HalvesPrimed
  <2>2. ASSUME NEW t \in Tools, NEW m \in DOMAIN t.methods, DenyCall(t, m)
        PROVE  TypeOK'
    <3>1. NewCall(t, m) /\ program' = <<>> /\ stage' = "failed"
      BY <2>2 DEF DenyCall
    <3>2. /\ header' \in BOOLEAN /\ readOnly' = readOnly /\ oauth' = oauth
          /\ pos' = 1 /\ path' = 1 /\ hops' = 0 /\ flight' = NoFlight
          /\ sent' = {} /\ written' = 0
          /\ lost' = FALSE /\ refused' = FALSE /\ saved' = FALSE
      BY <3>1, NewCallFacts
    <3>3. Progress'
      BY <3>1, <3>2, CallsAssumption DEF Progress
    <3>4. Record'
      BY <2>a, <3>2 DEF Record
    <3> QED BY <3>3, <3>4, HalvesPrimed
  <2>3. CASE GiveUp
    BY <2>3 DEF GiveUp, TypeOK, flags, Running
  <2>4. CASE Refuse
    <3>1. pos <= Len(program) /\ StepFails /\ UNCHANGED program
      BY <2>4 DEF Refuse, AtStep
    <3>2. Record'
      BY <2>a, <2>4 DEF Refuse, Record, flags
    <3> QED BY <2>a, <3>1, <3>2, FailsProgress, HalvesPrimed
  <2>5. CASE Send
    <3>1. pos <= Len(program) /\ stage = "running"
      BY <2>5 DEF Send, AtStep, Running
    <3>2. program[pos].writes \in BOOLEAN
      BY <2>a, <3>1, CurrentStep
    <3>3. flight' \in Flights
      BY <2>5, <3>2 DEF Send, Flights, Hosts
    <3>4. Progress'
      BY <2>a, <2>5, <3>1, <3>3 DEF Send, Progress
    <3>5. Request(program[pos], "gitea", program[pos].writes) \in Requests
      BY <2>a, <3>1, <3>2, RequestTyped DEF Hosts
    <3>6. Record'
      BY <2>a, <2>5, <3>5 DEF Send, Record, flags
    <3> QED BY <3>4, <3>6, HalvesPrimed
  <2>6. CASE AnswerSuccess
    <3>1. pos <= Len(program) /\ StepDone /\ UNCHANGED program
      BY <2>a, <2>6 DEF AnswerSuccess, Progress
    <3>2. Carried \in Nat
      BY DEF Carried
    <3>3. Record'
      BY <2>a, <2>6, <3>2 DEF AnswerSuccess, Record, flags
    <3> QED BY <2>a, <3>1, <3>3, DoneProgress, HalvesPrimed
  <2>7. ASSUME NEW reply \in {"missing", "error", "lost"}, AnswerFailure(reply)
        PROVE  TypeOK'
    <3>1. pos <= Len(program) /\ UNCHANGED program
      BY <2>a, <2>7 DEF AnswerFailure, Progress
    <3>2. Carried \in Nat
      BY DEF Carried
    <3>3. Record'
      BY <2>a, <2>7, <3>2 DEF AnswerFailure, Record, flags
    <3>4. CASE TriesNextPath(reply)
      <4>1. path' = path + 1 /\ flight' = NoFlight /\ hops' = 0 /\ UNCHANGED <<stage, pos, program>>
        BY <2>7, <3>4 DEF AnswerFailure
      <4>2. path' <= program[pos].paths /\ path' \in Nat \ {0}
        BY <2>a, <3>1, <3>4, <4>1, CurrentStep DEF TriesNextPath, Progress
      <4>3. hops' \in 0..MaxHops
        BY <4>1, CallsAssumption
      <4>4. Progress'
        BY <2>a, <4>1, <4>2, <4>3 DEF Progress
      <4> QED BY <3>3, <4>4, HalvesPrimed
    <3>5. CASE ~TriesNextPath(reply)
      <4>1. StepFails \/ StepRefused
        BY <2>7, <3>5 DEF AnswerFailure
      <4> QED BY <2>a, <3>1, <3>3, <4>1, FailsProgress, RefusedProgress, HalvesPrimed
    <3> QED BY <3>4, <3>5
  <2>8. ASSUME NEW host \in Hosts, AnswerRedirect(host)
        PROVE  TypeOK'
    <3>1. pos <= Len(program) /\ stage = "running" /\ UNCHANGED program
      BY <2>a, <2>8 DEF AnswerRedirect, Progress
    <3>2. CASE Follows(program[pos], host)
      <4>1. /\ flight' = [host |-> host, writes |-> FALSE]
            /\ sent' = sent \cup {Request(program[pos], host, FALSE)}
            /\ hops' = hops + 1 /\ UNCHANGED <<stage, pos, path, program>>
        BY <2>8, <3>2 DEF AnswerRedirect
      <4>2. hops' \in 0..MaxHops
        BY <2>a, <3>2, <4>1, CallsAssumption DEF Follows, Progress
      <4>3. flight' \in Flights
        BY <4>1 DEF Flights
      <4>4. Progress'
        BY <2>a, <3>1, <4>1, <4>2, <4>3 DEF Progress
      <4>5. Request(program[pos], host, FALSE) \in Requests
        BY <2>a, <3>1, RequestTyped
      <4>6. Record'
        BY <2>a, <2>8, <4>1, <4>5 DEF AnswerRedirect, Record, flags
      <4> QED BY <4>4, <4>6, HalvesPrimed
    <3>3. CASE ~Follows(program[pos], host)
      <4>1. StepRefused /\ UNCHANGED sent
        BY <2>8, <3>3 DEF AnswerRedirect
      <4>2. Record'
        BY <2>a, <2>8, <4>1 DEF AnswerRedirect, Record, flags
      <4> QED BY <2>a, <3>1, <4>1, <4>2, RefusedProgress, HalvesPrimed
    <3> QED BY <3>2, <3>3
  <2>9. CASE Save
    <3>1. pos <= Len(program) /\ UNCHANGED program /\ (StepDone \/ StepFails)
      BY <2>9 DEF Save, AtStep
    <3>2. Record'
      BY <2>a, <2>9 DEF Save, Record, flags
    <3> QED BY <2>a, <3>1, <3>2, DoneProgress, FailsProgress, HalvesPrimed
  <2>10. CASE Finish
    BY <2>10 DEF Finish, TypeOK, flags, Running
  <2>11. CASE AnswerDeferred
    <3>1. pos <= Len(program) /\ StepFails /\ UNCHANGED program
      BY <2>a, <2>11 DEF AnswerDeferred, Progress
    <3>2. Carried \in Nat
      BY DEF Carried
    <3>3. Record'
      BY <2>a, <2>11, <3>2 DEF AnswerDeferred, Record, flags
    <3> QED BY <2>a, <3>1, <3>3, FailsProgress, HalvesPrimed
  <2>12. CASE UNCHANGED vars
    BY <2>12 DEF vars, flags, TypeOK
  <2> QED BY <2>1, <2>2, <2>3, <2>4, <2>5, <2>6, <2>7, <2>8, <2>9, <2>10, <2>11, <2>12
          DEF Next
<1> QED BY <1>1, <1>2, PTL DEF Spec

-----------------------------------------------------------------------------
(* The requests of a call.                                                  *)

Forgets == sent' = {}
SendsNothing == sent' = sent /\ header' = header
SendsStep ==
    /\ sent' = sent \cup {Request(program[pos], "gitea", program[pos].writes)}
    /\ ~(program[pos].writes /\ Guarded(program[pos].via))
    /\ header' = header
FollowsTo(host) ==
    /\ sent' = sent \cup {Request(program[pos], host, FALSE)}
    /\ Follows(program[pos], host)
    /\ header' = header

FixedFlags == readOnly' = readOnly /\ oauth' = oauth

\* The only ways in which a step changes the set of requests; no step
\* changes a flag.
LEMMA Sends ==
    ASSUME [Next]_vars
    PROVE  /\ FixedFlags
           /\ Forgets \/ SendsNothing \/ SendsStep \/ \E host \in Hosts : FollowsTo(host)
<1>1. ASSUME NEW t \in Tools, NEW m \in DOMAIN t.methods, CallTool(t, m) \/ DenyCall(t, m)
      PROVE  FixedFlags /\ Forgets
  BY <1>1 DEF CallTool, DenyCall, NewCall, flags, Forgets, FixedFlags
<1>2. CASE GiveUp \/ Refuse \/ AnswerSuccess \/ AnswerDeferred \/ Save \/ Finish
  BY <1>2 DEF GiveUp, Refuse, AnswerSuccess, AnswerDeferred, Save, Finish, flags,
              FixedFlags, SendsNothing
<1>3. CASE Send
  BY <1>3 DEF Send, flags, FixedFlags, SendsStep
<1>4. ASSUME NEW reply \in {"missing", "error", "lost"}, AnswerFailure(reply)
      PROVE  FixedFlags /\ SendsNothing
  BY <1>4 DEF AnswerFailure, flags, FixedFlags, SendsNothing
<1>5. ASSUME NEW host \in Hosts, AnswerRedirect(host)
      PROVE  FixedFlags /\ (SendsNothing \/ FollowsTo(host))
  BY <1>5 DEF AnswerRedirect, flags, FixedFlags, SendsNothing, FollowsTo
<1>6. CASE UNCHANGED vars
  BY <1>6 DEF vars, flags, FixedFlags, SendsNothing
<1> QED BY <1>1, <1>2, <1>3, <1>4, <1>5, <1>6 DEF Next

\* In read-only mode no call sends a write, whatever the catalogue: neither
\* the registry nor the programs matter, only RoundTrip and the redirects.
THEOREM NoWriteIsSent == Spec => []NothingWritten
<1>1. Init => NothingWritten
  BY DEF Init, NothingWritten
<1>2. NothingWritten /\ [Next]_vars => NothingWritten'
  <2> SUFFICES ASSUME NothingWritten, [Next]_vars PROVE NothingWritten'
    OBVIOUS
  <2>1. readOnly' = readOnly
    BY Sends DEF FixedFlags
  <2>2. CASE Forgets
    BY <2>2 DEF Forgets, NothingWritten
  <2>3. CASE SendsNothing
    BY <2>1, <2>3 DEF SendsNothing, NothingWritten
  <2>4. CASE SendsStep
    BY <2>1, <2>4 DEF SendsStep, NothingWritten, Request, Guarded
  <2>5. ASSUME NEW host \in Hosts, FollowsTo(host) PROVE NothingWritten'
    BY <2>1, <2>5 DEF FollowsTo, NothingWritten, Request
  <2> QED BY <2>2, <2>3, <2>4, <2>5, Sends
<1> QED BY <1>1, <1>2, PTL DEF Spec

\* In read-only mode no request leaves the configured host, an attachment's
\* never does, whatever the catalogue.
THEOREM RequestsStayHome == Spec => []StaysHome
<1>1. Init => StaysHome
  BY DEF Init, StaysHome
<1>2. StaysHome /\ [Next]_vars => StaysHome'
  <2> SUFFICES ASSUME StaysHome, [Next]_vars PROVE StaysHome'
    OBVIOUS
  <2>1. readOnly' = readOnly
    BY Sends DEF FixedFlags
  <2>2. CASE Forgets
    BY <2>2 DEF Forgets, StaysHome
  <2>3. CASE SendsNothing
    BY <2>1, <2>3 DEF SendsNothing, StaysHome
  <2>4. CASE SendsStep
    BY <2>1, <2>4 DEF SendsStep, StaysHome, Request
  <2>5. ASSUME NEW host \in Hosts, FollowsTo(host) PROVE StaysHome'
    BY <2>1, <2>5 DEF FollowsTo, Follows, Guarded, StaysHome, Request
  <2> QED BY <2>2, <2>3, <2>4, <2>5, Sends
<1> QED BY <1>1, <1>2, PTL DEF Spec

\* Without OAuth the SDK's client and the REST helper send the same
\* credential, the caller's.
THEOREM OneCredential == Spec => []PatCredential
<1>1. Init => PatCredential
  BY DEF Init, PatCredential, CallersCredential
<1>2. PatCredential /\ [Next]_vars => PatCredential'
  <2> SUFFICES ASSUME PatCredential, [Next]_vars, ~oauth PROVE CallersCredential'
    BY Sends DEF FixedFlags, PatCredential
  <2>1. \A via : Credential(via) = IF header THEN "header" ELSE "server"
    BY DEF Credential, ClientFromContext, tokenFromContext
  <2>2. CallersCredential /\ ~oauth'
    BY Sends DEF FixedFlags, PatCredential
  <2>3. CASE Forgets
    BY <2>3 DEF Forgets, CallersCredential
  <2>4. CASE SendsNothing
    BY <2>2, <2>4 DEF SendsNothing, CallersCredential
  <2>5. CASE SendsStep
    BY <2>1, <2>2, <2>5 DEF SendsStep, CallersCredential, Request
  <2>6. ASSUME NEW host \in Hosts, FollowsTo(host) PROVE CallersCredential'
    BY <2>1, <2>2, <2>6 DEF FollowsTo, CallersCredential, Request
  <2> QED BY <2>3, <2>4, <2>5, <2>6, Sends
<1> QED BY <1>1, <1>2, PTL DEF Spec

-----------------------------------------------------------------------------
(* The effects of a call.                                                   *)

HasWrite == \E i \in 1..Len(program) : program[i].writes

\* The books of a call: until its write is answered, nothing has been
\* written; once its program is through, what it had to write has been, unless
\* a success flag went unread; and if it failed, only a lost answer or a merge
\* that may wait leaves the matter open.
Accounts ==
    /\ WriteIsLast(program)
    /\ flight # NoFlight => flight.writes = program[pos].writes
    /\ stage # "failed" =>
        IF pos > Len(program) /\ HasWrite
        THEN written = 1 \/ (written = 0 /\ ~ReadsFlags(program))
        ELSE written = 0
    /\ stage = "failed" => written <= 1 /\ (~lost /\ Settles(program) => written = 0)
    /\ stage = "succeeded" => pos > Len(program)

Underway == stage = "running" /\ pos <= Len(program)

\* At a step of a running call nothing has been written, and a write is the
\* last step.
LEMMA BeforeStep ==
    ASSUME TypeOK, Accounts, Underway
    PROVE  /\ written = 0
           /\ program[pos].writes => pos = Len(program) /\ ~program[pos].optional
           /\ pos \in Nat /\ Len(program) \in Nat
<1>1. pos \in 1..Len(program) /\ Len(program) \in Nat /\ stage = "running"
  BY DEF TypeOK, Underway
<1> QED BY <1>1 DEF Accounts, WriteIsLast

\* A step that ends with its write carried out, if it is one, or with the flag
\* that denies it unread, keeps the books.
LEMMA DoneAccounts ==
    ASSUME TypeOK, Accounts, Underway, UNCHANGED program, StepDone,
           program[pos].writes =>
               written' = 1 \/ (written' = 0 /\ ~ReadsFlags(program)),
           ~program[pos].writes => written' = 0
    PROVE  Accounts'
<1>1. pos \in 1..Len(program) /\ Len(program) \in Nat /\ stage = "running"
  BY DEF TypeOK, Underway
<1>2. /\ pos' = pos + 1 /\ flight' = NoFlight /\ stage' = "running" /\ program' = program
  BY <1>1 DEF StepDone
<1>3. (HasWrite' <=> HasWrite) /\ (ReadsFlags(program)' <=> ReadsFlags(program))
  BY <1>2 DEF HasWrite, ReadsFlags
<1>4. CASE program[pos].writes
  <2>1. pos' > Len(program) /\ HasWrite
    BY <1>1, <1>2, <1>4, BeforeStep DEF HasWrite
  <2> QED BY <1>2, <1>3, <1>4, <2>1 DEF Accounts
<1>5. CASE ~program[pos].writes
  <2>1. ~(pos' > Len(program) /\ HasWrite)
    BY <1>1, <1>2, <1>5 DEF HasWrite, Accounts, WriteIsLast
  <2> QED BY <1>2, <1>3, <1>5, <2>1 DEF Accounts
<1> QED BY <1>4, <1>5

\* So does a step that fails, if a write that may have been carried out is
\* booked as lost.
LEMMA FailsAccounts ==
    ASSUME TypeOK, Accounts, Underway, UNCHANGED program, StepFails,
           written' \in Nat, written' <= 1,
           ~program[pos].writes => written' = 0,
           ~lost' /\ Settles(program) => written' = 0
    PROVE  Accounts'
<1>1. CASE program[pos].optional
  <2>1. ~program[pos].writes
    BY <1>1, BeforeStep
  <2>2. StepDone
    BY <1>1 DEF StepFails
  <2> QED BY <2>1, <2>2, DoneAccounts
<1>2. CASE ~program[pos].optional
  <2>1. stage' = "failed" /\ flight' = NoFlight
    BY <1>2 DEF StepFails
  <2>2. Settles(program)' <=> Settles(program)
    BY DEF Settles
  <2> QED BY <2>1, <2>2 DEF Accounts, WriteIsLast
<1> QED BY <1>1, <1>2

\* So does a step of which nothing came, whether its flag is looked at or not.
LEMMA RefusedAccounts ==
    ASSUME TypeOK, Accounts, Underway, UNCHANGED program, StepRefused, written' = 0
    PROVE  Accounts'
<1>1. CASE StepFails
  BY <1>1, FailsAccounts
<1>2. CASE program[pos].flag = "ignored" /\ StepDone
  <2>1. pos \in 1..Len(program)
    BY DEF TypeOK, Underway
  <2>2. ~ReadsFlags(program)
    BY <1>2, <2>1 DEF ReadsFlags
  <2> QED BY <1>2, <2>2, DoneAccounts
<1> QED BY <1>1, <1>2 DEF StepRefused

LEMMA AccountsInit == Init => Accounts
BY DEF Init, Accounts, WriteIsLast, HasWrite, NoFlight

LEMMA AccountsKept ==
    ASSUME WritesComeLast(Tools), TypeOK, TypeOK', Accounts, [Next]_vars
    PROVE  Accounts'
<1>1. ASSUME NEW t \in Tools, NEW m \in DOMAIN t.methods, CallTool(t, m)
      PROVE  Accounts'
  <2>1. NewCall(t, m) /\ program' \in t.methods[m] /\ stage' = "running"
    BY <1>1 DEF CallTool
  <2>2. pos' = 1 /\ flight' = NoFlight /\ written' = 0
    BY <2>1, NewCallFacts
  <2>3. WriteIsLast(program') /\ Len(program') \in Nat
    BY <2>1 DEF WritesComeLast, TypeOK
  <2>4. ~(pos' > Len(program') /\ HasWrite')
    BY <2>2, <2>3 DEF HasWrite
  <2> QED BY <2>1, <2>2, <2>3, <2>4 DEF Accounts, WriteIsLast
<1>2. ASSUME NEW t \in Tools, NEW m \in DOMAIN t.methods, DenyCall(t, m)
      PROVE  Accounts'
  <2>1. NewCall(t, m) /\ program' = <<>> /\ stage' = "failed"
    BY <1>2 DEF DenyCall
  <2>2. flight' = NoFlight /\ written' = 0
    BY <2>1, NewCallFacts
  <2> QED BY <2>1, <2>2 DEF Accounts, WriteIsLast
<1>3. CASE GiveUp
  <2>1. /\ stage = "running" /\ stage' = "failed" /\ flight = NoFlight
        /\ \A i \in 1..pos - 1 : ~program[i].writes
        /\ UNCHANGED <<program, pos, flight, written, lost>>
    BY <1>3 DEF GiveUp, Running
  <2>2. pos \in 1..Len(program) + 1 /\ Len(program) \in Nat
    BY DEF TypeOK
  <2>3. ~(pos > Len(program) /\ HasWrite)
    BY <2>1, <2>2 DEF HasWrite
  <2>4. written = 0
    BY <2>1, <2>3 DEF Accounts
  <2> QED BY <2>1, <2>4 DEF Accounts, WriteIsLast
<1>4. CASE Refuse
  <2>1. Underway /\ StepFails /\ UNCHANGED <<program, written>>
    BY <1>4 DEF Refuse, AtStep, Running, Underway
  <2> QED BY <2>1, BeforeStep, FailsAccounts
<1>5. CASE Send
  <2>1. /\ flight' = [host |-> "gitea", writes |-> program[pos].writes]
        /\ UNCHANGED <<program, pos, stage, written, lost>>
    BY <1>5 DEF Send
  <2>2. flight'.writes = program[pos].writes
    BY <2>1
  <2>3. (HasWrite' <=> HasWrite) /\ (ReadsFlags(program)' <=> ReadsFlags(program))
    BY <2>1 DEF HasWrite, ReadsFlags
  <2>4. (WriteIsLast(program)' <=> WriteIsLast(program))
        /\ (Settles(program)' <=> Settles(program))
    BY <2>1 DEF WriteIsLast, Settles
  <2> QED BY <2>1, <2>2, <2>3, <2>4 DEF Accounts
<1>6. CASE AnswerSuccess
  <2>1. /\ Underway /\ StepDone /\ UNCHANGED program
        /\ flight # NoFlight /\ written' = written + Carried
    BY <1>6 DEF AnswerSuccess, Underway, TypeOK
  <2>2. flight.writes = program[pos].writes
    BY <2>1 DEF Accounts
  <2> QED BY <2>1, <2>2, BeforeStep, DoneAccounts DEF Carried
<1>7. ASSUME NEW reply \in {"missing", "error", "lost"}, AnswerFailure(reply)
      PROVE  Accounts'
  <2>1. /\ Underway /\ UNCHANGED program /\ flight # NoFlight
        /\ written' = IF reply = "lost" THEN written + Carried ELSE written
        /\ reply = "lost" => lost'
    BY <1>7 DEF AnswerFailure, Underway, TypeOK
  <2>2. flight.writes = program[pos].writes
    BY <2>1 DEF Accounts
  <2>3. /\ written' \in Nat /\ written' <= 1
        /\ ~program[pos].writes => written' = 0
        /\ reply # "lost" => written' = 0
    BY <2>1, <2>2, BeforeStep DEF Carried
  <2>4. CASE TriesNextPath(reply)
    <3>1. flight' = NoFlight /\ UNCHANGED <<stage, pos, program>> /\ written' = 0
      BY <1>7, <2>3, <2>4 DEF AnswerFailure, TriesNextPath
    <3>2. stage = "running" /\ pos \in Nat /\ Len(program) \in Nat /\ ~(pos > Len(program))
      BY <2>1, BeforeStep DEF Underway
    <3> QED BY <3>1, <3>2 DEF Accounts, WriteIsLast
  <2>5. CASE ~TriesNextPath(reply) /\ reply = "lost"
    <3>1. StepFails /\ lost'
      BY <1>7, <2>5 DEF AnswerFailure
    <3> QED BY <2>1, <2>3, <3>1, FailsAccounts
  <2>6. CASE ~TriesNextPath(reply) /\ reply # "lost"
    <3>1. StepRefused /\ written' = 0
      BY <1>7, <2>3, <2>6 DEF AnswerFailure
    <3> QED BY <2>1, <3>1, RefusedAccounts
  <2> QED BY <2>4, <2>5, <2>6
<1>8. ASSUME NEW host \in Hosts, AnswerRedirect(host)
      PROVE  Accounts'
  <2>1. Underway /\ flight # NoFlight /\ UNCHANGED <<program, written, lost>>
    BY <1>8 DEF AnswerRedirect, Underway, TypeOK
  <2>2. CASE Follows(program[pos], host)
    <3>1. /\ flight' = [host |-> host, writes |-> FALSE]
          /\ UNCHANGED <<stage, pos>>
      BY <1>8, <2>2 DEF AnswerRedirect
    <3>2. ~program[pos].writes
      BY <2>1, <2>2 DEF Follows, Accounts
    <3>3. program[pos].writes \in BOOLEAN
      BY <2>1, Halves, CurrentStep DEF Underway
    <3>4. flight'.writes = program[pos].writes
      BY <3>1, <3>2, <3>3
    <3>5. stage' = "running" /\ ~(pos' > Len(program')) /\ written' = 0
      BY <2>1, <3>1, BeforeStep DEF Underway
    <3> QED BY <2>1, <3>1, <3>4, <3>5 DEF Accounts, WriteIsLast
  <2>3. CASE ~Follows(program[pos], host)
    <3>1. StepRefused
      BY <1>8, <2>3 DEF AnswerRedirect
    <3> QED BY <2>1, <3>1, BeforeStep, RefusedAccounts
  <2> QED BY <2>2, <2>3
<1>9. CASE Save
  <2>1. /\ Underway /\ program[pos].via = "disk" /\ UNCHANGED <<program, written>>
        /\ StepDone \/ StepFails
    BY <1>9 DEF Save, AtStep, Running, Underway
  <2>2. ~program[pos].writes
    BY <2>1 DEF Accounts, WriteIsLast, Underway, TypeOK
  <2> QED BY <2>1, <2>2, BeforeStep, DoneAccounts, FailsAccounts
<1>10. CASE Finish
  <2>1. /\ stage = "running" /\ stage' = "succeeded" /\ pos > Len(program)
        /\ UNCHANGED <<program, pos, flight, written, lost>>
    BY <1>10 DEF Finish, Running
  <2>2. (HasWrite' <=> HasWrite) /\ (ReadsFlags(program)' <=> ReadsFlags(program))
    BY <2>1 DEF HasWrite, ReadsFlags
  <2> QED BY <2>1, <2>2 DEF Accounts, WriteIsLast
<1>11. CASE AnswerDeferred
  <2>1. /\ Underway /\ StepFails /\ UNCHANGED program
        /\ flight # NoFlight /\ written' = written + Carried /\ program[pos].defers
    BY <1>11 DEF AnswerDeferred, Underway, TypeOK
  <2>2. flight.writes = program[pos].writes /\ pos \in 1..Len(program)
    BY <2>1 DEF Accounts, Underway, TypeOK
  <2>3. ~Settles(program)
    BY <2>1, <2>2 DEF Settles
  <2>4. /\ written' \in Nat /\ written' <= 1
        /\ ~program[pos].writes => written' = 0
    BY <2>1, <2>2, BeforeStep DEF Carried
  <2> QED BY <2>1, <2>3, <2>4, FailsAccounts
<1>12. CASE UNCHANGED vars
  BY <1>12 DEF vars, Accounts, HasWrite, WriteIsLast, ReadsFlags, Settles
<1> QED BY <1>1, <1>2, <1>3, <1>4, <1>5, <1>6, <1>7, <1>8, <1>9, <1>10, <1>11, <1>12
        DEF Next

\* If in every program the write comes last, the books are kept.
LEMMA BooksKept ==
    ASSUME WritesComeLast(Tools)
    PROVE  Spec => [](TypeOK /\ Accounts)
<1>1. Accounts /\ TypeOK /\ TypeOK' /\ [Next]_vars => Accounts'
  BY WritesComeLast(Tools), AccountsKept
<1> QED BY <1>1, AccountsInit, TypeCorrect, PTL DEF Spec

\* A call changes Gitea at most once, whatever is lost, missing or retried.
THEOREM WrittenOnce ==
    ASSUME WritesComeLast(Tools)
    PROVE  Spec => []WriteOnce
<1>1. TypeOK /\ Accounts => WriteOnce
  BY DEF Accounts, WriteOnce
<1> QED BY <1>1, WritesComeLast(Tools), BooksKept, PTL

\* A failed call whose answers all arrived has changed nothing, unless it is a
\* merge that Gitea may put off.
THEOREM FailureIsClean ==
    ASSUME WritesComeLast(Tools)
    PROVE  Spec => []FailureMeansNothing
<1>1. TypeOK /\ Accounts => FailureMeansNothing
  BY DEF Accounts, FailureMeansNothing
<1> QED BY <1>1, WritesComeLast(Tools), BooksKept, PTL

-----------------------------------------------------------------------------
(* The registry's guards.                                                   *)

\* A call that has got past the registry holds no step that its flags rule out.
AdmitsReads == readOnly \/ oauth => ReadsOnly(program)
AdmitsNoSaves == oauth => SavesNothing(program)

\* The program of a call is chosen when it arrives and stays as it is.
LEMMA ProgramSteps ==
    ASSUME [Next]_vars
    PROVE  /\ FixedFlags
           /\ \/ \E t \in Tools : \E m \in DOMAIN t.methods : CallTool(t, m)
              \/ program' = <<>>
              \/ program' = program /\ called' = called
<1>1. FixedFlags
  BY Sends
<1>2. ASSUME NEW t \in Tools, NEW m \in DOMAIN t.methods, DenyCall(t, m)
      PROVE  program' = <<>>
  BY <1>2 DEF DenyCall
<1>3. ASSUME GiveUp \/ Refuse \/ Send \/ AnswerSuccess \/ AnswerDeferred \/ Save \/ Finish
      PROVE  program' = program /\ called' = called
  BY <1>3 DEF GiveUp, Refuse, Send, AnswerSuccess, AnswerDeferred, Save, Finish
<1>4. ASSUME NEW reply \in {"missing", "error", "lost"}, AnswerFailure(reply)
      PROVE  program' = program /\ called' = called
  BY <1>4 DEF AnswerFailure
<1>5. ASSUME NEW host \in Hosts, AnswerRedirect(host)
      PROVE  program' = program /\ called' = called
  BY <1>5 DEF AnswerRedirect
<1>6. ASSUME UNCHANGED vars
      PROVE  program' = program /\ called' = called
  BY <1>6 DEF vars
<1> QED BY <1>1, <1>2, <1>3, <1>4, <1>5, <1>6 DEF Next

LEMMA ReadsKept ==
    ASSUME ReadToolsRead(Tools), AdmitsReads, [Next]_vars
    PROVE  AdmitsReads'
<1>1. readOnly' = readOnly /\ oauth' = oauth
  BY ProgramSteps DEF FixedFlags
<1>2. ASSUME NEW t \in Tools, NEW m \in DOMAIN t.methods, CallTool(t, m)
      PROVE  AdmitsReads'
  <2>1. Offered(t) /\ program' \in t.methods[m]
    BY <1>2 DEF CallTool
  <2>2. readOnly \/ oauth => ReadsOnly(program')
    BY <2>1 DEF Offered, ReadToolsRead
  <2> QED BY <1>1, <2>2 DEF AdmitsReads, ReadsOnly
<1>3. CASE program' = <<>>
  BY <1>3 DEF AdmitsReads, ReadsOnly
<1>4. CASE program' = program /\ called' = called
  BY <1>1, <1>4 DEF AdmitsReads, ReadsOnly
<1> QED BY <1>2, <1>3, <1>4, ProgramSteps

LEMMA NoSavesKept ==
    ASSUME SavesDenied(Tools), AdmitsNoSaves, [Next]_vars
    PROVE  AdmitsNoSaves'
<1>1. oauth' = oauth
  BY ProgramSteps DEF FixedFlags
<1>2. ASSUME NEW t \in Tools, NEW m \in DOMAIN t.methods, CallTool(t, m)
      PROVE  AdmitsNoSaves'
  <2>1. Offered(t) /\ m \in Exposed(t) /\ program' \in t.methods[m]
    BY <1>2 DEF CallTool
  <2>2. oauth => SavesNothing(program')
    BY <2>1 DEF Offered, Exposed, SavesDenied
  <2> QED BY <1>1, <2>2 DEF AdmitsNoSaves, SavesNothing
<1>3. CASE program' = <<>>
  BY <1>3 DEF AdmitsNoSaves, SavesNothing
<1>4. CASE program' = program /\ called' = called
  BY <1>1, <1>4 DEF AdmitsNoSaves, SavesNothing
<1> QED BY <1>2, <1>3, <1>4, ProgramSteps

\* Only a call of a tool that drops the success flag has a step that does.
Answerable == ReadsFlags(program) \/ called[1] \in FlagIgnorers

LEMMA AnswerableKept ==
    ASSUME FlagsRead(Tools), Answerable, [Next]_vars
    PROVE  Answerable'
<1>1. ASSUME NEW t \in Tools, NEW m \in DOMAIN t.methods, CallTool(t, m)
      PROVE  Answerable'
  <2>1. called' = <<t.name, m>> /\ program' \in t.methods[m]
    BY <1>1 DEF CallTool, NewCall
  <2>2. t.name \in FlagIgnorers \/ ReadsFlags(program')
    BY <2>1 DEF FlagsRead
  <2> QED BY <2>1, <2>2 DEF Answerable, ReadsFlags
<1>2. CASE program' = <<>>
  BY <1>2 DEF Answerable, ReadsFlags
<1>3. CASE program' = program /\ called' = called
  BY <1>3 DEF Answerable, ReadsFlags
<1> QED BY <1>1, <1>2, <1>3, ProgramSteps

\* A write reported as done was carried out, for any catalogue in which the
\* write comes last and no tool but FlagIgnorers drops a success flag: not the
\* order of the answers, nor what is lost or redirected, can make it untrue.
THEOREM SuccessIsTrue ==
    ASSUME WritesComeLast(Tools), FlagsRead(Tools)
    PROVE  Spec => []SuccessMeansDone
<1>1. Init => Answerable
  BY DEF Init, Answerable, ReadsFlags
<1>2. Answerable /\ [Next]_vars => Answerable'
  BY AnswerableKept, FlagsRead(Tools)
<1>3. TypeOK /\ Accounts /\ Answerable => SuccessMeansDone
  BY DEF Accounts, Answerable, SuccessMeansDone, HasWrite
<1> QED BY <1>1, <1>2, <1>3, WritesComeLast(Tools), BooksKept, PTL DEF Spec

\* A step that marks the call refused or leaves a file is the one for it.
LEMMA Marks ==
    ASSUME [Next]_vars
    PROVE  /\ refused' => refused \/ Refuse
           /\ saved' => saved \/ Save
<1>1. ASSUME NEW t \in Tools, NEW m \in DOMAIN t.methods, CallTool(t, m) \/ DenyCall(t, m)
      PROVE  ~refused' /\ ~saved'
  BY <1>1 DEF CallTool, DenyCall, NewCall
<1>2. CASE GiveUp \/ Send \/ AnswerSuccess \/ AnswerDeferred \/ Finish
  BY <1>2 DEF GiveUp, Send, AnswerSuccess, AnswerDeferred, Finish
<1>3. CASE Refuse \/ Save
  BY <1>3 DEF Refuse, Save
<1>4. ASSUME NEW reply \in {"missing", "error", "lost"}, AnswerFailure(reply)
      PROVE  refused' = refused /\ saved' = saved
  BY <1>4 DEF AnswerFailure
<1>5. ASSUME NEW host \in Hosts, AnswerRedirect(host)
      PROVE  refused' = refused /\ saved' = saved
  BY <1>5 DEF AnswerRedirect
<1>6. CASE UNCHANGED vars
  BY <1>6 DEF vars
<1> QED BY <1>1, <1>2, <1>3, <1>4, <1>5, <1>6 DEF Next

\* The registry and the transport agree: RoundTrip refuses no request of a
\* call that was admitted, for any catalogue whose read tools only read.
THEOREM LayersMatch ==
    ASSUME ReadToolsRead(Tools)
    PROVE  Spec => []LayersAgree
<1>1. Init => AdmitsReads /\ LayersAgree
  BY DEF Init, AdmitsReads, ReadsOnly, LayersAgree
<1>2. AdmitsReads /\ LayersAgree /\ TypeOK /\ [Next]_vars => (AdmitsReads /\ LayersAgree)'
  <2> SUFFICES ASSUME AdmitsReads, LayersAgree, TypeOK, [Next]_vars
               PROVE  (AdmitsReads /\ LayersAgree)'
    OBVIOUS
  <2>1. ASSUME Refuse PROVE FALSE
    <3>1. pos <= Len(program) /\ program[pos].writes /\ Guarded(program[pos].via)
      BY <2>1 DEF Refuse, AtStep
    <3>2. readOnly \/ oauth
      BY <3>1 DEF Guarded
    <3> QED BY <3>1, <3>2 DEF AdmitsReads, ReadsOnly, TypeOK
  <2>2. LayersAgree'
    BY <2>1, Marks DEF LayersAgree
  <2> QED BY <2>2, ReadsKept, ReadToolsRead(Tools)
<1> QED BY <1>1, <1>2, TypeCorrect, PTL DEF Spec

\* No web client's call leaves a file on the server, for any catalogue whose
\* saving methods are on a denylist of tool.go or belong to a write tool.
THEOREM DiskUntouched ==
    ASSUME SavesDenied(Tools)
    PROVE  Spec => []NoFilesForWebClients
<1>1. Init => AdmitsNoSaves /\ NoFilesForWebClients
  BY DEF Init, AdmitsNoSaves, SavesNothing, NoFilesForWebClients
<1>2. /\ AdmitsNoSaves /\ NoFilesForWebClients /\ TypeOK /\ [Next]_vars
      => (AdmitsNoSaves /\ NoFilesForWebClients)'
  <2> SUFFICES ASSUME AdmitsNoSaves, NoFilesForWebClients, TypeOK, [Next]_vars
               PROVE  (AdmitsNoSaves /\ NoFilesForWebClients)'
    OBVIOUS
  <2>1. ASSUME oauth, Save PROVE FALSE
    <3>1. pos <= Len(program) /\ program[pos].via = "disk"
      BY <2>1 DEF Save, AtStep
    <3> QED BY <2>1, <3>1 DEF AdmitsNoSaves, SavesNothing, TypeOK
  <2>2. NoFilesForWebClients'
    BY <2>1, Marks, ProgramSteps DEF FixedFlags, NoFilesForWebClients
  <2> QED BY <2>2, NoSavesKept, SavesDenied(Tools)
<1> QED BY <1>1, <1>2, TypeCorrect, PTL DEF Spec

=============================================================================
