--------------------------- MODULE LifecycleProofs --------------------------
(***************************************************************************)
(* Theorems about Lifecycle, for every set of command lines, any number of *)
(* connections and any timeout of the shutdown.                            *)
(***************************************************************************)
EXTENDS Lifecycle, TLAPS

\* The steps that leave the process as it is but for what they are about.
Steps ==
    \/ Listen \/ ServeReturns \/ ServeFails \/ StdioEnds \/ MainReturns
    \/ Signal \/ Kill \/ ShutdownBegins \/ Elapse \/ ShutdownEnds

ConnectionSteps(c) ==
    Connect(c) \/ Request(c) \/ NoRequest(c) \/ Answer(c) \/ Disconnect(c)

LEMMA NextSteps ==
  Next <=> Start \/ Steps \/ Recreate \/ \E c \in Connections : ConnectionSteps(c)
  BY DEF Next, Steps, ConnectionSteps

-----------------------------------------------------------------------------
(* Types. *)

LEMMA TimeoutIsNat == Timeout \in Nat
  BY LifecycleAssumption

LEMMA InitTypeOK == Init => TypeOK
<1> SUFFICES ASSUME Init PROVE TypeOK
  OBVIOUS
<1>1. elapsed \in 0..Timeout
  BY TimeoutIsNat DEF Init
<1>2. taken \subseteq Ports
  BY DEF Init
<1>3. conn \in [Connections -> {"none", "new", "active", "answered", "cut"}]
  BY DEF Init
<1>4. status # "none" <=> main = "exited"
  BY DEF Init
<1>5. QED
  BY <1>1, <1>2, <1>3, <1>4 DEF Init, TypeOK

\* A recreated process is in an initial state.
LEMMA RecreatedTyped == Recreate => TypeOK'
<1>1. Recreate => Init'
  BY DEF Recreate, Init
<1>2. (Init => TypeOK)'
  BY InitTypeOK, PTL
<1>3. QED
  BY <1>1, <1>2

LEMMA ExitTyped ==
  ASSUME TypeOK, NEW s \in {"ok", "error", "killed"}, Exit(s)
  PROVE  TypeOK'
  BY DEF TypeOK, Exit

LEMMA MovesTyped ==
  ASSUME TypeOK, NEW c \in Connections, NEW from,
         NEW to \in {"none", "new", "active", "answered"}, Moves(c, from, to)
  PROVE  TypeOK'
  BY DEF TypeOK, Moves

LEMMA StepTypeOK == TypeOK /\ [Next]_vars => TypeOK'
<1> SUFFICES ASSUME TypeOK, [Next]_vars PROVE TypeOK'
  OBVIOUS
<1>1. CASE Start
  BY <1>1, ExitTyped DEF Start, TypeOK
<1>2. CASE Listen
  BY <1>2, ExitTyped DEF Listen, TypeOK
<1>3. CASE ServeReturns
  BY <1>3 DEF ServeReturns, TypeOK
<1>4. CASE ServeFails \/ StdioEnds \/ MainReturns \/ Kill
  BY <1>4, ExitTyped DEF ServeFails, StdioEnds, MainReturns, Kill
<1>5. CASE Signal
  BY <1>5, ExitTyped DEF Signal, TypeOK
<1>6. CASE ShutdownBegins
  BY <1>6 DEF ShutdownBegins, TypeOK
<1>7. CASE Elapse
  BY <1>7, TimeoutIsNat DEF Elapse, TypeOK
<1>8. CASE ShutdownEnds
  BY <1>8 DEF ShutdownEnds, TypeOK
<1>9. CASE \E c \in Connections : ConnectionSteps(c)
  BY <1>9, MovesTyped
     DEF ConnectionSteps, Connect, Request, NoRequest, Answer, Disconnect
<1>10. CASE Recreate
  BY <1>10, RecreatedTyped
<1>11. CASE UNCHANGED vars
  BY <1>11 DEF vars, TypeOK
<1>12. QED
  BY <1>1, <1>2, <1>3, <1>4, <1>5, <1>6, <1>7, <1>8, <1>9, <1>10, <1>11,
     NextSteps DEF Steps

\* Every variable keeps its type through starts, signals, shutdowns, crashes and
\* restarts (Execute in cmd.go, Run in operation.go).
THEOREM TypeCorrect == Spec => []TypeOK
<1>1. QED
  BY InitTypeOK, StepTypeOK, PTL DEF Spec

-----------------------------------------------------------------------------
(* Where the process is says which checks it has passed. *)

Running == main \in {"stdio", "listen", "serving", "closed"}

\* The checks of initFlagSet and the choice of the transport in Run.
Checked ==
    Running => /\ Starts(cmd)
               /\ Mode(cmd) = IF main = "stdio" THEN "stdio" ELSE "http"

LEMMA StepChecked == Checked /\ [Next]_vars => Checked'
<1> SUFFICES ASSUME Checked, [Next]_vars PROVE Checked'
  OBVIOUS
<1> USE DEF Checked, Running
<1>1. CASE Start
  BY <1>1 DEF Start, Exit
<1>2. CASE Steps
  BY <1>2 DEF Steps, Listen, ServeReturns, ServeFails, StdioEnds, MainReturns,
     Signal, Kill, ShutdownBegins, Elapse, ShutdownEnds, Exit
<1>3. CASE \E c \in Connections : ConnectionSteps(c)
  BY <1>3 DEF ConnectionSteps, Connect, Request, NoRequest, Answer, Disconnect,
     Moves
<1>4. CASE Recreate
  BY <1>4 DEF Recreate
<1>5. CASE UNCHANGED vars
  BY <1>5 DEF vars
<1>6. QED
  BY <1>1, <1>2, <1>3, <1>4, <1>5, NextSteps

LEMMA InitChecked == Init => Checked
  BY DEF Init, Checked, Running

\* Flags and environment in any mixture: who gets past the start with a client ID
\* serves http only, and with every setting of OAuth mode given.
THEOREM OnlyGuarded == Spec => []OAuthGuarded
<1>1. Checked => OAuthGuarded
  <2> SUFFICES ASSUME Checked, Running, OAuth(cmd)
               PROVE  /\ main # "stdio"
                      /\ \A name \in Names : Setting(cmd, name) # ""
    BY Zenon DEF OAuthGuarded, Running
  <2>1. OAuthComplete(cmd)
    BY Zenon DEF Checked, Starts
  <2>2. main # "stdio"
    BY <2>1, Zenon DEF Checked, OAuthComplete
  <2>3. ASSUME NEW name \in Names PROVE Setting(cmd, name) # ""
    BY <2>1, Zenon DEF Names, OAuthComplete, OAuth, CanonicalURLs
  <2>4. QED
    BY <2>2, <2>3, Zenon
<1>2. QED
  BY <1>1, InitChecked, StepChecked, PTL DEF Spec

-----------------------------------------------------------------------------
(* Shutdown. *)

\* Connections come after the goroutine that waits for signals, a cut comes
\* with the end of the process, and a shutdown that is done has left nobody busy
\* unless its time was up.
Orderly ==
    /\ main \in {"start", "stdio"} =>
          closer = "none" /\ \A c \in Connections : conn[c] = "none"
    /\ main # "exited" => \A c \in Connections : conn[c] # "cut"
    /\ closer = "done" /\ main # "exited" => ~Busy \/ elapsed = Timeout

SInv == TypeOK /\ Orderly /\ CutOnlyLate

LEMMA InitSInv == Init => SInv
  BY InitTypeOK DEF Init, SInv, Orderly, CutOnlyLate

\* A process that ends cuts whom it was serving.
LEMMA ExitOrderly ==
  ASSUME SInv, NEW s \in {"ok", "error", "killed"}, Exit(s),
         s = "ok" => ~Busy \/ elapsed = Timeout, main # "exited"
  PROVE  Orderly' /\ CutOnlyLate'
<1>1. Orderly'
  BY DEF SInv, TypeOK, Orderly, Exit
<1>2. CutOnlyLate'
  BY DEF SInv, TypeOK, Orderly, CutOnlyLate, Exit, Busy
<1>3. QED
  BY <1>1, <1>2

\* A connection moves on; it does not become busy after a shutdown.
LEMMA MovesOrderly ==
  ASSUME SInv, NEW c \in Connections, NEW from, NEW to, Moves(c, from, to),
         to \in {"none", "new", "active", "answered"},
         to = "new" => Listening, to = "active" => from = "new", from # to,
         from # "none" \/ Listening
  PROVE  Orderly' /\ CutOnlyLate'
<1>1. /\ conn \in [Connections -> {"none", "new", "active", "answered", "cut"}]
      /\ conn[c] = from /\ main # "exited"
      /\ conn' = [conn EXCEPT ![c] = to]
      /\ UNCHANGED <<main, closer, elapsed, status>>
  BY DEF SInv, TypeOK, Moves
<1>2. main \notin {"start", "stdio"}
  BY <1>1 DEF SInv, Orderly, Listening
<1>3. \A d \in Connections : conn'[d] # "cut"
  BY <1>1 DEF SInv, Orderly
<1>4. closer = "done" => (Busy' => Busy)
  BY <1>1 DEF Busy, Listening, ShuttingDown
<1>5. Orderly'
  BY <1>1, <1>2, <1>3, <1>4 DEF SInv, Orderly
<1>6. CutOnlyLate'
  BY <1>3 DEF CutOnlyLate
<1>7. QED
  BY <1>5, <1>6

LEMMA StepSInv == SInv /\ [Next]_vars => SInv'
<1> SUFFICES ASSUME SInv, [Next]_vars PROVE Orderly' /\ CutOnlyLate'
  BY StepTypeOK DEF SInv
<1>a. /\ main # "exited" => status = "none"
      /\ \A c \in Connections :
            conn[c] \in {"none", "new", "active", "answered", "cut"}
  BY DEF SInv, TypeOK
<1>1. CASE Start
  BY <1>1, <1>a, ExitOrderly DEF Start, SInv, Orderly, CutOnlyLate, Busy
<1>2. CASE Listen
  BY <1>2, <1>a, ExitOrderly DEF Listen, SInv, Orderly, CutOnlyLate, Busy
<1>3. CASE ServeReturns
  BY <1>3, <1>a DEF ServeReturns, SInv, Orderly, CutOnlyLate, Busy
<1>4. CASE ServeFails
  BY <1>4, ExitOrderly DEF ServeFails, Listening
<1>5. CASE StdioEnds
  <2>1. ~Busy
    BY <1>5 DEF StdioEnds, SInv, Orderly, Busy
  <2>2. QED
    BY <1>5, <2>1, ExitOrderly DEF StdioEnds
<1>6. CASE MainReturns
  <2>1. ~Busy \/ elapsed = Timeout
    BY <1>6 DEF MainReturns, SInv, Orderly
  <2>2. QED
    BY <1>6, <2>1, ExitOrderly DEF MainReturns
<1>7. CASE Signal
  BY <1>7, <1>a, ExitOrderly DEF Signal, SInv, Orderly, CutOnlyLate, Busy
<1>8. CASE Kill
  BY <1>8, ExitOrderly DEF Kill
<1>9. CASE ShutdownBegins
  BY <1>9, <1>a DEF ShutdownBegins, SInv, Orderly, CutOnlyLate, Busy
<1>10. CASE Elapse
  BY <1>10, <1>a DEF Elapse, SInv, Orderly, CutOnlyLate, Busy
<1>11. CASE ShutdownEnds
  BY <1>11, <1>a DEF ShutdownEnds, SInv, Orderly, CutOnlyLate, Busy
<1>12. CASE \E c \in Connections : ConnectionSteps(c)
  BY <1>12, MovesOrderly
     DEF ConnectionSteps, Connect, Request, NoRequest, Answer, Disconnect
<1>13. CASE Recreate
  BY <1>13 DEF Recreate, Orderly, CutOnlyLate
<1>14. CASE UNCHANGED vars
  BY <1>14 DEF vars, SInv, Orderly, CutOnlyLate, Busy
<1>15. QED
  BY <1>1, <1>2, <1>3, <1>4, <1>5, <1>6, <1>7, <1>8, <1>9, <1>10, <1>11,
     <1>12, <1>13, <1>14, NextSteps DEF Steps

\* Whatever signals, connections and hung calls come together: a process that
\* ends well has cut no request before the time of its shutdown was up, because
\* main waits for Shutdown and Shutdown for everybody (Run in operation.go).
THEOREM NobodyCutEarly == Spec => []CutOnlyLate
<1>1. SInv => CutOnlyLate
  BY DEF SInv
<1>2. QED
  BY <1>1, InitSInv, StepSInv, PTL DEF Spec

=============================================================================
