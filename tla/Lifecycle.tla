------------------------------ MODULE Lifecycle -----------------------------
(***************************************************************************)
(* The process: how it starts from flags and environment (cmd.go), serves  *)
(* connections, and stops at a signal (Run in operation.go).               *)
(*                                                                         *)
(* In http mode two goroutines matter besides those of the connections:    *)
(* main, which listens, and the one that waits for a signal (closer).      *)
(* net/http is external: Shutdown closes the listener and idle connections *)
(* at once, then waits until no connection is busy or its context ends.    *)
(***************************************************************************)
EXTENDS Integers

CONSTANTS
    Commands,      \* command lines with their environments
    Connections,   \* connections that can be open at once
    Timeout        \* ticks of the shutdown context: 10 s

Names == {"clientID", "publicURL", "secretFile", "keyFile", "allowedUser"}
FlagNames == Names \cup {"transport", "port"}
EnvNames == Names \cup {"mode", "tokenFile"}

ASSUME LifecycleAssumption ==
    /\ \A c \in Commands :
          /\ DOMAIN c.flags \subseteq FlagNames
          /\ DOMAIN c.env = EnvNames
    /\ Timeout \in Nat

VARIABLES
    cmd,        \* what the process was started with
    taken,      \* ports another program listens on
    main,       \* where main is
    closer,     \* where the goroutine that waits for a signal is
    pending,    \* a signal is in sigCh, which holds one
    elapsed,    \* ticks since Shutdown was called
    conn,       \* the connections
    status      \* how the process ended

vars == <<cmd, taken, main, closer, pending, elapsed, conn, status>>

Ports == {"8080", "9000"}

TypeOK ==
    /\ cmd \in Commands
    /\ taken \subseteq Ports
    /\ main \in {"start", "stdio", "listen", "serving", "closed", "exited"}
    /\ closer \in {"none", "waiting", "shutdown", "done"}
    /\ pending \in BOOLEAN
    /\ elapsed \in 0..Timeout
    /\ conn \in [Connections -> {"none", "new", "active", "answered", "cut"}]
    /\ status \in {"none", "ok", "error", "killed"}
    /\ status # "none" <=> main = "exited"

-----------------------------------------------------------------------------
(* initFlagSet: flags, environment, and the checks of OAuth mode.           *)

Flag(c, name, default) == IF name \in DOMAIN c.flags THEN c.flags[name] ELSE default

\* The environment is the default of these flags, and overrides two others.
Setting(c, name) == Flag(c, name, c.env[name])

Mode(c) == IF c.env["mode"] # "" THEN c.env["mode"] ELSE Flag(c, "transport", "stdio")
Port(c) == Flag(c, "port", "8080")
OAuth(c) == Setting(c, "clientID") # ""

\* https with a host and no path, query, fragment or user; a slash is cut off.
CanonicalURLs == {"https://host", "https://host/"}

\* Defect: the transport is checked before MCP_MODE overrides it.
ChecksFlagOnly(c) ==
    /\ Flag(c, "transport", "stdio") = "http"
    /\ Setting(c, "publicURL") \in CanonicalURLs
    /\ Setting(c, "secretFile") = "secret"
    /\ Setting(c, "keyFile") = "key"
    /\ Setting(c, "allowedUser") \notin {"", " "}

\* "secret" and "key" stand for files that can be read and hold a secret that
\* is not blank and a key of 32 bytes.
OAuthComplete(c) ==
    /\ Mode(c) = "http"
    /\ Setting(c, "publicURL") \in CanonicalURLs
    /\ Setting(c, "secretFile") = "secret"
    /\ Setting(c, "keyFile") = "key"
    /\ Setting(c, "allowedUser") \notin {"", " "}

Starts(c) == c.env["tokenFile"] # "unreadable" /\ (OAuth(c) => OAuthComplete(c))

-----------------------------------------------------------------------------

ShuttingDown == closer \in {"shutdown", "done"}
Listening == main = "serving" /\ ~ShuttingDown
Busy == \E c \in Connections : conn[c] \in {"new", "active"}

Init ==
    /\ cmd \in Commands /\ taken \in SUBSET Ports
    /\ main = "start" /\ closer = "none" /\ pending = FALSE /\ elapsed = 0
    /\ conn = [c \in Connections |-> "none"]
    /\ status = "none"

\* The process is gone, and with it every connection.
Exit(s) ==
    /\ main' = "exited"
    /\ status' = s
    /\ conn' = [c \in Connections |-> IF conn[c] = "active" THEN "cut" ELSE conn[c]]
    /\ UNCHANGED <<cmd, taken, closer, pending, elapsed>>

\* initFlagSet, RegisterTool, and in http mode signal.Notify and the goroutine.
Start ==
    /\ main = "start"
    /\ IF Starts(cmd) /\ Mode(cmd) \in {"stdio", "http"}
       THEN /\ main' = IF Mode(cmd) = "http" THEN "listen" ELSE "stdio"
            /\ closer' = IF Mode(cmd) = "http" THEN "waiting" ELSE "none"
            /\ UNCHANGED <<cmd, taken, pending, elapsed, conn, status>>
       ELSE Exit("error")

\* ListenAndServe, up to its loop: a server that is shutting down returns.
Listen ==
    /\ main = "listen"
    /\ IF ShuttingDown \/ Port(cmd) \notin taken
       THEN /\ main' = IF ShuttingDown THEN "closed" ELSE "serving"
            /\ UNCHANGED <<cmd, taken, closer, pending, elapsed, conn, status>>
       ELSE Exit("error")

\* ErrServerClosed, as soon as Shutdown has closed the listener.
ServeReturns ==
    /\ main = "serving"
    /\ ShuttingDown
    /\ main' = "closed"
    /\ UNCHANGED <<cmd, taken, closer, pending, elapsed, conn, status>>

\* The listener breaks: Run returns the error without waiting for anybody.
ServeFails ==
    /\ Listening
    /\ Exit("error")

\* Standard input ends; the SDK's Run returns.
StdioEnds ==
    /\ main = "stdio"
    /\ \E s \in {"ok", "error"} : Exit(s)

\* Defect: Run returns without waiting for Shutdown.
MainDoesNotWait ==
    /\ main = "closed"
    /\ Exit("ok")

\* Run waits for shutdownDone and returns.
MainReturns ==
    /\ main = "closed"
    /\ closer = "done"
    /\ Exit("ok")

-----------------------------------------------------------------------------
(* Signals.                                                                 *)

\* SIGINT or SIGTERM.  Before Notify, and in stdio mode, it ends the process;
\* after it, it goes to the channel, and is dropped if one is there already.
Signal ==
    /\ main # "exited"
    /\ IF closer = "none"
       THEN Exit("killed")
       ELSE /\ pending' = TRUE
            /\ UNCHANGED <<cmd, taken, main, closer, elapsed, conn, status>>

\* SIGKILL, or the machine goes down.
Kill ==
    /\ main # "exited"
    /\ Exit("killed")

\* The goroutine takes the signal and calls Shutdown.
ShutdownBegins ==
    /\ main # "exited"
    /\ closer = "waiting" /\ pending
    /\ closer' = "shutdown"
    /\ pending' = FALSE
    /\ UNCHANGED <<cmd, taken, main, elapsed, conn, status>>

\* Defect: the shutdown context counts one tick too many.
ElapsesLate ==
    /\ main # "exited" /\ closer = "shutdown"
    /\ elapsed <= Timeout
    /\ elapsed' = elapsed + 1
    /\ UNCHANGED <<cmd, taken, main, closer, pending, conn, status>>

Elapse ==
    /\ main # "exited" /\ closer = "shutdown"
    /\ elapsed < Timeout
    /\ elapsed' = elapsed + 1
    /\ UNCHANGED <<cmd, taken, main, closer, pending, conn, status>>

\* Defect: Shutdown has no deadline.
WaitsForAll ==
    /\ main # "exited" /\ closer = "shutdown"
    /\ ~Busy
    /\ closer' = "done"
    /\ UNCHANGED <<cmd, taken, main, pending, elapsed, conn, status>>

\* Shutdown returns, with or without an error, and shutdownDone is closed.
ShutdownEnds ==
    /\ main # "exited" /\ closer = "shutdown"
    /\ ~Busy \/ elapsed = Timeout
    /\ closer' = "done"
    /\ UNCHANGED <<cmd, taken, main, pending, elapsed, conn, status>>

-----------------------------------------------------------------------------
(* Connections.                                                             *)

Moves(c, from, to) ==
    /\ main # "exited"
    /\ conn[c] = from
    /\ conn' = [conn EXCEPT ![c] = to]
    /\ UNCHANGED <<cmd, taken, main, closer, pending, elapsed, status>>

\* A kept-alive connection that is idle takes another request the same way.
Connect(c) == Listening /\ (Moves(c, "none", "new") \/ Moves(c, "answered", "new"))

\* The headers arrive and the handler starts, also during a shutdown; or they
\* do not within ReadHeaderTimeout.
Request(c) == Moves(c, "new", "active")
NoRequest(c) == Moves(c, "new", "none")

\* The handler is through, or its client is gone and its context cancelled.  A
\* call of Gitea that hangs keeps it from either.
Answer(c) == Moves(c, "active", "answered")
Disconnect(c) == Moves(c, "active", "none")

\* The supervisor starts a new process, perhaps with another command line.
Recreate ==
    /\ main = "exited"
    /\ cmd' \in Commands /\ taken' \in SUBSET Ports
    /\ main' = "start" /\ closer' = "none" /\ pending' = FALSE /\ elapsed' = 0
    /\ conn' = [c \in Connections |-> "none"]
    /\ status' = "none"

Next ==
    \/ Start \/ Listen \/ ServeReturns \/ ServeFails \/ StdioEnds \/ MainReturns
    \/ Signal \/ Kill \/ ShutdownBegins \/ Elapse \/ ShutdownEnds
    \/ \E c \in Connections :
         Connect(c) \/ Request(c) \/ NoRequest(c) \/ Answer(c) \/ Disconnect(c)
    \/ Recreate

Spec == Init /\ [][Next]_vars

\* Goroutines run, and time passes.  Nothing is assumed of signals, clients,
\* handlers or the supervisor.
Fairness ==
    /\ WF_vars(Start) /\ WF_vars(Listen) /\ WF_vars(ServeReturns)
    /\ WF_vars(MainReturns) /\ WF_vars(ShutdownBegins) /\ WF_vars(Elapse)
    /\ WF_vars(ShutdownEnds)

FairSpec == Spec /\ Fairness

-----------------------------------------------------------------------------
\* A shutdown that ends well cuts no request in progress before its timeout,
\* however the signal meets start-up, further signals and new connections:
\* main does not return while Shutdown waits (Run in operation.go).
CutOnlyLate ==
    status = "ok" /\ (\E c \in Connections : conn[c] = "cut") => elapsed = Timeout

\* Whatever part of a configuration comes from flags and what from the
\* environment: a process that got past its start with a client ID serves http
\* only, with complete OAuth settings (initFlagSet, the order of its checks).
OAuthGuarded ==
    main \in {"listen", "serving", "closed", "stdio"} /\ OAuth(cmd) =>
        /\ main # "stdio"
        /\ \A name \in Names : Setting(cmd, name) # ""

\* A process that is told to stop stops, although calls hang, clients keep
\* their connections and the signal comes before the server listens (Run).
StopsAfterSignal == (pending /\ closer = "waiting") ~> main = "exited"

=============================================================================
