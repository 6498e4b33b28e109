----------------------------- MODULE MCLifecycle ----------------------------
(* Lifecycle with command lines of every kind that cmd.go tells apart. *)
EXTENDS Lifecycle, TLC

Unset == [name \in EnvNames |-> ""]
OAuthSettings ==
    "clientID" :> "id" @@ "publicURL" :> "https://host" @@ "secretFile" :> "secret"
    @@ "keyFile" :> "key" @@ "allowedUser" :> "alice"

Http == "transport" :> "http"
NoFlags == [name \in {} |-> ""]

\* All by flags, as in deploy/docker-compose.yml; all by the environment; and
\* flags beside either.
Complete ==
    {[flags |-> Http @@ OAuthSettings, env |-> Unset],
     [flags |-> NoFlags, env |-> "mode" :> "http" @@ OAuthSettings @@ Unset],
     [flags |-> Http @@ "port" :> "9000", env |-> OAuthSettings @@ Unset]}

\* One setting is missing or unusable.
Faults ==
    {<<"publicURL", "http://host">>, <<"publicURL", "https://host/path">>,
     <<"secretFile", "">>, <<"keyFile", "short">>, <<"allowedUser", " ">>}
Incomplete ==
    {[flags |-> f[1] :> f[2] @@ Http @@ OAuthSettings, env |-> Unset] : f \in Faults}

\* The environment decides the transport against the flag.
Overridden ==
    {[flags |-> Http @@ OAuthSettings, env |-> "mode" :> "stdio" @@ Unset],
     [flags |-> OAuthSettings, env |-> "mode" :> "http" @@ Unset],
     [flags |-> Http, env |-> "mode" :> "sse" @@ Unset]}

\* Without OAuth; the client ID of the environment is taken back by a flag.
Plain ==
    {[flags |-> NoFlags, env |-> Unset],
     [flags |-> Http @@ "clientID" :> "", env |-> OAuthSettings @@ Unset],
     [flags |-> Http, env |-> "tokenFile" :> "unreadable" @@ Unset]}

MCCommands == Complete \cup Incomplete \cup Overridden \cup Plain

=============================================================================
