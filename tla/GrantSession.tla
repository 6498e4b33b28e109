---------------------------- MODULE GrantSession ----------------------------
(***************************************************************************)
(* What the authorization server promises of a login, without requests,    *)
(* tokens, clocks or locks.  A grant goes through one line of stages:      *)
(*                                                                         *)
(*   none -> login -> code -> minting <-> session,   any of them -> ended  *)
(*                                                                         *)
(* One grant moves along at a time, any number of them may end at the same *)
(* moment (a restart, a sweep of expired codes), and an ended one stays    *)
(* ended: nothing the server does brings its authority back.               *)
(***************************************************************************)
CONSTANT Grants

VARIABLE stage

Stages == {"none", "login", "code", "minting", "session", "ended"}

Moves == {<<"none", "login">>, <<"login", "code">>, <<"code", "minting">>,
          <<"minting", "session">>, <<"session", "minting">>}

Ends(g) == stage[g] # "none" /\ stage'[g] = "ended"

Init == stage = [g \in Grants |-> "none"]

Advance(g) ==
    /\ <<stage[g], stage'[g]>> \in Moves
    /\ \A h \in Grants \ {g} : stage'[h] = stage[h] \/ Ends(h)

End == \A h \in Grants : stage'[h] = stage[h] \/ Ends(h)

Next ==
    /\ stage' \in [Grants -> Stages]
    /\ End \/ \E g \in Grants : Advance(g)

Spec == Init /\ [][Next]_stage

=============================================================================
