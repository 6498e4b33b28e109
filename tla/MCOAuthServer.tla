---------------------------- MODULE MCOAuthServer ---------------------------
(* Small instances of OAuthServer for TLC. *)
EXTENDS OAuthServer, TLC

CONSTANTS c1, c2, u1, u2

\* The second client has registered one URI more than the first.
MCRegistered == [c \in Clients |-> IF c = c1 THEN {u1} ELSE RedirectURIs]

\* In the answers of a session: one without a usable lifetime, one short-lived.
MCExpiresIn == {-1, 1}

\* Slots are interchangeable: no action or property names one.
SlotSymmetry == Permutations(Slots)

=============================================================================
