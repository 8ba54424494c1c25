----------------------------- MODULE MCHubTurns -----------------------------
(* Small instances of HubTurns for TLC. *)
EXTENDS HubTurns, TLC

CONSTANTS t1, t2, t3, s1, s2

OneSession == (t1 :> s1) @@ (t2 :> s1)
ThreeTurns == OneSession @@ (t3 :> s1)
TwoSessions == (t1 :> s1) @@ (t2 :> s1) @@ (t3 :> s2)
==============================================================================
