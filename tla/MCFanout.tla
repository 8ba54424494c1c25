------------------------------ MODULE MCFanout ------------------------------
EXTENDS Fanout, TLC

CONSTANTS c1, c2, s1, s2

(* An item of one session.  The first client speaks, the second listens. *)
OneItem == (s1 :> 1) @@ (s2 :> 0)
OneSpeaks == (c1 :> 2) @@ (c2 :> 0)
==============================================================================
