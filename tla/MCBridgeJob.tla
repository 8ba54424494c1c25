---------------------------- MODULE MCBridgeJob ----------------------------
(* Small instances of BridgeJob for TLC. *)
EXTENDS BridgeJob, TLC

CallerSymmetry == Permutations(Callers)
============================================================================
