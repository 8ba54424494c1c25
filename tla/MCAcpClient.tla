---------------------------- MODULE MCAcpClient ----------------------------
(* Small instances of AcpClient for TLC. *)
EXTENDS AcpClient, TLC

CallersAlike == Permutations(Callers)
==============================================================================
