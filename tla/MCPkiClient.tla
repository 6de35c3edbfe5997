---------------------------- MODULE MCPkiClient ----------------------------
(* An instance of PkiClient for TLC: two processes, which may be swapped.  *)
EXTENDS PkiClient, TLC

CONSTANTS p1, p2

ProcessSymmetry == Permutations(Process)
=============================================================================
