------------------------------- MODULE MCP2P -------------------------------
(* Instances of P2P for TLC. *)
EXTENDS P2P, TLC

\* Nothing orders attempts or addresses.
Symmetry == Permutations(Attempt) \cup Permutations(Mac)
=============================================================================
