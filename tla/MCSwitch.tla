------------------------------ MODULE MCSwitch ------------------------------
(* Instances of Switch for TLC. *)
EXTENDS SwitchProps, TLC

CONSTANTS s1, s2, s3, va, vb, n1, n2, n3, m1, m2

\* n1 and n2 belong to network va, n3 to vb
MCNodeNet == [n \in Node |-> IF n = n3 THEN vb ELSE va]

Symmetry == Permutations(Session) \cup Permutations(Mac)
=============================================================================
