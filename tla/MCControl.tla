------------------------------ MODULE MCControl ------------------------------
(* Instances of Control for TLC. *)
EXTENDS ControlProps, TLC

CONSTANTS va, vb, n1, n2

\* n1 belongs to network va, n2 to the last network there is
MCNodeNet == [n \in Node |-> IF n = n2 /\ vb \in Network THEN vb ELSE va]
=============================================================================
