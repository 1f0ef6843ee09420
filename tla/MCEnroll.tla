------------------------------ MODULE MCEnroll ------------------------------
(* Instances of Enroll for TLC. *)
EXTENDS Enroll

CONSTANTS s1, s2, s3, n1, n2

\* s1 and s2 are two connections of one agent; s3 is another agent's
MCNodeOf == [s \in Session |-> IF s = s3 THEN n2 ELSE n1]
=============================================================================
