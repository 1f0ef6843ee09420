----------------------------- MODULE LinkGraph -----------------------------
(***************************************************************************)
(* What the link states of a virtual network promise (linkst.h): an        *)
(* undirected graph over the session ids, where joining is symmetric and   *)
(* leaving removes every link of an id and no other.                       *)
(***************************************************************************)
EXTENDS Integers

CONSTANT Ids

VARIABLE graph      \* the joined pairs, as sets {a, b}

Init == graph = {}

Join(a, b) == graph' = graph \cup {{a, b}}
Disjoin(a) == graph' = {l \in graph : a \notin l}

Next == \E a, b \in Ids : Join(a, b) \/ Disjoin(a)

Spec == Init /\ [][Next]_graph
=============================================================================
