---------------------------- MODULE LinkstProofs ----------------------------
(***************************************************************************)
(* For every upper limit and slack: linkst_join and linkst_disjoin stay    *)
(* inside the allocated rows, rows are never lost, and the matrix          *)
(* implements the graph of module LinkGraph.                               *)
(***************************************************************************)
EXTENDS Linkst, TLAPS

(* What linkst_join needs of linkst_resize: for a row within the limit the new
   size covers the row, stays within the limit and keeps the old rows. *)
LEMMA ResizeCovers ==
    ASSUME NEW x \in 1 .. UpperLimit, matrix_size \in 0 .. UpperLimit
    PROVE  /\ SizeAfterJoin(x) \in 0 .. UpperLimit
           /\ SizeAfterJoin(x) >= x
           /\ SizeAfterJoin(x) >= matrix_size
<1>1. CASE x < matrix_size
    BY <1>1, LinkstAssumption DEF SizeAfterJoin
<1>2. CASE x >= matrix_size
    BY <1>2, LinkstAssumption DEF SizeAfterJoin, Resized
<1>3. QED
    BY <1>1, <1>2, LinkstAssumption

(* CellOf maps every pair of valid ids to a cell of the triangle. *)
LEMMA CellOfIsCell ==
    ASSUME NEW a \in 1 .. UpperLimit, NEW b \in 1 .. UpperLimit
    PROVE  /\ CellOf(a, b) \in Cell
           /\ CellOf(a, b)[1] \in 1 .. UpperLimit
           /\ {CellOf(a, b)[1], CellOf(a, b)[2]} = {a, b}
<1>1. CASE a > b
    BY <1>1, LinkstAssumption DEF CellOf, Cell
<1>2. CASE ~(a > b)
    BY <1>2, LinkstAssumption DEF CellOf, Cell
<1>3. QED
    BY <1>1, <1>2

(* The inductive invariant: types and the allocated rows. *)
IInv == TypeOK /\ InAllocatedRows

LEMMA InitInv == Init => IInv
BY LinkstAssumption DEF Init, IInv, TypeOK, InAllocatedRows

LEMMA JoinInv ==
    ASSUME IInv, NEW a \in Idx, NEW b \in Idx, Join(a, b)
    PROVE  IInv' /\ matrix_size' >= matrix_size
<1> USE DEF IInv
<1> DEFINE c == CellOf(a, b)
<1>1. a \in 1 .. UpperLimit /\ b \in 1 .. UpperLimit
    BY DEF Join
<1>2. c \in Cell /\ c[1] \in 1 .. UpperLimit
    BY <1>1, CellOfIsCell
<1>3. /\ matrix_size' \in 0 .. UpperLimit
      /\ matrix_size' >= c[1]
      /\ matrix_size' >= matrix_size
    BY <1>2, ResizeCovers DEF Join, TypeOK
<1>4. /\ linked' = linked \cup {c}
    BY DEF Join
<1>5. TypeOK'
    BY <1>2, <1>3, <1>4 DEF TypeOK, Join
<1>6. ASSUME NEW d \in linked'
      PROVE  d[1] <= matrix_size'
    <2>1. CASE d = c
        BY <2>1, <1>3
    <2>2. CASE d \in linked
        <3>1. d[1] <= matrix_size /\ d[1] \in 1 .. UpperLimit
            BY <2>2 DEF InAllocatedRows, TypeOK, Cell
        <3>2. QED
            BY <3>1, <1>3, LinkstAssumption DEF TypeOK
    <2>3. QED
        BY <1>4, <1>6, <2>1, <2>2
<1>7. QED
    BY <1>3, <1>5, <1>6 DEF InAllocatedRows

LEMMA StepInv == IInv /\ [Next]_vars => IInv' /\ matrix_size' >= matrix_size
<1> SUFFICES ASSUME IInv, [Next]_vars
             PROVE  IInv' /\ matrix_size' >= matrix_size
    OBVIOUS
<1>0. matrix_size \in Int
    BY LinkstAssumption DEF IInv, TypeOK
<1>1. ASSUME NEW a \in Idx, NEW b \in Idx, Join(a, b)
      PROVE  IInv' /\ matrix_size' >= matrix_size
    BY <1>1, JoinInv
<1>2. ASSUME NEW i \in Idx, Disjoin(i)
      PROVE  IInv' /\ matrix_size' >= matrix_size
    BY <1>0, <1>2, LinkstAssumption DEF Disjoin, IInv, TypeOK, InAllocatedRows
<1>3. ASSUME Tick
      PROVE  IInv' /\ matrix_size' >= matrix_size
    BY <1>0, <1>3, LinkstAssumption DEF Tick, IInv, TypeOK, InAllocatedRows
<1>4. ASSUME UNCHANGED vars
      PROVE  IInv' /\ matrix_size' >= matrix_size
    BY <1>0, <1>4 DEF vars, IInv, TypeOK, InAllocatedRows
<1>5. QED
    BY <1>1, <1>2, <1>3, <1>4 DEF Next

(* Every access of linkst_join and linkst_disjoin is inside the rows that were
   allocated, for every upper limit: in particular for MAX_NODE. *)
THEOREM RowsAllocated == Spec => [](TypeOK /\ InAllocatedRows)
<1>1. IInv /\ [Next]_vars => IInv'
    BY StepInv
<1>2. QED
    BY InitInv, <1>1, PTL DEF Spec, IInv

(* The resize stays within the limit of linkst_new, and no cell is marked that
   linkst_joined would not look at. *)
THEOREM LinkstTypes == Spec => []TypeOK
BY RowsAllocated, PTL

(* The cell of a pair is the same in both orders, and a marked cell is the cell of
   the two ids it joins. *)
LEMMA CellOfPair ==
    ASSUME NEW a \in Idx, NEW b \in Idx
    PROVE  /\ CellOf(a, b) = CellOf(b, a)
           /\ {CellOf(a, b)[1], CellOf(a, b)[2]} = {a, b}
           /\ \A c \in Cell : {a, b} = {c[1], c[2]} => c = CellOf(a, b)
<1>1. a \in Int /\ b \in Int
    BY LinkstAssumption DEF Idx
<1>2. /\ CellOf(a, b) = CellOf(b, a)
      /\ {CellOf(a, b)[1], CellOf(a, b)[2]} = {a, b}
    BY <1>1 DEF CellOf
<1>3. ASSUME NEW c \in Cell, {a, b} = {c[1], c[2]}
      PROVE  c = CellOf(a, b)
    <2>1. c = <<c[1], c[2]>> /\ c[1] \in Int /\ c[2] \in Int /\ c[2] <= c[1]
        BY LinkstAssumption DEF Cell, Idx
    <2>2. (c[1] = a /\ c[2] = b) \/ (c[1] = b /\ c[2] = a)
        BY <1>3
    <2>3. QED
        BY <1>1, <2>1, <2>2 DEF CellOf
<1>4. QED
    BY <1>2, <1>3

(* linkst_joined answers 1 for no pair that is not linked, and for every link that
   is younger than the timeout, in both orders. *)
THEOREM JoinedAsPromised == Spec => []JoinedAnswers
<1>1. IInv => JoinedAnswers
    <2> SUFFICES ASSUME IInv, NEW a \in Idx, NEW b \in Idx
                 PROVE  /\ Joined(a, b) = Joined(b, a)
                        /\ Joined(a, b) = 1 => \E c \in linked : {a, b} = {c[1], c[2]}
                        /\ \A c \in linked :
                              {a, b} = {c[1], c[2]} /\ now - timestamp[c] < Timeout =>
                                  Joined(a, b) = 1
        BY DEF JoinedAnswers
    <2>1. Joined(a, b) = Joined(b, a)
        BY CellOfPair DEF Joined
    <2>2. ASSUME Joined(a, b) = 1
          PROVE  \E c \in linked : {a, b} = {c[1], c[2]}
        BY <2>2, CellOfPair DEF Joined
    <2>3. ASSUME NEW c \in linked, {a, b} = {c[1], c[2]}
          PROVE  Joined(a, b) = 1
        <3>1. c \in Cell /\ c[1] <= matrix_size /\ c[2] <= c[1]
              /\ c[1] \in Nat \ {0} /\ c[2] \in Nat \ {0} /\ matrix_size \in Int
            BY LinkstAssumption DEF IInv, TypeOK, InAllocatedRows, Cell, Idx
        <3>2. c = CellOf(a, b)
            BY <3>1, <2>3, CellOfPair
        <3>3. (c[1] = a /\ c[2] = b) \/ (c[1] = b /\ c[2] = a)
            BY <2>3
        <3>4. a \in 1 .. matrix_size /\ b \in 1 .. matrix_size
            BY <3>1, <3>3, LinkstAssumption DEF Idx
        <3>5. QED
            BY <3>2, <3>4 DEF Joined
    <2>4. QED
        BY <2>1, <2>2, <2>3
<1>2. IInv /\ [Next]_vars => IInv'
    BY StepInv
<1>3. QED
    BY InitInv, <1>1, <1>2, PTL DEF Spec

-----------------------------------------------------------------------------
Graph == {{c[1], c[2]} : c \in linked}

(* linkst_disjoin(i) visits exactly the cells of the allocated rows that name i. *)
LEMMA VisitedNamesId ==
    ASSUME IInv, NEW i \in 1 .. matrix_size, NEW c \in linked
    PROVE  c \in Visited(i) <=> i \in {c[1], c[2]}
<1>1. /\ c \in Cell /\ c[1] \in 1 .. UpperLimit /\ c[2] \in 1 .. UpperLimit
      /\ c[2] <= c[1] /\ c[1] <= matrix_size /\ c = <<c[1], c[2]>>
      /\ matrix_size \in 0 .. UpperLimit
    BY DEF IInv, TypeOK, InAllocatedRows, Cell
<1>2. ASSUME c \in Visited(i) PROVE i \in {c[1], c[2]}
    BY <1>2 DEF Visited, CellOf
<1>3. ASSUME i = c[1] PROVE c \in Visited(i)
    <2>1. c[2] \in 1 .. matrix_size /\ c = CellOf(i, c[2])
        BY <1>1, <1>3, LinkstAssumption DEF CellOf
    <2>2. QED
        BY <2>1 DEF Visited
<1>4. ASSUME i = c[2] PROVE c \in Visited(i)
    <2>1. c[1] \in 1 .. matrix_size /\ c = CellOf(i, c[1])
        BY <1>1, <1>4, LinkstAssumption DEF CellOf
    <2>2. QED
        BY <2>1 DEF Visited
<1>5. QED
    BY <1>2, <1>3, <1>4

LEMMA JoinRefines ==
    ASSUME NEW a \in Idx, NEW b \in Idx, Join(a, b)
    PROVE  a \in 1 .. UpperLimit /\ b \in 1 .. UpperLimit /\ Graph' = Graph \cup {{a, b}}
<1>1. a \in 1 .. UpperLimit /\ b \in 1 .. UpperLimit /\ linked' = linked \cup {CellOf(a, b)}
    BY DEF Join
<1>2. {CellOf(a, b)[1], CellOf(a, b)[2]} = {a, b}
    BY <1>1, CellOfIsCell
<1>3. QED
    BY <1>1, <1>2 DEF Graph

LEMMA DisjoinRefines ==
    ASSUME IInv, NEW i \in Idx, Disjoin(i)
    PROVE  i \in 1 .. UpperLimit /\ Graph' = {l \in Graph : i \notin l}
<1>1. i \in 1 .. matrix_size /\ linked' = linked \ Visited(i)
    BY DEF Disjoin
<1>2. i \in 1 .. UpperLimit
    BY <1>1, LinkstAssumption DEF IInv, TypeOK
<1>3. \A c \in linked : c \in Visited(i) <=> i \in {c[1], c[2]}
    BY <1>1, VisitedNamesId
<1>4. QED
    BY <1>1, <1>2, <1>3 DEF Graph

(* The matrix implements the graph of link states: joining is symmetric, leaving
   removes the links of one id and no other. *)
THEOREM Implements == Spec => ImplementsGraph
<1>1. Init => G!Init
    BY DEF Init, G!Init
<1>2. IInv /\ [Next]_vars => [G!Next]_Graph
    <2> SUFFICES ASSUME IInv, [Next]_vars PROVE [G!Next]_Graph
        OBVIOUS
    <2>1. ASSUME NEW a \in Idx, NEW b \in Idx, Join(a, b) PROVE G!Next
        BY <2>1, JoinRefines DEF Graph, G!Next, G!Join
    <2>2. ASSUME NEW i \in Idx, Disjoin(i) PROVE G!Next
        BY <2>2, DisjoinRefines DEF Graph, G!Next, G!Disjoin
    <2>3. CASE Tick \/ UNCHANGED vars
        BY <2>3 DEF Tick, vars, Graph
    <2>4. QED
        BY <2>1, <2>2, <2>3 DEF Next
<1>3. IInv /\ [Next]_vars => IInv'
    BY StepInv
<1>4. QED
    BY InitInv, <1>1, <1>2, <1>3, PTL DEF Spec, ImplementsGraph, G!Spec, Graph
=============================================================================
