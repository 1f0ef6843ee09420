------------------------------- MODULE Linkst -------------------------------
(***************************************************************************)
(* nvswitch/src/linkst.c: the triangular matrix that records which pairs   *)
(* of sessions were already told about each other.  Rows are allocated on  *)
(* demand by linkst_resize; only the cells [x][y] with y <= x exist.  The  *)
(* timestamp of a cell is written and never read: linkst_joined has the    *)
(* comparison with timeout_sec commented out.                              *)
(***************************************************************************)
EXTENDS Integers

CONSTANTS
    UpperLimit,     \* linkst->upper_limit, MAX_NODE in the switch
    Slack,          \* the 5 rows linkst_resize adds beyond what is needed
    Timeout,        \* linkst->timeout_sec
    MaxTime         \* bound: where the clock stops

ASSUME LinkstAssumption ==
    /\ UpperLimit \in Nat \ {0}
    /\ Slack \in Nat \ {0}
    /\ Timeout \in Nat \ {0}
    /\ MaxTime \in Nat

Idx  == 0 .. UpperLimit + 1      \* what callers pass, one beyond both ends
Cell == {c \in (1 .. UpperLimit) \X (1 .. UpperLimit) : c[2] <= c[1]}

VARIABLES
    matrix_size,    \* rows allocated
    linked,         \* the cells whose linked is 1
    timestamp,      \* when a cell was last joined, 0 for one that is not linked
    now             \* time()

vars == <<matrix_size, linked, timestamp, now>>

TypeOK ==
    /\ matrix_size \in 0 .. UpperLimit
    /\ linked \subseteq Cell
    /\ timestamp \in [Cell -> 0 .. MaxTime]
    /\ now \in 0 .. MaxTime

Init ==
    /\ matrix_size = 0
    /\ linked = {}
    /\ timestamp = [c \in Cell |-> 0]
    /\ now = 0

-----------------------------------------------------------------------------
\* The cell of an unordered pair: the larger index is the row.  (Slip: the order
\* of the arguments is kept.)
CellOf_AsGiven(a, b) == <<a, b>>
CellOf(a, b) == IF a > b THEN <<a, b>> ELSE <<b, a>>

\* linkst_resize(x - matrix_size): the new matrix_size.
Resized(x) ==
    LET need == x - matrix_size
    IN  IF matrix_size + need + Slack < UpperLimit
        THEN matrix_size + need + Slack
        ELSE matrix_size + (UpperLimit - matrix_size)

\* rows after linkst_join(a, b).  (Slip: the row of the pair itself is forgotten.)
SizeAfterJoin_Strict(x) == IF x > matrix_size + 1 THEN Resized(x) ELSE matrix_size
SizeAfterJoin(x) == IF x >= matrix_size THEN Resized(x) ELSE matrix_size

\* linkst_joined: 1, 0, or -1 for an index it has no row for
Joined(a, b) ==
    IF a \notin 1 .. matrix_size \/ b \notin 1 .. matrix_size THEN -1
    ELSE IF CellOf(a, b) \in linked THEN 1 ELSE 0

\* the cells linkst_disjoin(i) visits: the row of i and, below it, its column.
\* (Slip: only the row.)
Visited_RowOnly(i) == {CellOf(i, j) : j \in 1 .. i}
Visited(i) == {CellOf(i, j) : j \in 1 .. matrix_size}

Join(a, b) ==
    /\ a \in 1 .. UpperLimit /\ b \in 1 .. UpperLimit
    /\ matrix_size' = SizeAfterJoin(CellOf(a, b)[1])
    /\ linked' = linked \cup {CellOf(a, b)}
    /\ timestamp' = [timestamp EXCEPT ![CellOf(a, b)] = now]
    /\ UNCHANGED now

Disjoin(i) ==
    /\ i \in 1 .. matrix_size
    /\ linked' = linked \ Visited(i)
    /\ timestamp' = [c \in Cell |-> IF c \in linked \cap Visited(i) THEN 0 ELSE timestamp[c]]
    /\ UNCHANGED <<matrix_size, now>>

\* The clock, up to the bound
Tick ==
    /\ now < MaxTime
    /\ now' = now + 1
    /\ UNCHANGED <<matrix_size, linked, timestamp>>

Next ==
    \/ Tick
    \/ \E a, b \in Idx : Join(a, b)
    \/ \E i \in Idx : Disjoin(i)

Spec == Init /\ [][Next]_vars

-----------------------------------------------------------------------------
(* Every cell that is marked lies in a row that was allocated: linkst_join and
   linkst_disjoin never touch memory outside the matrix, whatever the order in
   which large and small ids arrive (linkst_resize near the upper limit). *)
InAllocatedRows == \A c \in linked : c[1] <= matrix_size

(* linkst_joined answers 1 for no pair that is not linked, in either order and
   whatever rows exist, and answers 1 for a link younger than the timeout.  Of an
   older link it promises nothing: it still answers 1, where test_linkst.c:54-60
   expects it not to. *)
JoinedAnswers ==
    \A a, b \in Idx :
        /\ Joined(a, b) = Joined(b, a)
        /\ Joined(a, b) = 1 => \E c \in linked : {a, b} = {c[1], c[2]}
        /\ \A c \in linked :
              {a, b} = {c[1], c[2]} /\ now - timestamp[c] < Timeout => Joined(a, b) = 1

(* The matrix implements the graph of link states. *)
G == INSTANCE LinkGraph WITH
        Ids <- 1 .. UpperLimit, graph <- {{c[1], c[2]} : c \in linked}
ImplementsGraph == G!Spec
=============================================================================
