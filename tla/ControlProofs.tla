---------------------------- MODULE ControlProofs ----------------------------
(***************************************************************************)
(* For any number of networks, nodes, connections and mishaps: the switch  *)
(* has no access entry without its network, and what nvctrler keeps of the *)
(* switch's connection never outlives it; and once the switch has fetched  *)
(* the lists and its connection is idle, it knows every network and every  *)
(* node of the database, and on its first connection it knows nothing      *)
(* else, but for what an operation of the API left half done since the     *)
(* controller accepted that connection.                                    *)
(***************************************************************************)
EXTENDS ControlProps, FiniteSetTheorems, SequenceTheorems, TLAPS

(* The types the proofs need.  What is in the streams does not matter: whatever a
   line says, its handler keeps the invariants. *)
Types ==
    /\ cur \in Conn
    /\ peer \in [Conn -> {"none", "accepted", "ready", "freed"}]
    /\ sinfo \in Conn \cup {0}
    /\ status = [n \in Node |-> status[n]]

IInv == Types /\ NoOrphanNode /\ SinfoLive /\ NoSwitchNoStatus

\* The variables the invariant is about, on each side
switchPart == <<cur, nets, nodes>>
ctlPart    == <<peer, sinfo, status>>

LEMMA ConnIsPositive == Conn \subseteq Nat \ {0} /\ 1 \in Conn
BY ControlAssumption DEF Conn

LEMMA InitInv == Init => IInv
<1> SUFFICES ASSUME Init
             PROVE  IInv
    OBVIOUS
<1>1. Types
    BY ConnIsPositive DEF Init, Types
<1>2. NoOrphanNode /\ SinfoLive
    BY DEF Init, NoOrphanNode, SinfoLive
<1>3. NoSwitchNoStatus
    BY DEF Init, NoSwitchNoStatus
<1>4. QED
    BY <1>1, <1>2, <1>3 DEF IInv

LEMMA Untouched == IInv /\ UNCHANGED <<switchPart, ctlPart>> => IInv'
BY DEF switchPart, ctlPart, IInv, Types, NoOrphanNode, SinfoLive, NoSwitchNoStatus

(* One line read by the switch: a node enters a table only with its network, and a
   network leaves with its table. *)
LEMMA OnReadInv == IInv /\ OnRead => IInv'
<1> SUFFICES ASSUME IInv, OnRead
             PROVE  IInv'
    OBVIOUS
<1>1. UNCHANGED <<cur, peer, sinfo>> /\ status' = status
    BY DEF OnRead, dbVars
<1> DEFINE m == Head(toSwitch[cur])
<1>2. \/ nets' = nets \cup {m.net} /\ nodes' = nodes
      \/ nodes' = NodesAfterList(m.node) /\ nets' = nets
      \/ nets' = nets \ {m.net} /\ nodes' = NodesAfterDelNet(m.net)
      \/ nodes' = nodes \ {m.node} /\ nets' = nets
      \/ nodes' = nodes /\ nets' = nets
    BY DEF OnRead
<1> HIDE DEF m
<1>3. NoOrphanNode'
    BY <1>2 DEF IInv, NoOrphanNode, NodesAfterList, NodesAfterDelNet
<1>4. QED
    BY <1>1, <1>3 DEF IInv, Types, SinfoLive, NoSwitchNoStatus

LEMMA SwitchInv == IInv /\ SwitchNext => IInv'
<1> SUFFICES ASSUME IInv, SwitchNext
             PROVE  IInv'
    OBVIOUS
<1> USE DEF switchVars, dbVars, switchPart, ctlPart
<1>1. CASE OnConnected \/ OnEof \/ NewPeerFails \/ OnReadNoId \/ Start
    BY <1>1, Untouched DEF OnConnected, OnEof, NewPeerFails, OnReadNoId, Start
<1>2. CASE NewPeer
    <2>1. cur' \in Conn /\ UNCHANGED <<nets, nodes, peer, sinfo, status>>
        BY <1>2, ControlAssumption DEF NewPeer, IInv, Types, Conn
    <2>2. QED
        BY <2>1 DEF IInv, Types, NoOrphanNode, SinfoLive, NoSwitchNoStatus
<1>3. CASE \E n \in Node, on \in BOOLEAN : WriteStatus(n, on)
    BY <1>3, Untouched DEF WriteStatus
<1>4. CASE PipeRead \/ PipeReadFreed
    BY <1>4, Untouched DEF PipeRead, PipeReadFreed
<1>5. QED
    BY <1>1, <1>2, <1>3, <1>4, OnReadInv DEF SwitchNext

-----------------------------------------------------------------------------
(* A step of nvctrler touches no table of the switch. *)
LEMMA CtlStep ==
    ASSUME IInv, UNCHANGED switchPart, Types', SinfoLive', NoSwitchNoStatus'
    PROVE  IInv'
BY DEF IInv, switchPart, NoOrphanNode

LEMMA AcceptInv == IInv /\ Accept => IInv'
<1> SUFFICES ASSUME IInv, Accept
             PROVE  IInv'
    OBVIOUS
<1>1. /\ UNCHANGED switchPart /\ sinfo' = sinfo /\ status' = status
      /\ peer[cur] = "none" /\ peer' = [peer EXCEPT ![cur] = "accepted"]
    BY DEF Accept, switchVars, switchPart, dbVars
<1>2. cur' = cur
    BY <1>1 DEF switchPart
<1>3. Types' /\ \A c \in Conn : peer[c] = "ready" <=> peer'[c] = "ready"
    BY <1>1, <1>2 DEF IInv, Types
<1>4. SinfoLive' /\ NoSwitchNoStatus'
    BY <1>1, <1>3 DEF IInv, Types, SinfoLive, NoSwitchNoStatus
<1>5. QED
    BY <1>1, <1>3, <1>4, CtlStep

LEMMA ConnectedInv ==
    ASSUME IInv, NEW c \in Conn, CtlConnected(c)
    PROVE  IInv'
<1>1. /\ UNCHANGED switchPart /\ sinfo' = c /\ status' = status
      /\ peer' = [peer EXCEPT ![c] = "ready"]
    BY DEF CtlConnected, switchVars, switchPart, dbVars
<1>2. cur' = cur
    BY <1>1 DEF switchPart
<1>3. Types' /\ peer'[c] = "ready"
    BY <1>1, <1>2 DEF IInv, Types
<1>4. SinfoLive' /\ NoSwitchNoStatus'
    BY <1>1, <1>3 DEF SinfoLive, NoSwitchNoStatus
<1>5. QED
    BY <1>1, <1>3, <1>4, CtlStep

(* Only a connected switch has a status set. *)
LEMMA ReadInv ==
    ASSUME IInv, NEW c \in Conn, CtlRead(c)
    PROVE  IInv'
<1>1. UNCHANGED switchPart /\ sinfo' = sinfo /\ peer' = peer /\ peer[c] = "ready"
    BY DEF CtlRead, switchVars, switchPart
<1>2. cur' = cur
    BY <1>1 DEF switchPart
<1>3. PICK line : Dispatch(c, line)
    BY DEF CtlRead
<1>4. status' = [n \in Node |-> status'[n]]
    <2>1. status' = status \/ \E n, b : status' = [status EXCEPT ![n] = b]
        BY <1>3 DEF Dispatch, Listing, ListingFails, StatusAfterUpdate
    <2>2. QED
        BY <2>1 DEF IInv, Types
<1>5. Types' /\ SinfoLive' /\ NoSwitchNoStatus'
    BY <1>1, <1>2, <1>4 DEF IInv, Types, SinfoLive, NoSwitchNoStatus
<1>6. QED
    BY <1>1, <1>5, CtlStep

LEMMA EofInv ==
    ASSUME IInv, NEW c \in Conn, CtlEof(c)
    PROVE  IInv'
<1>1. /\ UNCHANGED switchPart /\ sinfo' = SinfoAfterEof(c) /\ status' = StatusAfterEof(c)
      /\ peer' = [peer EXCEPT ![c] = "freed"]
    BY DEF CtlEof, switchVars, switchPart
<1>2. cur' = cur
    BY <1>1 DEF switchPart
<1>3. CASE peer[c] = "ready"
    <2>1. sinfo' = 0 /\ status' = [n \in Node |-> FALSE]
        BY <1>1, <1>3 DEF SinfoAfterEof, StatusAfterEof
    <2>2. Types'
        BY <1>1, <1>2, <2>1 DEF IInv, Types
    <2>3. SinfoLive' /\ NoSwitchNoStatus'
        BY <2>1 DEF SinfoLive, NoSwitchNoStatus
    <2>4. QED
        BY <1>1, <2>2, <2>3, CtlStep
<1>4. CASE peer[c] # "ready"
    <2>1. sinfo' = sinfo /\ status' = status
        BY <1>1, <1>4 DEF SinfoAfterEof, StatusAfterEof
    <2>2. Types' /\ \A d \in Conn : peer[d] = "ready" <=> peer'[d] = "ready"
        BY <1>1, <1>2, <1>4, <2>1 DEF IInv, Types
    <2>3. SinfoLive' /\ NoSwitchNoStatus'
        BY <2>1, <2>2 DEF IInv, Types, SinfoLive, NoSwitchNoStatus
    <2>4. QED
        BY <1>1, <2>2, <2>3, CtlStep
<1>5. QED
    BY <1>3, <1>4

LEMMA CrashInv == IInv /\ Crash => IInv'
<1> SUFFICES ASSUME IInv, Crash
             PROVE  IInv'
    OBVIOUS
<1>1. /\ UNCHANGED switchPart /\ sinfo' = 0 /\ status' = [n \in Node |-> FALSE]
      /\ peer' = [c \in Conn |-> IF peer[c] = "none" THEN "none" ELSE "freed"]
    BY DEF Crash, switchVars, switchPart, StatusAfterRestart
<1>2. cur' = cur
    BY <1>1 DEF switchPart
<1>3. Types' /\ SinfoLive' /\ NoSwitchNoStatus'
    BY <1>1, <1>2 DEF IInv, Types, SinfoLive, NoSwitchNoStatus
<1>4. QED
    BY <1>1, <1>3, CtlStep

(* A handler of the API only clears statuses. *)
LEMMA ApiInv ==
    ASSUME IInv, UNCHANGED <<switchPart, peer, sinfo>>,
           status' = [n \in Node |-> status'[n]],
           \A n \in Node : status'[n] => status[n]
    PROVE  IInv'
<1>1. Types' /\ SinfoLive' /\ NoSwitchNoStatus'
    BY DEF switchPart, IInv, Types, SinfoLive, NoSwitchNoStatus
<1>2. QED
    BY <1>1, CtlStep

LEMMA NetworkInv ==
    ASSUME IInv, NEW v \in Network, AddNetwork(v) \/ DelNetwork(v)
    PROVE  IInv'
<1>1. UNCHANGED <<switchPart, peer, sinfo>>
    BY DEF AddNetwork, DelNetwork, ApiOnly, switchVars, switchPart
<1>2. status' = status \/ status' = [n \in Node |-> status[n] /\ NodeNet[n] # v]
    BY DEF AddNetwork, DelNetwork, DropNodes
<1>3. status' = [n \in Node |-> status'[n]] /\ \A n \in Node : status'[n] => status[n]
    BY <1>2, Zenon DEF IInv, Types
<1>4. QED
    BY <1>1, <1>3, ApiInv

LEMMA NodeInv ==
    ASSUME IInv, NEW n \in Node, AddNode(n) \/ DelNode(n)
    PROVE  IInv'
<1>1. UNCHANGED <<switchPart, peer, sinfo>>
    BY DEF AddNode, DelNode, ApiOnly, switchVars, switchPart
<1>2. status' = status \/ status' = [status EXCEPT ![n] = FALSE]
    BY DEF AddNode, DelNode, DropNode
<1>3. status' = [k \in Node |-> status'[k]] /\ \A k \in Node : status'[k] => status[k]
    BY <1>2 DEF IInv, Types
<1>4. QED
    BY <1>1, <1>3, ApiInv

LEMMA CtlInv == IInv /\ CtlNext => IInv'
BY AcceptInv, CrashInv, ConnectedInv, ReadInv, EofInv, NetworkInv, NodeInv DEF CtlNext

LEMMA StepInv == IInv /\ [Next]_vars => IInv'
<1>1. ASSUME IInv, UNCHANGED vars
      PROVE  IInv'
    BY <1>1, Untouched DEF vars, switchVars, dbVars, switchPart, ctlPart
<1>2. ASSUME IInv, NEW c \in Conn, Cut(c)
      PROVE  IInv'
    BY <1>2, Untouched DEF Cut, switchVars, dbVars, switchPart, ctlPart
<1>3. QED
    BY <1>1, <1>2, SwitchInv, CtlInv DEF Next

(* The invariant that carries the three results below. *)
THEOREM Inductive == Spec => []IInv
BY InitInv, StepInv, PTL DEF Spec

(* Whatever the controller sends, in whatever order, no access table exists without
   its network. *)
THEOREM TablesHaveNetworks == Spec => []NoOrphanNode
<1>1. IInv => NoOrphanNode
    BY DEF IInv
<1>2. QED
    BY <1>1, Inductive, PTL

(* The handlers of the API never write to a freed session. *)
THEOREM PushesAreSafe == Spec => []SinfoLive
<1>1. IInv => SinfoLive
    BY DEF IInv
<1>2. QED
    BY <1>1, Inductive, PTL

(* No node is shown connected while no switch is, over any number of broken
   connections and mishaps. *)
THEOREM StatusesDieWithSwitch == Spec => []NoSwitchNoStatus
<1>1. IInv => NoSwitchNoStatus
    BY DEF IInv
<1>2. QED
    BY <1>1, Inductive, PTL

-----------------------------------------------------------------------------
(***************************************************************************)
(* What the switch knows.  The two streams of the current connection carry *)
(* the argument.  A live network is known to the switch, or a message that *)
(* adds it is on its way, or the question whose answer adds it is; a node  *)
(* is admitted by a message that finds its network in the tables or behind *)
(* one that puts it there.  What is sent goes behind, what is read goes    *)
(* from the front, and no step of either side can separate a node from its *)
(* network.                                                                *)
(***************************************************************************)

-----------------------------------------------------------------------------
(* Sequences *)

LEMMA NotEmpty ==
    ASSUME NEW S, NEW s \in Seq(S), Len(s) # 0
    PROVE  s # <<>>
BY EmptySeq

LEMMA Single ==
    ASSUME NEW S, NEW x \in S
    PROVE  <<x>> \in Seq(S) /\ Len(<<x>>) = 1 /\ <<x>>[1] = x
OBVIOUS

-----------------------------------------------------------------------------
(* Types *)

LEMMA LinesAreTyped ==
    /\ <<ListNets>> \in Line /\ <<ListNodes>> \in Line
    /\ \A n \in Node, on \in BOOLEAN : StatusMsg(n, on) \in Query
BY DEF Line, Query

LEMMA RepliesAreTyped ==
    /\ \A v \in Network : PushNet(v) \in Reply /\ DelNetMsg(v) \in Reply
    /\ \A n \in Node, b \in BOOLEAN : NodeMsg(n, b) \in Reply /\ DelNodeMsg(n) \in Reply
    /\ \A v \in Network, b \in BOOLEAN : NetMsg(v, b) \in Reply
    /\ ErrorMsg \in Reply
BY DEF Reply

LEMMA WriteLineType ==
    ASSUME toCtl \in [Conn -> Seq(Line)], NEW c \in Conn, NEW line \in Line,
           WriteLine(c, line)
    PROVE  toCtl' \in [Conn -> Seq(Line)]
BY DEF WriteLine

LEMMA SendType ==
    ASSUME toSwitch \in [Conn -> Seq(Reply)], NEW c \in Conn \cup {0},
           NEW msgs \in Seq(Reply), Send(c, msgs)
    PROVE  toSwitch' \in [Conn -> Seq(Reply)]
BY ConnIsPositive DEF Send

LEMMA RowsAreTyped ==
    /\ \A rows \in SetToSeqs(LiveNets) : NetRows(rows) \in Seq(Reply)
    /\ \A rows \in SetToSeqs(LiveNodes) : NodeRows(rows) \in Seq(Reply)
<1>1. ASSUME NEW rows \in SetToSeqs(LiveNets)
      PROVE  NetRows(rows) \in Seq(Reply)
    <2>1. Cardinality(LiveNets) \in Nat
        BY ControlAssumption, FS_Subset, FS_CardinalityType DEF LiveNets
    <2>2. rows \in Seq(Network)
        BY <2>1 DEF SetToSeqs, LiveNets
    <2>3. \A i \in 1 .. Len(rows) : IsLastRow(i, rows) \in BOOLEAN /\ rows[i] \in Network
        BY <2>2 DEF IsLastRow
    <2>4. QED
        BY <2>2, <2>3, RepliesAreTyped DEF NetRows
<1>2. ASSUME NEW rows \in SetToSeqs(LiveNodes)
      PROVE  NodeRows(rows) \in Seq(Reply)
    <2>1. Cardinality(LiveNodes) \in Nat
        BY ControlAssumption, FS_Subset, FS_CardinalityType DEF LiveNodes
    <2>2. rows \in Seq(Node)
        BY <2>1 DEF SetToSeqs, LiveNodes
    <2>3. \A i \in 1 .. Len(rows) : IsLastRow(i, rows) \in BOOLEAN /\ rows[i] \in Node
        BY <2>2 DEF IsLastRow
    <2>4. QED
        BY <2>2, <2>3, RepliesAreTyped DEF NodeRows
<1>3. QED
    BY <1>1, <1>2

(* Every live row has its place in the answer. *)
LEMMA RowsAreComplete ==
    /\ \A rows \in SetToSeqs(LiveNets), v \in LiveNets :
          \E i \in 1 .. Len(rows) : rows[i] = v
    /\ \A rows \in SetToSeqs(LiveNodes), n \in LiveNodes :
          \E i \in 1 .. Len(rows) : rows[i] = n
<1>1. ASSUME NEW S, IsFiniteSet(S), NEW rows \in SetToSeqs(S), NEW x \in S
      PROVE  \E i \in 1 .. Len(rows) : rows[i] = x
    <2>1. Cardinality(S) \in Nat /\ IsFiniteSet(1 .. Cardinality(S))
          /\ Cardinality(1 .. Cardinality(S)) = Cardinality(S)
        BY <1>1, FS_CardinalityType, FS_Interval
    <2>2. rows \in Injection(1 .. Cardinality(S), S)
        BY <1>1 DEF SetToSeqs, Injection, IsInjective
    <2>3. rows \in Surjection(1 .. Cardinality(S), S)
        BY <1>1, <2>1, <2>2, FS_Injection
    <2>4. Len(rows) = Cardinality(S)
        BY <2>1, <1>1 DEF SetToSeqs
    <2>5. QED
        BY <1>1, <2>3, <2>4 DEF Surjection
<1>2. IsFiniteSet(LiveNets) /\ IsFiniteSet(LiveNodes)
    BY ControlAssumption, FS_Subset DEF LiveNets, LiveNodes
<1>3. QED
    BY <1>1, <1>2

LEMMA InitTypes == Init => TypeOK
<1> SUFFICES ASSUME Init
             PROVE  TypeOK
    OBVIOUS
<1>1. <<>> \in Seq(Query) /\ Len(<<>>) = 0 /\ <<>> \in Seq(Line) /\ <<>> \in Seq(Reply)
    OBVIOUS
<1>2. /\ toCtl \in [Conn -> Seq(Line)] /\ inbuf \in [Conn -> Seq(Line)]
      /\ toSwitch \in [Conn -> Seq(Reply)]
      /\ peer \in [Conn -> {"none", "accepted", "ready", "freed"}]
      /\ status \in [Node -> BOOLEAN]
    BY <1>1 DEF Init
<1>3. dbNets \in [Network -> Life] /\ dbNodes \in [Node -> Life]
    BY DEF Init, Life
<1>4. pipe \in Seq(Query) /\ Len(pipe) <= MaxPipe /\ sinfo \in 0 .. MaxConn
      /\ faults \in 0 .. MaxFault
    BY <1>1, ControlAssumption DEF Init
<1>5. QED
    BY <1>2, <1>3, <1>4, ConnIsPositive DEF Init, TypeOK

LEMMA SwitchTypes == TypeOK /\ SwitchNext => TypeOK'
<1> SUFFICES ASSUME TypeOK, SwitchNext
             PROVE  TypeOK'
    OBVIOUS
<1> USE DEF TypeOK, Defined, switchVars, dbVars, history, stray
<1>1. CASE OnConnected
    BY <1>1, LinesAreTyped, WriteLineType DEF OnConnected, InitedOnConnect
<1>2. CASE OnEof
    BY <1>2 DEF OnEof
<1>3. CASE NewPeer
    BY <1>3, ControlAssumption DEF NewPeer, Conn
<1>9. CASE NewPeerFails
    <2>1. faults' \in 0 .. MaxFault
        BY <1>9, ControlAssumption DEF NewPeerFails, Fault
    <2>2. QED
        BY <1>9, <2>1 DEF NewPeerFails
<1>4. CASE OnRead
    <2> DEFINE m == Head(toSwitch[cur])
    <2>1. m \in Reply /\ toSwitch' \in [Conn -> Seq(Reply)]
        BY <1>4 DEF OnRead
    <2>2. /\ m.op = "listall-network" => m.net \in Network
          /\ m.op = "listall-node" => m.node \in Node /\ m.last \in BOOLEAN
        BY <2>1 DEF Reply, NetMsg, PushNet, NodeMsg, DelNetMsg, DelNodeMsg, ErrorMsg
    <2>3. toCtl' \in [Conn -> Seq(Line)]
        BY <1>4, LinesAreTyped, WriteLineType DEF OnRead
    <2>4. nets' \subseteq Network /\ nodes' \subseteq Node /\ inited' \in BOOLEAN
        BY <1>4, <2>2 DEF OnRead, NodesAfterList, NodesAfterDelNet
    <2>5. QED
        BY <1>4, <2>1, <2>3, <2>4 DEF OnRead
<1>5. CASE OnReadNoId \/ Start \/ PipeReadFreed
    BY <1>5 DEF OnReadNoId, Start, PipeReadFreed
<1>6. ASSUME NEW n \in Node, NEW on \in BOOLEAN, WriteStatus(n, on)
      PROVE  TypeOK'
    BY <1>6, LinesAreTyped, ControlAssumption DEF WriteStatus
<1>7. CASE PipeRead
    <2>1. PICK k \in 1 .. Len(pipe) :
             WriteLine(cur, SubSeq(pipe, 1, k)) /\ pipe' = SubSeq(pipe, k + 1, Len(pipe))
        BY <1>7 DEF PipeRead, Drained
    <2>2. SubSeq(pipe, 1, k) \in Line
        <3>1. k \in Int /\ 1 <= k /\ k <= Len(pipe) /\ \A i \in 1 .. k : pipe[i] \in Query
            OBVIOUS
        <3>2. SubSeq(pipe, 1, k) \in Seq(Query) /\ Len(SubSeq(pipe, 1, k)) = k
            BY <3>1, SubSeqProperties
        <3>3. SubSeq(pipe, 1, k) # <<>>
            <4>1. Len(SubSeq(pipe, 1, k)) # 0
                BY <3>1, <3>2
            <4>2. QED
                BY <3>2, <4>1, NotEmpty
        <3>4. QED
            BY <3>2, <3>3 DEF Line
    <2>3. pipe' \in Seq(Query) /\ Len(pipe') <= MaxPipe
        BY <2>1, ControlAssumption
    <2>4. QED
        BY <1>7, <2>1, <2>2, <2>3, WriteLineType DEF PipeRead
<1>8. QED
    BY <1>1, <1>2, <1>3, <1>4, <1>5, <1>6, <1>7, <1>9 DEF SwitchNext

(* What a read at the controller does to the two streams. *)
LEMMA DispatchTypes ==
    ASSUME TypeOK, NEW c \in Conn, NEW line \in Line, Dispatch(c, line)
    PROVE  /\ toSwitch' \in [Conn -> Seq(Reply)] /\ status' \in [Node -> BOOLEAN]
           /\ faults' \in 0 .. MaxFault /\ refused' \subseteq Conn
<1>1. ASSUME NEW msgs \in Seq(Reply), Send(c, msgs)
      PROVE  toSwitch' \in [Conn -> Seq(Reply)]
    BY <1>1, SendType DEF TypeOK
<1>2. Head(line) \in Query
    BY DEF Line
<1>3. ASSUME Head(line).op = "update-node-status"
      PROVE  Head(line).node \in Node /\ Head(line).on \in BOOLEAN
    BY <1>2, <1>3 DEF Query, ListNets, ListNodes, StatusMsg
<1>4. toSwitch' \in [Conn -> Seq(Reply)]
    <2>1. <<ErrorMsg>> \in Seq(Reply)
        BY RepliesAreTyped, Single
    <2>2. QED
        BY <1>1, <2>1, RowsAreTyped DEF Dispatch, Listing, ListingFails, TypeOK
<1>5. status' \in [Node -> BOOLEAN]
    BY <1>3 DEF Dispatch, TypeOK, StatusAfterUpdate
<1>6. faults' \in 0 .. MaxFault /\ refused' \subseteq Conn
    BY ControlAssumption DEF Dispatch, ListingFails, Fault, TypeOK
<1>7. QED
    BY <1>4, <1>5, <1>6

LEMMA CtlTypes == TypeOK /\ IInv /\ CtlNext => TypeOK'
<1> SUFFICES ASSUME TypeOK, IInv, CtlNext
             PROVE  TypeOK'
    OBVIOUS
<1> USE DEF TypeOK, Defined, switchVars, dbVars, history, stray
<1>1. CASE Accept
    BY <1>1 DEF Accept
<1>2. CASE Crash
    <2>1. faults' \in 0 .. MaxFault
        BY <1>2, ControlAssumption DEF Crash, Fault
    <2>2. toCtl' \in [Conn -> Seq(Line)] /\ inbuf' \in [Conn -> Seq(Line)]
        BY <1>2 DEF Crash
    <2>3. /\ peer' \in [Conn -> {"none", "accepted", "ready", "freed"}]
          /\ sinfo' \in 0 .. MaxConn /\ status' \in [Node -> BOOLEAN]
          /\ cut' \subseteq Conn
        BY <1>2, ControlAssumption DEF Crash, StatusAfterRestart
    <2>4. QED
        BY <1>2, <2>1, <2>2, <2>3 DEF Crash
<1>3. ASSUME NEW c \in Conn, CtlConnected(c)
      PROVE  TypeOK'
    BY <1>3, ControlAssumption DEF CtlConnected, Conn
<1>4. ASSUME NEW c \in Conn, CtlRead(c)
      PROVE  TypeOK'
    <2>1. PICK k \in 1 .. Len(toCtl[c]) :
             LET lines == inbuf[c] \o SubSeq(toCtl[c], 1, k)
             IN  /\ toCtl' = [toCtl EXCEPT ![c] = SubSeq(@, k + 1, Len(@))]
                 /\ inbuf' = [inbuf EXCEPT ![c] = Tail(lines)]
                 /\ Dispatch(c, Head(lines))
        BY <1>4 DEF CtlRead
    <2> DEFINE lines == inbuf[c] \o SubSeq(toCtl[c], 1, k)
    <2>2. lines \in Seq(Line) /\ lines # <<>>
        <3>1. inbuf[c] \in Seq(Line) /\ SubSeq(toCtl[c], 1, k) \in Seq(Line) /\ Len(SubSeq(toCtl[c], 1, k)) = k
            BY <2>1
        <3>2. lines \in Seq(Line) /\ Len(lines) = Len(inbuf[c]) + k
            BY <3>1, ConcatProperties
        <3>3. Len(lines) # 0
            BY <3>1, <3>2
        <3>4. QED
            BY <3>2, <3>3, NotEmpty
    <2>3. toCtl' \in [Conn -> Seq(Line)] /\ inbuf' \in [Conn -> Seq(Line)]
        <3>1. Tail(lines) \in Seq(Line)
            BY <2>2, HeadTailProperties
        <3>3. SubSeq(toCtl[c], k + 1, Len(toCtl[c])) \in Seq(Line)
            <4>1. \A i \in k + 1 .. Len(toCtl[c]) : toCtl[c][i] \in Line
                OBVIOUS
            <4>2. QED
                BY <4>1, SubSeqProperties
        <3>2. QED
            BY <2>1, <3>1, <3>3
    <2>4. Head(lines) \in Line
        BY <2>2, HeadTailProperties
    <2>5. /\ toSwitch' \in [Conn -> Seq(Reply)] /\ status' \in [Node -> BOOLEAN]
          /\ faults' \in 0 .. MaxFault /\ refused' \subseteq Conn
        BY <2>1, <2>4, DispatchTypes
    <2>6. QED
        BY <1>4, <2>3, <2>5 DEF CtlRead
<1>5. ASSUME NEW c \in Conn, CtlEof(c)
      PROVE  TypeOK'
    BY <1>5, ControlAssumption DEF CtlEof, SinfoAfterEof, StatusAfterEof
<1>6. sinfo \in Conn \cup {0}
    BY DEF IInv, Types
<1>10. Fault => faults' \in 0 .. MaxFault
    BY ControlAssumption DEF Fault
<1>7. ASSUME NEW v \in Network, AddNetwork(v) \/ DelNetwork(v)
      PROVE  TypeOK'
    <2>1. <<PushNet(v)>> \in Seq(Reply) /\ <<DelNetMsg(v)>> \in Seq(Reply)
        BY RepliesAreTyped
    <2>2. toSwitch' \in [Conn -> Seq(Reply)]
        BY <1>6, <1>7, <2>1, SendType DEF AddNetwork, DelNetwork
    <2>3. dbNets' \in [Network -> Life] /\ dbNodes' \in [Node -> Life] /\ status' \in [Node -> BOOLEAN]
        BY <1>7 DEF AddNetwork, DelNetwork, DropNodes, Life
    <2>4. strayNets' \subseteq Network /\ strayNodes' \subseteq Node /\ faults' \in 0 .. MaxFault
        BY <1>7, <1>10 DEF AddNetwork, DelNetwork, InStep, LiveNodes
    <2>5. QED
        BY <1>7, <2>2, <2>3, <2>4 DEF AddNetwork, DelNetwork, ApiOnly
<1>8. ASSUME NEW n \in Node, AddNode(n) \/ DelNode(n)
      PROVE  TypeOK'
    <2>1. <<NodeMsg(n, FALSE)>> \in Seq(Reply) /\ <<DelNodeMsg(n)>> \in Seq(Reply)
        <3>1. NodeMsg(n, FALSE) \in Reply /\ DelNodeMsg(n) \in Reply
            BY RepliesAreTyped
        <3>2. QED
            BY <3>1, Single
    <2>2. toSwitch' \in [Conn -> Seq(Reply)]
        BY <1>6, <1>8, <2>1, SendType DEF AddNode, DelNode
    <2>3. dbNodes' \in [Node -> Life] /\ status' \in [Node -> BOOLEAN]
        BY <1>8 DEF AddNode, DelNode, DropNode, Life
    <2>4. strayNets' \subseteq Network /\ strayNodes' \subseteq Node /\ faults' \in 0 .. MaxFault
        BY <1>8, <1>10 DEF AddNode, DelNode, InStep
    <2>5. QED
        BY <1>8, <2>2, <2>3, <2>4 DEF AddNode, DelNode, ApiOnly
<1>9. QED
    BY <1>1, <1>2, <1>3, <1>4, <1>5, <1>7, <1>8 DEF CtlNext

LEMMA StepTypes == TypeOK /\ IInv /\ [Next]_vars => TypeOK'
<1>1. ASSUME TypeOK, UNCHANGED vars
      PROVE  TypeOK'
    BY <1>1 DEF TypeOK, vars, switchVars, dbVars, history, stray
<1>2. ASSUME TypeOK, NEW c \in Conn, Cut(c)
      PROVE  TypeOK'
    BY <1>2 DEF TypeOK, Cut, Defined, switchVars, dbVars, history, stray
<1>3. QED
    BY <1>1, <1>2, SwitchTypes, CtlTypes DEF Next

(* The types of Control, the contents of the two streams included. *)
THEOREM ControlTypes == Spec => []TypeOK
BY InitTypes, StepTypes, Inductive, PTL DEF Spec

-----------------------------------------------------------------------------
(* The invariant.  Lines and Msgs: what is on its way on the current         *)
(* connection, to the controller and to the switch.                          *)

Lines == inbuf[cur] \o toCtl[cur]
Msgs  == toSwitch[cur]

(* What no mishap has touched, and what of it is in the database. *)
SoundNets  == {v \in Network : SoundNet(v)}
SoundNodes == {n \in Node : SoundNode(n)}
TrueNets   == LiveNets \cap SoundNets
TrueNodes  == LiveNodes \cap SoundNodes

AsksNets(line)  == Len(line) = 1 /\ Head(line) = ListNets
AsksNodes(line) == Len(line) = 1 /\ Head(line) = ListNodes

AddsNet(m, v)  == m.op = "listall-network" /\ m.net = v
Admits(m, n)   == m.op = "listall-node" /\ m.node = n
LastNode(m)    == m.op = "listall-node" /\ m.last
DropsNet(m, v) == m.op = "del-network" /\ m.net = v
DropsNode(m, n) == \/ m.op = "del-node" /\ m.node = n
                   \/ m.op = "del-network" /\ m.net = NodeNet[n]

(* The network v is in the tables ns, or will be; the node n is in ds, or is
   admitted by a message that finds its network in ns or behind one that adds it. *)
Known(ns, ms, v) == v \in ns \/ \E i \in 1 .. Len(ms) : AddsNet(ms[i], v)
Covered(ns, ds, ms, n) ==
    \/ n \in ds
    \/ \E i \in 1 .. Len(ms) :
          /\ Admits(ms[i], n)
          /\ NodeNet[n] \in ns \/ \E j \in 1 .. i - 1 : AddsNet(ms[j], NodeNet[n])

(* v, and n, are not in the tables, or the message that takes them out follows. *)
NetLeaves(ns, ms, v) ==
    /\ v \in ns => \E i \in 1 .. Len(ms) : DropsNet(ms[i], v)
    /\ \A i \in 1 .. Len(ms) :
          AddsNet(ms[i], v) => \E j \in i + 1 .. Len(ms) : DropsNet(ms[j], v)
NodeLeaves(ds, ms, n) ==
    /\ n \in ds => \E i \in 1 .. Len(ms) : DropsNode(ms[i], n)
    /\ \A i \in 1 .. Len(ms) :
          Admits(ms[i], n) => \E j \in i + 1 .. Len(ms) : DropsNode(ms[j], n)

(* Nothing was asked, and the last node is not on its way. *)
Unasked(ls, ms) ==
    /\ \A i \in 1 .. Len(ls) : ~AsksNets(ls[i]) /\ ~AsksNodes(ls[i])
    /\ \A i \in 1 .. Len(ms) : ~LastNode(ms[i])

(* Nothing is on a connection that is not made yet; nothing was asked on one that
   is being made. *)
Streams ==
    /\ \A i \in 1 .. Len(pipe) : pipe[i].op = "update-node-status"
    /\ \A c \in Conn : c > cur =>
          peer[c] = "none" /\ toCtl[c] = <<>> /\ inbuf[c] = <<>> /\ toSwitch[c] = <<>>
    /\ peer[cur] \notin {"ready", "freed"} => Msgs = <<>>
    /\ link = "up" => peer[cur] \in {"ready", "freed"}
    /\ link = "connecting" => Unasked(Lines, Msgs)

(* Of the networks nv and the nodes nn, only what was deleted is announced as
   deleted. *)
Truthful(m, dn, dd, nv, nn) ==
    /\ m.op = "del-network" /\ m.net \in nv => dn[m.net] = "deleted"
    /\ m.op = "del-node" /\ m.node \in nn => dd[m.node] = "deleted"
Announces(ms, dn, dd, nv, nn) == \A i \in 1 .. Len(ms) : Truthful(ms[i], dn, dd, nv, nn)
Database ==
    /\ \A n \in Node : dbNodes[n] = "live" => dbNets[NodeNet[n]] = "live"
    /\ sinfo = cur => Announces(Msgs, dbNets, dbNodes, SoundNets, SoundNodes)

Attached == link = "up" /\ cur \notin cut /\ sinfo = cur /\ cur \notin refused
(* Every network of lv is known or asked for, and before the nodes are; once the
   last node was sent, every network is known and every node of ln is covered. *)
Follows(ns, ds, ini, ls, ms, lv, ln) ==
    /\ \A v \in lv : Known(ns, ms, v) \/ \E i \in 1 .. Len(ls) : AsksNets(ls[i])
    /\ \A j \in 1 .. Len(ls) : AsksNodes(ls[j]) =>
          \A v \in lv : Known(ns, ms, v) \/ \E i \in 1 .. j - 1 : AsksNets(ls[i])
    /\ ini \/ (\E i \in 1 .. Len(ms) : LastNode(ms[i])) =>
          /\ \A v \in lv : Known(ns, ms, v)
          /\ \A n \in ln : Covered(ns, ds, ms, n)

Following == Attached => Follows(nets, nodes, inited, Lines, Msgs, TrueNets, TrueNodes)

(* Of nv and nn: what is known was born, and what has died is about to leave. *)
Mirrors(ns, ds, ms, dn, dd, nv, nn) ==
    /\ \A v \in nv : /\ Known(ns, ms, v) => dn[v] # "unborn"
                     /\ dn[v] = "deleted" => NetLeaves(ns, ms, v)
    /\ \A n \in nn : /\ n \in ds \/ (\E i \in 1 .. Len(ms) : Admits(ms[i], n)) =>
                            dd[n] # "unborn"
                     /\ dd[n] = "deleted" => NodeLeaves(ds, ms, n)

(* On the first connection nothing is missed. *)
First ==
    cur = 1 /\ 1 \notin cut =>
       /\ peer[1] # "freed" /\ (peer[1] = "ready" => sinfo = 1)
       /\ peer[1] # "ready" => Msgs = <<>>
       /\ link # "up" => nets = {} /\ nodes = {}
       /\ Mirrors(nets, nodes, Msgs, dbNets, dbNodes, SoundNets, SoundNodes)

LInv == TypeOK /\ IInv /\ Streams /\ Database /\ Following /\ First

-----------------------------------------------------------------------------
(* What a message does to the tables, and what is known of a stream that grows *)
(* at its end and is read at its head.                                         *)

Applied(m, ns, ds, ns2, ds2) ==
    \/ m.op = "listall-network" /\ ns2 = ns \cup {m.net} /\ ds2 = ds
    \/ m.op = "listall-node" /\ ns2 = ns
       /\ ds2 = IF NodeNet[m.node] \in ns THEN ds \cup {m.node} ELSE ds
    \/ m.op = "del-network" /\ ns2 = ns \ {m.net}
       /\ ds2 = {n \in ds : NodeNet[n] # m.net}
    \/ m.op = "del-node" /\ ns2 = ns /\ ds2 = ds \ {m.node}
    \/ m.op = "error" /\ ns2 = ns /\ ds2 = ds

(* The places of a stream after messages are added, and after one is read. *)
IsJoin(u, s, t) ==
    /\ Len(u) = Len(s) + Len(t) /\ Len(s) \in Nat /\ Len(t) \in Nat
    /\ \A i \in 1 .. Len(s) : u[i] = s[i]
    /\ \A i \in 1 .. Len(t) : u[Len(s) + i] = t[i]
    /\ \A i \in 1 .. Len(u) : i \notin 1 .. Len(s) => \E j \in 1 .. Len(t) : i = Len(s) + j

LEMMA Joined ==
    ASSUME NEW S, NEW s \in Seq(S), NEW t \in Seq(S)
    PROVE  IsJoin(s \o t, s, t)
<1>1. /\ s \o t \in Seq(S) /\ Len(s \o t) = Len(s) + Len(t)
      /\ Len(s) \in Nat /\ Len(t) \in Nat
      /\ \A i \in 1 .. Len(s) + Len(t) :
            (s \o t)[i] = IF i <= Len(s) THEN s[i] ELSE t[i - Len(s)]
    BY ConcatProperties, LenProperties
<1> DEFINE u == s \o t
<1> HIDE DEF u
<1>2. \A i \in 1 .. Len(t) : u[Len(s) + i] = t[i]
    <2> TAKE i \in 1 .. Len(t)
    <2>1. Len(s) + i \in 1 .. Len(s) + Len(t) /\ ~(Len(s) + i <= Len(s))
          /\ (Len(s) + i) - Len(s) = i
        BY <1>1
    <2>2. QED
        BY <1>1, <2>1 DEF u
<1>3. \A i \in 1 .. Len(s) : u[i] = s[i]
    BY <1>1 DEF u
<1>4. ASSUME NEW i \in 1 .. Len(u), i \notin 1 .. Len(s)
      PROVE  \E j \in 1 .. Len(t) : i = Len(s) + j
    <2>1. i - Len(s) \in 1 .. Len(t) /\ i = Len(s) + (i - Len(s))
        BY <1>1, <1>4 DEF u
    <2>2. QED
        BY <2>1
<1>5. QED
    BY <1>1, <1>2, <1>3, <1>4 DEF u, IsJoin

LEMMA Behead ==
    ASSUME NEW S, NEW s \in Seq(S), s # <<>>
    PROVE  /\ Tail(s) \in Seq(S) /\ Len(s) \in Nat \ {0} /\ Len(Tail(s)) = Len(s) - 1
           /\ Head(s) = s[1] /\ Head(s) \in S
           /\ \A i \in 1 .. Len(Tail(s)) : Tail(s)[i] = s[i + 1]
BY HeadTailProperties, EmptySeq

LEMMA KnownJoined ==
    ASSUME NEW S, NEW ms \in Seq(S), NEW more \in Seq(S), NEW ns, NEW v,
           \/ Known(ns, ms, v)
           \/ \E i \in 1 .. Len(more) : AddsNet(more[i], v)
    PROVE  Known(ns, ms \o more, v)
<1> DEFINE u == ms \o more
<1>0. IsJoin(u, ms, more)
    BY Joined
<1> HIDE DEF u
<1>1. /\ Len(u) = Len(ms) + Len(more) /\ Len(ms) \in Nat /\ Len(more) \in Nat
      /\ \A i \in 1 .. Len(ms) : u[i] = ms[i]
      /\ \A i \in 1 .. Len(more) : u[Len(ms) + i] = more[i]
    BY <1>0 DEF IsJoin
<1>2. CASE Known(ns, ms, v)
    BY <1>1, <1>2 DEF Known
<1>3. CASE \E i \in 1 .. Len(more) : AddsNet(more[i], v)
    <2>1. PICK i \in 1 .. Len(more) : AddsNet(more[i], v)
        BY <1>3
    <2>2. Len(ms) + i \in 1 .. Len(u) /\ AddsNet(u[Len(ms) + i], v)
        BY <1>1, <2>1
    <2>3. QED
        BY <2>2 DEF Known
<1>4. QED
    BY <1>2, <1>3 DEF u

LEMMA CoveredJoined ==
    ASSUME NEW S, NEW ms \in Seq(S), NEW more \in Seq(S), NEW ns, NEW ds, NEW n,
           \/ Covered(ns, ds, ms, n)
           \/ Known(ns, ms, NodeNet[n]) /\ \E i \in 1 .. Len(more) : Admits(more[i], n)
    PROVE  Covered(ns, ds, ms \o more, n)
<1> DEFINE u == ms \o more
<1>0. IsJoin(u, ms, more)
    BY Joined
<1> HIDE DEF u
<1>1. /\ Len(u) = Len(ms) + Len(more) /\ Len(ms) \in Nat /\ Len(more) \in Nat
      /\ \A i \in 1 .. Len(ms) : u[i] = ms[i]
      /\ \A i \in 1 .. Len(more) : u[Len(ms) + i] = more[i]
    BY <1>0 DEF IsJoin
<1>2. CASE Covered(ns, ds, ms, n)
    <2>1. CASE n \in ds
        BY <2>1 DEF Covered
    <2>2. ASSUME NEW i \in 1 .. Len(ms), Admits(ms[i], n),
                 NodeNet[n] \in ns \/ \E j \in 1 .. i - 1 : AddsNet(ms[j], NodeNet[n])
          PROVE  Covered(ns, ds, u, n)
        <3>1. i \in 1 .. Len(u) /\ Admits(u[i], n)
            BY <1>1, <2>2
        <3>2. \A j \in 1 .. i - 1 : u[j] = ms[j]
            BY <1>1
        <3>3. QED
            BY <2>2, <3>1, <3>2 DEF Covered
    <2>3. QED
        BY <1>2, <2>1, <2>2 DEF Covered, u
<1>3. CASE Known(ns, ms, NodeNet[n]) /\ \E i \in 1 .. Len(more) : Admits(more[i], n)
    <2>1. PICK i \in 1 .. Len(more) : Admits(more[i], n)
        BY <1>3
    <2> DEFINE k == Len(ms) + i
    <2>2. k \in 1 .. Len(u) /\ Admits(u[k], n) /\ 1 .. Len(ms) \subseteq 1 .. k - 1
        BY <1>1, <2>1
    <2> HIDE DEF k
    <2>3. NodeNet[n] \in ns \/ \E j \in 1 .. k - 1 : AddsNet(u[j], NodeNet[n])
        BY <1>1, <1>3, <2>2 DEF Known
    <2>4. QED
        BY <2>2, <2>3 DEF Covered, u
<1>4. QED
    BY <1>2, <1>3

LEMMA KnownRead ==
    ASSUME NEW S, NEW ms \in Seq(S), ms # <<>>, NEW ns, NEW ds, NEW ns2, NEW ds2, NEW v,
           Applied(Head(ms), ns, ds, ns2, ds2), ~DropsNet(Head(ms), v), Known(ns, ms, v)
    PROVE  Known(ns2, Tail(ms), v)
<1>1. CASE v \in ns
    BY <1>1 DEF Applied, Known, DropsNet
<1>2. ASSUME NEW i \in 1 .. Len(ms), AddsNet(ms[i], v)
      PROVE  Known(ns2, Tail(ms), v)
    <2>1. CASE i = 1
        <3>1. AddsNet(Head(ms), v)
            BY <1>2, <2>1, Behead
        <3>2. QED
            BY <3>1 DEF Applied, Known, AddsNet
    <2>2. CASE i # 1
        <3>1. i - 1 \in 1 .. Len(Tail(ms)) /\ Tail(ms)[i - 1] = ms[i]
            <4>1. i - 1 \in 1 .. Len(Tail(ms)) /\ (i - 1) + 1 = i
                BY <2>2, Behead
            <4>2. QED
                BY <4>1, Behead
        <3>2. QED
            BY <1>2, <3>1 DEF Known
    <2>3. QED
        BY <2>1, <2>2
<1>3. QED
    BY <1>1, <1>2 DEF Known

LEMMA CoveredRead ==
    ASSUME NEW S, NEW ms \in Seq(S), ms # <<>>, NEW ns, NEW ds, NEW ns2, NEW ds2, NEW n,
           Applied(Head(ms), ns, ds, ns2, ds2),
           ~DropsNet(Head(ms), NodeNet[n]), ~DropsNode(Head(ms), n),
           Covered(ns, ds, ms, n)
    PROVE  Covered(ns2, ds2, Tail(ms), n)
<1>1. CASE n \in ds
    BY <1>1 DEF Applied, Covered, DropsNode
<1>2. ASSUME NEW i \in 1 .. Len(ms), Admits(ms[i], n),
             NodeNet[n] \in ns \/ \E j \in 1 .. i - 1 : AddsNet(ms[j], NodeNet[n])
      PROVE  Covered(ns2, ds2, Tail(ms), n)
    <2>1. CASE i = 1
        <3>1. Admits(Head(ms), n) /\ NodeNet[n] \in ns
            BY <1>2, <2>1, Behead
        <3>2. QED
            BY <3>1 DEF Applied, Covered, Admits
    <2>2. CASE i # 1
        <3>1. \A j \in 1 .. Len(ms) : j # 1 =>
                 j - 1 \in 1 .. Len(Tail(ms)) /\ Tail(ms)[j - 1] = ms[j]
            <4> SUFFICES ASSUME NEW j \in 1 .. Len(ms), j # 1
                         PROVE  j - 1 \in 1 .. Len(Tail(ms)) /\ Tail(ms)[j - 1] = ms[j]
                OBVIOUS
            <4>1. j - 1 \in 1 .. Len(Tail(ms)) /\ (j - 1) + 1 = j
                BY Behead
            <4>2. QED
                BY <4>1, Behead
        <3>2. NodeNet[n] \in ns2 \/ \E j \in 1 .. (i - 1) - 1 : AddsNet(Tail(ms)[j], NodeNet[n])
            <4>1. CASE NodeNet[n] \in ns
                BY <4>1 DEF Applied, DropsNet
            <4>2. ASSUME NEW j \in 1 .. i - 1, AddsNet(ms[j], NodeNet[n])
                  PROVE  NodeNet[n] \in ns2
                         \/ \E l \in 1 .. (i - 1) - 1 : AddsNet(Tail(ms)[l], NodeNet[n])
                <5>1. CASE j = 1
                    <6>1. AddsNet(Head(ms), NodeNet[n])
                        BY <4>2, <5>1, Behead
                    <6>2. QED
                        BY <6>1 DEF Applied, AddsNet
                <5>2. CASE j # 1
                    <6>1. j \in 1 .. Len(ms) /\ j - 1 \in 1 .. (i - 1) - 1
                        BY <5>2, Behead
                    <6>2. QED
                        BY <3>1, <4>2, <5>2, <6>1
                <5>3. QED
                    BY <5>1, <5>2
            <4>3. QED
                BY <1>2, <4>1, <4>2
        <3>3. i - 1 \in 1 .. Len(Tail(ms)) /\ Admits(Tail(ms)[i - 1], n)
            BY <1>2, <2>2, <3>1
        <3>4. QED
            BY <3>2, <3>3 DEF Covered
    <2>3. QED
        BY <2>1, <2>2
<1>3. QED
    BY <1>1, <1>2 DEF Covered

LEMMA NetLeavesJoined ==
    ASSUME NEW S, NEW ms \in Seq(S), NEW more \in Seq(S), NEW ns, NEW v,
           \/ NetLeaves(ns, ms, v) /\ \A i \in 1 .. Len(more) : ~AddsNet(more[i], v)
           \/ Len(more) = 1 /\ DropsNet(more[1], v)
    PROVE  NetLeaves(ns, ms \o more, v)
<1> DEFINE u == ms \o more
<1>0. IsJoin(u, ms, more)
    BY Joined
<1> HIDE DEF u
<1>1. /\ Len(u) = Len(ms) + Len(more) /\ Len(ms) \in Nat /\ Len(more) \in Nat
      /\ \A i \in 1 .. Len(ms) : u[i] = ms[i]
      /\ \A i \in 1 .. Len(more) : u[Len(ms) + i] = more[i]
      /\ \A i \in 1 .. Len(u) :
            i \notin 1 .. Len(ms) => \E j \in 1 .. Len(more) : i = Len(ms) + j
    BY <1>0 DEF IsJoin
<1>2. CASE NetLeaves(ns, ms, v) /\ \A i \in 1 .. Len(more) : ~AddsNet(more[i], v)
    <2>1. \A i \in 1 .. Len(u) : AddsNet(u[i], v) => i \in 1 .. Len(ms)
        BY <1>1, <1>2
    <2>2. ASSUME NEW i \in 1 .. Len(u), AddsNet(u[i], v)
          PROVE  \E j \in i + 1 .. Len(u) : DropsNet(u[j], v)
        <3>1. i \in 1 .. Len(ms) /\ AddsNet(ms[i], v)
            BY <1>1, <2>1, <2>2
        <3>2. PICK j \in i + 1 .. Len(ms) : DropsNet(ms[j], v)
            BY <1>2, <3>1 DEF NetLeaves
        <3>3. j \in i + 1 .. Len(u) /\ j \in 1 .. Len(ms)
            BY <1>1
        <3>4. QED
            BY <1>1, <3>2, <3>3
    <2>3. v \in ns => \E i \in 1 .. Len(u) : DropsNet(u[i], v)
        BY <1>1, <1>2 DEF NetLeaves
    <2>4. QED
        BY <2>2, <2>3 DEF NetLeaves, u
<1>3. CASE Len(more) = 1 /\ DropsNet(more[1], v)
    <2>1. Len(u) \in 1 .. Len(u) /\ DropsNet(u[Len(u)], v)
        BY <1>1, <1>3
    <2>2. \A i \in 1 .. Len(u) : AddsNet(u[i], v) => Len(u) \in i + 1 .. Len(u)
        BY <2>1, <1>1 DEF AddsNet, DropsNet
    <2>3. QED
        BY <2>1, <2>2 DEF NetLeaves, u
<1>4. QED
    BY <1>2, <1>3

LEMMA NodeLeavesJoined ==
    ASSUME NEW S, NEW ms \in Seq(S), NEW more \in Seq(S), NEW ds, NEW n,
           \/ NodeLeaves(ds, ms, n) /\ \A i \in 1 .. Len(more) : ~Admits(more[i], n)
           \/ Len(more) = 1 /\ DropsNode(more[1], n)
    PROVE  NodeLeaves(ds, ms \o more, n)
<1> DEFINE u == ms \o more
<1>0. IsJoin(u, ms, more)
    BY Joined
<1> HIDE DEF u
<1>1. /\ Len(u) = Len(ms) + Len(more) /\ Len(ms) \in Nat /\ Len(more) \in Nat
      /\ \A i \in 1 .. Len(ms) : u[i] = ms[i]
      /\ \A i \in 1 .. Len(more) : u[Len(ms) + i] = more[i]
      /\ \A i \in 1 .. Len(u) :
            i \notin 1 .. Len(ms) => \E j \in 1 .. Len(more) : i = Len(ms) + j
    BY <1>0 DEF IsJoin
<1>2. CASE NodeLeaves(ds, ms, n) /\ \A i \in 1 .. Len(more) : ~Admits(more[i], n)
    <2>1. \A i \in 1 .. Len(u) : Admits(u[i], n) => i \in 1 .. Len(ms)
        BY <1>1, <1>2
    <2>2. ASSUME NEW i \in 1 .. Len(u), Admits(u[i], n)
          PROVE  \E j \in i + 1 .. Len(u) : DropsNode(u[j], n)
        <3>1. i \in 1 .. Len(ms) /\ Admits(ms[i], n)
            BY <1>1, <2>1, <2>2
        <3>2. PICK j \in i + 1 .. Len(ms) : DropsNode(ms[j], n)
            BY <1>2, <3>1 DEF NodeLeaves
        <3>3. j \in i + 1 .. Len(u) /\ j \in 1 .. Len(ms)
            BY <1>1
        <3>4. QED
            BY <1>1, <3>2, <3>3
    <2>3. n \in ds => \E i \in 1 .. Len(u) : DropsNode(u[i], n)
        BY <1>1, <1>2 DEF NodeLeaves
    <2>4. QED
        BY <2>2, <2>3 DEF NodeLeaves, u
<1>3. CASE Len(more) = 1 /\ DropsNode(more[1], n)
    <2>1. Len(u) \in 1 .. Len(u) /\ DropsNode(u[Len(u)], n)
        BY <1>1, <1>3
    <2>2. \A i \in 1 .. Len(u) : Admits(u[i], n) => Len(u) \in i + 1 .. Len(u)
        <3>1. ~Admits(u[Len(u)], n)
            BY <2>1 DEF Admits, DropsNode
        <3>2. QED
            BY <1>1, <3>1
    <2>3. QED
        BY <2>1, <2>2 DEF NodeLeaves, u
<1>4. QED
    BY <1>2, <1>3

(* Moved down by one: the places of Tail. *)
LEMMA Shifted ==
    ASSUME NEW S, NEW s \in Seq(S), s # <<>>, NEW i \in 1 .. Len(s), NEW j \in i + 1 .. Len(s)
    PROVE  /\ j - 1 \in 1 .. Len(Tail(s)) /\ Tail(s)[j - 1] = s[j]
           /\ i # 1 => j - 1 \in (i - 1) + 1 .. Len(Tail(s))
<1>1. /\ Len(s) \in Nat \ {0} /\ Len(Tail(s)) = Len(s) - 1
      /\ \A k \in 1 .. Len(Tail(s)) : Tail(s)[k] = s[k + 1]
    BY Behead
<1>2. j - 1 \in 1 .. Len(Tail(s)) /\ (j - 1) + 1 = j
    BY <1>1
<1>3. i # 1 => j - 1 \in (i - 1) + 1 .. Len(Tail(s))
    BY <1>1
<1>4. QED
    BY <1>1, <1>2, <1>3

LEMMA NetLeavesRead ==
    ASSUME NEW S, NEW ms \in Seq(S), ms # <<>>, NEW ns, NEW ds, NEW ns2, NEW ds2, NEW v,
           Applied(Head(ms), ns, ds, ns2, ds2), NetLeaves(ns, ms, v)
    PROVE  NetLeaves(ns2, Tail(ms), v)
<1>1. /\ Len(ms) \in Nat \ {0} /\ Len(Tail(ms)) = Len(ms) - 1 /\ Head(ms) = ms[1]
      /\ \A i \in 1 .. Len(Tail(ms)) : Tail(ms)[i] = ms[i + 1]
    BY Behead
<1>2. ASSUME v \in ns2
      PROVE  \E i \in 1 .. Len(Tail(ms)) : DropsNet(Tail(ms)[i], v)
    <2>1. CASE AddsNet(ms[1], v)
        <3>1. PICK j \in 1 + 1 .. Len(ms) : DropsNet(ms[j], v)
            BY <1>1, <2>1 DEF NetLeaves
        <3>2. QED
            BY <1>1, <3>1, Shifted
    <2>2. CASE ~AddsNet(ms[1], v)
        <3>1. v \in ns /\ ~DropsNet(ms[1], v)
            BY <1>1, <1>2, <2>2 DEF Applied, AddsNet, DropsNet
        <3>2. PICK j \in 1 .. Len(ms) : DropsNet(ms[j], v)
            BY <3>1 DEF NetLeaves
        <3>3. j \in 1 + 1 .. Len(ms)
            BY <3>1, <3>2, <1>1
        <3>4. QED
            BY <1>1, <3>2, <3>3, Shifted
    <2>3. QED
        BY <2>1, <2>2
<1>3. ASSUME NEW i \in 1 .. Len(Tail(ms)), AddsNet(Tail(ms)[i], v)
      PROVE  \E j \in i + 1 .. Len(Tail(ms)) : DropsNet(Tail(ms)[j], v)
    <2> DEFINE k == i + 1
    <2>1. k \in 1 .. Len(ms) /\ AddsNet(ms[k], v) /\ k # 1 /\ k - 1 = i
        BY <1>1, <1>3
    <2> HIDE DEF k
    <2>2. PICK j \in k + 1 .. Len(ms) : DropsNet(ms[j], v)
        BY <2>1 DEF NetLeaves
    <2>3. j - 1 \in i + 1 .. Len(Tail(ms)) /\ Tail(ms)[j - 1] = ms[j]
        BY <2>1, Shifted
    <2>4. QED
        BY <2>2, <2>3
<1>4. QED
    BY <1>2, <1>3 DEF NetLeaves

LEMMA NodeLeavesRead ==
    ASSUME NEW S, NEW ms \in Seq(S), ms # <<>>, NEW ns, NEW ds, NEW ns2, NEW ds2, NEW n,
           Applied(Head(ms), ns, ds, ns2, ds2), NodeLeaves(ds, ms, n)
    PROVE  NodeLeaves(ds2, Tail(ms), n)
<1>1. /\ Len(ms) \in Nat \ {0} /\ Len(Tail(ms)) = Len(ms) - 1 /\ Head(ms) = ms[1]
      /\ \A i \in 1 .. Len(Tail(ms)) : Tail(ms)[i] = ms[i + 1]
    BY Behead
<1>2. ASSUME n \in ds2
      PROVE  \E i \in 1 .. Len(Tail(ms)) : DropsNode(Tail(ms)[i], n)
    <2>1. CASE Admits(ms[1], n)
        <3>1. PICK j \in 1 + 1 .. Len(ms) : DropsNode(ms[j], n)
            BY <1>1, <2>1 DEF NodeLeaves
        <3>2. QED
            BY <1>1, <3>1, Shifted
    <2>2. CASE ~Admits(ms[1], n)
        <3>1. n \in ds /\ ~DropsNode(ms[1], n)
            BY <1>1, <1>2, <2>2 DEF Applied, Admits, DropsNode
        <3>2. PICK j \in 1 .. Len(ms) : DropsNode(ms[j], n)
            BY <3>1 DEF NodeLeaves
        <3>3. j \in 1 + 1 .. Len(ms)
            BY <3>1, <3>2, <1>1
        <3>4. QED
            BY <1>1, <3>2, <3>3, Shifted
    <2>3. QED
        BY <2>1, <2>2
<1>3. ASSUME NEW i \in 1 .. Len(Tail(ms)), Admits(Tail(ms)[i], n)
      PROVE  \E j \in i + 1 .. Len(Tail(ms)) : DropsNode(Tail(ms)[j], n)
    <2> DEFINE k == i + 1
    <2>1. k \in 1 .. Len(ms) /\ Admits(ms[k], n) /\ k # 1 /\ k - 1 = i
        BY <1>1, <1>3
    <2> HIDE DEF k
    <2>2. PICK j \in k + 1 .. Len(ms) : DropsNode(ms[j], n)
        BY <2>1 DEF NodeLeaves
    <2>3. j - 1 \in i + 1 .. Len(Tail(ms)) /\ Tail(ms)[j - 1] = ms[j]
        BY <2>1, Shifted
    <2>4. QED
        BY <2>2, <2>3
<1>4. QED
    BY <1>2, <1>3 DEF NodeLeaves

-----------------------------------------------------------------------------
(* The actions on the current connection, seen as steps of Lines and Msgs.    *)

LEMMA TailJoined ==
    ASSUME NEW S, NEW s \in Seq(S), NEW t \in Seq(S), s # <<>>
    PROVE  s \o t # <<>> /\ Head(s \o t) = Head(s) /\ Tail(s \o t) = Tail(s) \o t
<1> DEFINE u == s \o t
           w == Tail(s) \o t
<1>1. /\ u \in Seq(S) /\ Len(u) = Len(s) + Len(t) /\ Len(s) \in Nat \ {0} /\ Len(t) \in Nat
      /\ \A i \in 1 .. Len(s) + Len(t) : u[i] = IF i <= Len(s) THEN s[i] ELSE t[i - Len(s)]
    BY Behead, ConcatProperties, LenProperties
<1>2. u # <<>>
    <2>1. Len(u) # 0
        BY <1>1
    <2>2. QED
        BY <1>1, <2>1, NotEmpty
<1>3. /\ Tail(u) \in Seq(S) /\ Len(Tail(u)) = Len(u) - 1 /\ Head(u) = u[1]
      /\ \A i \in 1 .. Len(Tail(u)) : Tail(u)[i] = u[i + 1]
    BY <1>1, <1>2, Behead
<1>4. /\ Tail(s) \in Seq(S) /\ Len(Tail(s)) = Len(s) - 1 /\ Head(s) = s[1]
      /\ \A i \in 1 .. Len(Tail(s)) : Tail(s)[i] = s[i + 1]
    BY Behead
<1>5. /\ w \in Seq(S) /\ Len(w) = Len(Tail(s)) + Len(t)
      /\ \A i \in 1 .. Len(Tail(s)) + Len(t) :
            w[i] = IF i <= Len(Tail(s)) THEN Tail(s)[i] ELSE t[i - Len(Tail(s))]
    BY <1>4, ConcatProperties
<1> HIDE DEF u, w
<1>6. Len(Tail(u)) = Len(w)
    BY <1>1, <1>3, <1>4, <1>5
<1>7. ASSUME NEW i \in 1 .. Len(Tail(u))
      PROVE  Tail(u)[i] = w[i]
    <2>1. i + 1 \in 1 .. Len(s) + Len(t) /\ Tail(u)[i] = u[i + 1]
        BY <1>1, <1>3
    <2>2. i \in 1 .. Len(Tail(s)) + Len(t)
        BY <1>5, <1>6
    <2>3. CASE i <= Len(Tail(s))
        <3>1. i + 1 <= Len(s) /\ i \in 1 .. Len(Tail(s))
            BY <1>1, <1>4, <2>3
        <3>2. QED
            BY <1>1, <1>4, <1>5, <2>1, <2>2, <2>3, <3>1
    <2>4. CASE ~(i <= Len(Tail(s)))
        <3>1. ~(i + 1 <= Len(s)) /\ (i + 1) - Len(s) = i - Len(Tail(s))
            BY <1>1, <1>4, <2>4
        <3>2. QED
            BY <1>1, <1>5, <2>1, <2>2, <2>4, <3>1
    <2>5. QED
        BY <2>3, <2>4
<1>8. Tail(u) = w
    BY <1>3, <1>5, <1>6, <1>7, SeqEqual
<1>9. Head(u) = Head(s)
    <2>1. 1 \in 1 .. Len(s) + Len(t) /\ 1 <= Len(s)
        BY <1>1
    <2>2. QED
        BY <1>1, <1>3, <1>4, <2>1
<1>10. QED
    BY <1>2, <1>8, <1>9 DEF u, w

LEMMA StreamTypes == TypeOK => Lines \in Seq(Line) /\ Msgs \in Seq(Reply)
BY ConcatProperties DEF TypeOK, Lines, Msgs

LEMMA LinesRead ==
    ASSUME TypeOK, CtlRead(cur)
    PROVE  Lines # <<>> /\ Lines' = Tail(Lines) /\ Dispatch(cur, Head(Lines))
<1>1. PICK k \in 1 .. Len(toCtl[cur]) :
         LET lines == inbuf[cur] \o SubSeq(toCtl[cur], 1, k)
         IN  /\ toCtl' = [toCtl EXCEPT ![cur] = SubSeq(@, k + 1, Len(@))]
             /\ inbuf' = [inbuf EXCEPT ![cur] = Tail(lines)]
             /\ Dispatch(cur, Head(lines))
    BY DEF CtlRead
<1> DEFINE in    == inbuf[cur]
           first == SubSeq(toCtl[cur], 1, k)
           rest  == SubSeq(toCtl[cur], k + 1, Len(toCtl[cur]))
<1>2. in \in Seq(Line) /\ toCtl[cur] \in Seq(Line) /\ cur \in Conn
    BY DEF TypeOK
<1>3. first \in Seq(Line) /\ Len(first) = k /\ rest \in Seq(Line)
    <2>1. \A i \in 1 .. Len(toCtl[cur]) : toCtl[cur][i] \in Line
        BY <1>2
    <2>2. Len(toCtl[cur]) \in Nat /\ k \in Int
        BY <1>2
    <2>3. QED
        BY <2>1, <2>2, SubSeqProperties
<1>4. first \o rest = toCtl[cur]
    <2>1. Len(toCtl[cur]) \in Nat
        BY <1>2
    <2>2. SubSeq(toCtl[cur], 1, Len(toCtl[cur])) = toCtl[cur]
        BY <1>2, SubSeqFull
    <2>3. 1 \in 1 .. Len(toCtl[cur]) + 1 /\ k \in 1 - 1 .. Len(toCtl[cur])
          /\ Len(toCtl[cur]) \in k .. Len(toCtl[cur])
        BY <2>1
    <2>4. QED
        BY <1>2, <2>2, <2>3, ConcatAdjacentSubSeq
<1>5. cur' = cur
    BY DEF CtlRead, switchVars
<1>6. /\ toCtl'[cur] = rest /\ inbuf'[cur] = Tail(in \o first)
      /\ Dispatch(cur, Head(in \o first))
    BY <1>1 DEF TypeOK
<1> HIDE DEF in, first, rest
<1>7. Lines = (in \o first) \o rest
    <2>1. in \in Seq(Line)
        BY <1>2
    <2>2. (in \o first) \o rest = in \o (first \o rest)
        BY <1>3, <2>1, ConcatAssociative
    <2>3. QED
        BY <1>4, <2>2 DEF Lines, in
<1>8. in \o first \in Seq(Line) /\ in \o first # <<>>
    <2>1. in \o first \in Seq(Line) /\ Len(in \o first) = Len(in) + k /\ Len(in) \in Nat
        BY <1>2, <1>3, ConcatProperties, LenProperties
    <2>2. Len(in \o first) # 0
        BY <2>1
    <2>3. QED
        BY <2>1, <2>2, NotEmpty
<1>9. Lines' = Tail(in \o first) \o rest
    BY <1>5, <1>6 DEF Lines
<1>10. QED
    BY <1>3, <1>6, <1>7, <1>8, <1>9, TailJoined

LEMMA LinesWritten ==
    ASSUME TypeOK, NEW line \in Line, WriteLine(cur, line), cur \notin cut,
           UNCHANGED <<cur, inbuf>>
    PROVE  Lines' = Lines \o <<line>>
<1>1. toCtl'[cur] = Append(toCtl[cur], line) /\ cur' = cur /\ inbuf'[cur] = inbuf[cur]
    BY DEF WriteLine, TypeOK
<1> DEFINE in  == inbuf[cur]
           out == toCtl[cur]
           one == <<line>>
<1>2. in \in Seq(Line) /\ out \in Seq(Line) /\ one \in Seq(Line)
    BY Single DEF TypeOK
<1>3. Append(out, line) = out \o one
    BY <1>2, AppendIsConcat
<1>4. Lines = in \o out /\ Lines' = in \o Append(out, line)
    BY <1>1 DEF Lines
<1> HIDE DEF in, out, one
<1>5. (in \o out) \o one = in \o (out \o one)
    BY <1>2, ConcatAssociative
<1>6. QED
    BY <1>3, <1>4, <1>5 DEF one

LEMMA MsgsSent ==
    ASSUME TypeOK, NEW c \in Conn \cup {0}, NEW msgs \in Seq(Reply), Send(c, msgs), cur' = cur
    PROVE  /\ Msgs' = Msgs \/ Msgs' = Msgs \o msgs
           /\ c # cur => Msgs' = Msgs
           /\ c = cur /\ cur \notin cut => Msgs' = Msgs \o msgs
           /\ \A d \in Conn : d # c => toSwitch'[d] = toSwitch[d]
BY ConnIsPositive DEF TypeOK, Send, Msgs

LEMMA MsgsRead ==
    ASSUME TypeOK, OnRead
    PROVE  /\ link = "up"
           /\ UNCHANGED <<cur, link, pipe, cut, peer, inbuf, sinfo, dbNets, dbNodes, stray, refused>>
           /\ \A c \in Conn : c # cur => toSwitch'[c] = toSwitch[c]
           /\ Msgs # <<>> /\ Msgs' = Tail(Msgs)
           /\ Applied(Head(Msgs), nets, nodes, nets', nodes')
           /\ inited' = (inited \/ LastNode(Head(Msgs)))
           /\ \/ toCtl' = toCtl
              \/ WriteLine(cur, <<ListNodes>>) /\ Head(Msgs).op = "listall-network"
<1> DEFINE m == Head(toSwitch[cur])
<1>1. /\ link = "up"
      /\ UNCHANGED <<cur, link, pipe, cut, peer, inbuf, sinfo, dbNets, dbNodes, stray, refused>>
      /\ toSwitch[cur] # <<>> /\ toSwitch' = [toSwitch EXCEPT ![cur] = Tail(@)]
    BY DEF OnRead, dbVars, history
<1>2. Msgs # <<>> /\ Msgs' = Tail(Msgs) /\ Head(Msgs) = m
      /\ \A c \in Conn : c # cur => toSwitch'[c] = toSwitch[c]
    BY <1>1 DEF Msgs, TypeOK
<1>3. /\ Applied(m, nets, nodes, nets', nodes')
      /\ inited' = (inited \/ LastNode(m))
      /\ \/ toCtl' = toCtl
         \/ WriteLine(cur, <<ListNodes>>) /\ m.op = "listall-network"
    <2>1. CASE m.op = "listall-network" /\ nets' = nets \cup {m.net} /\ UNCHANGED <<nodes, inited>>
               /\ (toCtl' = toCtl \/ WriteLine(cur, <<ListNodes>>))
        BY <2>1 DEF Applied, LastNode, TypeOK
    <2>2. CASE m.op = "listall-node" /\ nodes' = NodesAfterList(m.node)
               /\ inited' = (inited \/ m.last) /\ UNCHANGED <<nets, toCtl>>
        BY <2>2 DEF Applied, LastNode, NodesAfterList
    <2>3. CASE m.op = "del-network" /\ nets' = nets \ {m.net} /\ nodes' = NodesAfterDelNet(m.net)
               /\ UNCHANGED <<inited, toCtl>>
        BY <2>3 DEF Applied, LastNode, NodesAfterDelNet, TypeOK
    <2>4. CASE m.op = "del-node" /\ nodes' = nodes \ {m.node} /\ UNCHANGED <<nets, inited, toCtl>>
        BY <2>4 DEF Applied, LastNode, TypeOK
    <2>6. CASE m.op = "error" /\ UNCHANGED <<nets, nodes, inited, toCtl>>
        BY <2>6 DEF Applied, LastNode, TypeOK
    <2>5. QED
        BY <2>1, <2>2, <2>3, <2>4, <2>6 DEF OnRead
<1>4. QED
    BY <1>1, <1>2, <1>3
-----------------------------------------------------------------------------
(* Follows, step by step *)

LEMMA Added ==
    ASSUME NEW S, NEW s \in Seq(S), NEW x \in S
    PROVE  /\ s \o <<x>> \in Seq(S) /\ Len(s \o <<x>>) = Len(s) + 1 /\ Len(s) \in Nat
           /\ \A i \in 1 .. Len(s) : (s \o <<x>>)[i] = s[i]
           /\ (s \o <<x>>)[Len(s) + 1] = x
<1>1. s \o <<x>> = Append(s, x)
    BY AppendIsConcat
<1> DEFINE u == Append(s, x)
<1>2. /\ u \in Seq(S) /\ Len(u) = Len(s) + 1 /\ Len(s) \in Nat
      /\ \A i \in 1 .. Len(s) : u[i] = s[i]
      /\ u[Len(s) + 1] = x
    BY AppendProperties, LenProperties
<1> HIDE DEF u
<1>3. QED
    BY <1>1, <1>2 DEF u

LEMMA FollowsWritten ==
    ASSUME NEW S, NEW ls \in Seq(S), NEW line \in S, NEW ms, NEW ns, NEW ds, NEW ini,
           NEW lv, NEW ln, Follows(ns, ds, ini, ls, ms, lv, ln)
    PROVE  Follows(ns, ds, ini, ls \o <<line>>, ms, lv, ln)
<1> DEFINE u == ls \o <<line>>
<1>2. /\ Len(u) = Len(ls) + 1 /\ Len(ls) \in Nat
      /\ \A i \in 1 .. Len(ls) : u[i] = ls[i]
    BY Added
<1> HIDE DEF u
<1>3. 1 .. Len(ls) \subseteq 1 .. Len(u)
    BY <1>2
<1>4. \A v \in lv : Known(ns, ms, v) \/ \E i \in 1 .. Len(ls) : AsksNets(u[i])
    BY <1>2 DEF Follows
<1>5. ASSUME NEW j \in 1 .. Len(u), AsksNodes(u[j]), NEW v \in lv
      PROVE  Known(ns, ms, v) \/ \E i \in 1 .. j - 1 : AsksNets(u[i])
    <2>1. CASE j \in 1 .. Len(ls)
        <3>1. Known(ns, ms, v) \/ \E i \in 1 .. j - 1 : AsksNets(ls[i])
            BY <1>2, <1>5, <2>1 DEF Follows
        <3>2. 1 .. j - 1 \subseteq 1 .. Len(ls)
            BY <1>2, <2>1
        <3>3. QED
            BY <1>2, <3>1, <3>2
    <2>2. CASE j \notin 1 .. Len(ls)
        <3>1. j - 1 = Len(ls)
            BY <1>2, <2>2
        <3>2. QED
            BY <1>4, <3>1
    <2>3. QED
        BY <2>1, <2>2
<1>6. QED
    BY <1>3, <1>4, <1>5 DEF Follows, u

(* The networks and nodes that are new to the database are in the messages. *)
LEMMA FollowsPushed ==
    ASSUME NEW S, NEW ms \in Seq(S), NEW more \in Seq(S), NEW ls, NEW ns, NEW ds, NEW ini,
           NEW lv, NEW ln, NEW lv2, NEW ln2, Follows(ns, ds, ini, ls, ms, lv, ln),
           \A v \in lv2 : v \in lv \/ \E i \in 1 .. Len(more) : AddsNet(more[i], v),
           \A n \in ln2 : n \in ln \/ (NodeNet[n] \in lv
                                       /\ \E i \in 1 .. Len(more) : Admits(more[i], n)),
           \A i \in 1 .. Len(more) : ~LastNode(more[i])
    PROVE  Follows(ns, ds, ini, ls, ms \o more, lv2, ln2)
<1> DEFINE u == ms \o more
<1>0. IsJoin(u, ms, more)
    BY Joined
<1>1. /\ Len(u) = Len(ms) + Len(more) /\ Len(ms) \in Nat /\ Len(more) \in Nat
      /\ \A i \in 1 .. Len(ms) : u[i] = ms[i]
      /\ \A i \in 1 .. Len(more) : u[Len(ms) + i] = more[i]
      /\ \A i \in 1 .. Len(u) :
            i \notin 1 .. Len(ms) => \E j \in 1 .. Len(more) : i = Len(ms) + j
    BY <1>0 DEF IsJoin
<1>2. \A v \in lv2 : v \in lv /\ ~Known(ns, u, v) => ~Known(ns, ms, v)
    BY KnownJoined
<1>3. \A v \in lv2 : v \notin lv => Known(ns, u, v)
    BY KnownJoined
<1> HIDE DEF u
<1>4. ini \/ (\E i \in 1 .. Len(u) : LastNode(u[i])) =>
          ini \/ \E i \in 1 .. Len(ms) : LastNode(ms[i])
    BY <1>1
<1>5. ASSUME ini \/ \E i \in 1 .. Len(u) : LastNode(u[i])
      PROVE  /\ \A v \in lv2 : Known(ns, u, v)
             /\ \A n \in ln2 : Covered(ns, ds, u, n)
    <2>1. /\ \A v \in lv : Known(ns, ms, v)
          /\ \A n \in ln : Covered(ns, ds, ms, n)
        BY <1>4, <1>5 DEF Follows
    <2>2. \A v \in lv2 : Known(ns, u, v)
        BY <1>2, <1>3, <2>1
    <2>3. ASSUME NEW n \in ln2
          PROVE  Covered(ns, ds, u, n)
        BY <2>1, CoveredJoined DEF u
    <2>4. QED
        BY <2>2, <2>3
<1>6. \A v \in lv2 : Known(ns, u, v) \/ \E i \in 1 .. Len(ls) : AsksNets(ls[i])
    BY <1>2, <1>3 DEF Follows
<1>7. \A j \in 1 .. Len(ls) : AsksNodes(ls[j]) =>
          \A v \in lv2 : Known(ns, u, v) \/ \E i \in 1 .. j - 1 : AsksNets(ls[i])
    BY <1>2, <1>3 DEF Follows
<1>8. QED
    BY <1>5, <1>6, <1>7 DEF Follows, u

(* The switch reads one message. *)
LEMMA FollowsRead ==
    ASSUME NEW S, NEW ms \in Seq(S), ms # <<>>, NEW ls, NEW ns, NEW ds, NEW ini,
           NEW ns2, NEW ds2, NEW lv, NEW ln, Follows(ns, ds, ini, ls, ms, lv, ln),
           Applied(Head(ms), ns, ds, ns2, ds2),
           \A v \in lv : ~DropsNet(Head(ms), v),
           \A n \in ln : NodeNet[n] \in lv /\ ~DropsNode(Head(ms), n)
    PROVE  Follows(ns2, ds2, ini \/ LastNode(Head(ms)), ls, Tail(ms), lv, ln)
<1>1. /\ Len(ms) \in Nat \ {0} /\ Len(Tail(ms)) = Len(ms) - 1 /\ Head(ms) = ms[1]
      /\ \A i \in 1 .. Len(Tail(ms)) : Tail(ms)[i] = ms[i + 1]
    BY Behead
<1>2. \A v \in lv : Known(ns, ms, v) => Known(ns2, Tail(ms), v)
    BY KnownRead
<1>3. \A n \in ln : Covered(ns, ds, ms, n) => Covered(ns2, ds2, Tail(ms), n)
    BY CoveredRead
<1>4. ASSUME (ini \/ LastNode(Head(ms))) \/ \E i \in 1 .. Len(Tail(ms)) : LastNode(Tail(ms)[i])
      PROVE  ini \/ \E i \in 1 .. Len(ms) : LastNode(ms[i])
    <2>1. CASE LastNode(Head(ms))
        BY <1>1, <2>1
    <2>2. ASSUME NEW i \in 1 .. Len(Tail(ms)), LastNode(Tail(ms)[i])
          PROVE  \E k \in 1 .. Len(ms) : LastNode(ms[k])
        <3>1. i + 1 \in 1 .. Len(ms) /\ LastNode(ms[i + 1])
            BY <1>1, <2>2
        <3>2. QED
            BY <3>1
    <2>3. QED
        BY <1>4, <2>1, <2>2
<1>5. QED
    BY <1>2, <1>3, <1>4 DEF Follows

(* The controller reads one line, which asks for the networks, or for the nodes, or
   for nothing. *)
LEMMA FollowsAnswered ==
    ASSUME NEW S, NEW ls \in Seq(S), ls # <<>>, NEW ms2, NEW ms,
           NEW ns, NEW ds, NEW ini, NEW lv, NEW ln, Follows(ns, ds, ini, ls, ms, lv, ln),
           \A v \in lv : Known(ns, ms, v) => Known(ns, ms2, v),
           AsksNets(Head(ls)) => \A v \in lv : Known(ns, ms2, v),
           \A n \in ln : Covered(ns, ds, ms, n) => Covered(ns, ds, ms2, n),
           \/ \A i \in 1 .. Len(ms2) : LastNode(ms2[i]) =>
                 \E j \in 1 .. Len(ms) : LastNode(ms[j])
           \/ /\ AsksNodes(Head(ls))
              /\ (\A v \in lv : Known(ns, ms, v)) => \A n \in ln : Covered(ns, ds, ms2, n)
    PROVE  Follows(ns, ds, ini, Tail(ls), ms2, lv, ln)
<1>1. /\ Len(ls) \in Nat \ {0} /\ Len(Tail(ls)) = Len(ls) - 1 /\ Head(ls) = ls[1]
      /\ \A i \in 1 .. Len(Tail(ls)) : Tail(ls)[i] = ls[i + 1]
    BY Behead
<1>2. \A i \in 1 .. Len(ls) : i # 1 => i - 1 \in 1 .. Len(Tail(ls)) /\ Tail(ls)[i - 1] = ls[i]
    <2> SUFFICES ASSUME NEW i \in 1 .. Len(ls), i # 1
                 PROVE  i - 1 \in 1 .. Len(Tail(ls)) /\ Tail(ls)[i - 1] = ls[i]
        OBVIOUS
    <2>1. i - 1 \in 1 .. Len(Tail(ls)) /\ (i - 1) + 1 = i
        BY <1>1
    <2>2. QED
        BY <1>1, <2>1
<1>3. ASSUME NEW v \in lv
      PROVE  Known(ns, ms2, v) \/ \E i \in 1 .. Len(Tail(ls)) : AsksNets(Tail(ls)[i])
    <2>1. CASE Known(ns, ms, v)
        BY <2>1
    <2>2. ASSUME NEW i \in 1 .. Len(ls), AsksNets(ls[i])
          PROVE  Known(ns, ms2, v) \/ \E l \in 1 .. Len(Tail(ls)) : AsksNets(Tail(ls)[l])
        BY <1>1, <1>2, <2>2
    <2>3. QED
        BY <2>1, <2>2 DEF Follows
<1>4. ASSUME NEW j \in 1 .. Len(Tail(ls)), AsksNodes(Tail(ls)[j]), NEW v \in lv
      PROVE  Known(ns, ms2, v) \/ \E i \in 1 .. j - 1 : AsksNets(Tail(ls)[i])
    <2> DEFINE k == j + 1
    <2>1. k \in 1 .. Len(ls) /\ AsksNodes(ls[k]) /\ k - 1 = j
        BY <1>1, <1>4
    <2> HIDE DEF k
    <2>2. CASE Known(ns, ms, v)
        BY <2>2
    <2>3. ASSUME NEW i \in 1 .. k - 1, AsksNets(ls[i])
          PROVE  Known(ns, ms2, v) \/ \E l \in 1 .. j - 1 : AsksNets(Tail(ls)[l])
        <3>1. CASE i = 1
            BY <1>1, <2>3, <3>1
        <3>2. CASE i # 1
            <4>1. i \in 1 .. Len(ls) /\ i - 1 \in 1 .. j - 1
                BY <1>1, <2>1, <2>3, <3>2
            <4>2. QED
                BY <1>2, <2>3, <3>2, <4>1
        <3>3. QED
            BY <3>1, <3>2
    <2>4. QED
        BY <2>1, <2>2, <2>3 DEF Follows
<1>5. ASSUME ini \/ \E i \in 1 .. Len(ms2) : LastNode(ms2[i])
      PROVE  /\ \A v \in lv : Known(ns, ms2, v)
             /\ \A n \in ln : Covered(ns, ds, ms2, n)
    <2>1. CASE ini \/ \E j \in 1 .. Len(ms) : LastNode(ms[j])
        BY <2>1 DEF Follows
    <2>2. CASE /\ AsksNodes(Head(ls))
               /\ (\A v \in lv : Known(ns, ms, v)) => \A n \in ln : Covered(ns, ds, ms2, n)
        <3>1. 1 \in 1 .. Len(ls) /\ AsksNodes(ls[1]) /\ 1 .. 1 - 1 = {}
            BY <1>1, <2>2
        <3>2. \A v \in lv : Known(ns, ms, v)
            BY <3>1 DEF Follows
        <3>3. QED
            BY <2>2, <3>2
    <2>3. QED
        BY <1>5, <2>1, <2>2
<1>6. QED
    BY <1>3, <1>4, <1>5 DEF Follows

(* The connection is made: the networks are asked for, and nothing else was. *)
LEMMA FollowsAsked ==
    ASSUME NEW S, NEW ls \in Seq(S), <<ListNets>> \in S, NEW ms, NEW ns, NEW ds, NEW lv, NEW ln,
           \A i \in 1 .. Len(ls) : ~AsksNodes(ls[i]),
           \A i \in 1 .. Len(ms) : ~LastNode(ms[i])
    PROVE  Follows(ns, ds, FALSE, ls \o <<<<ListNets>>>>, ms, lv, ln)
<1> DEFINE line == <<ListNets>>
           u    == ls \o <<line>>
<1>1. AsksNets(line) /\ ~AsksNodes(line)
    BY DEF AsksNets, AsksNodes, ListNets, ListNodes
<1>2. line \in S
    OBVIOUS
<1> HIDE DEF line
<1>4. /\ Len(u) = Len(ls) + 1 /\ Len(ls) \in Nat
      /\ \A i \in 1 .. Len(ls) : u[i] = ls[i]
      /\ u[Len(ls) + 1] = line
    BY <1>2, Added
<1> HIDE DEF u
<1>5. Len(u) \in 1 .. Len(u) /\ u[Len(u)] = line
      /\ \A i \in 1 .. Len(u) : i \in 1 .. Len(ls) \/ i = Len(u)
    BY <1>4
<1>6. \A i \in 1 .. Len(u) : ~AsksNodes(u[i])
    BY <1>1, <1>4, <1>5
<1>7. QED
    BY <1>1, <1>5, <1>6 DEF Follows, u, line
-----------------------------------------------------------------------------
(* Mirrors, Announces and Unasked, step by step *)

LEMMA MirrorsEmpty ==
    ASSUME NEW dn, NEW dd, NEW nv, NEW nn
    PROVE  Mirrors({}, {}, <<>>, dn, dd, nv, nn)
BY DEF Mirrors, Known, NetLeaves, NodeLeaves

(* A message of a joined stream is one of the first or one of the second. *)
IsFrom(u, s, t) == \A i \in 1 .. Len(u) : \/ \E j \in 1 .. Len(s) : u[i] = s[j]
                                          \/ \E j \in 1 .. Len(t) : u[i] = t[j]

LEMMA JoinedFrom ==
    ASSUME NEW S, NEW s \in Seq(S), NEW t \in Seq(S)
    PROVE  IsFrom(s \o t, s, t)
<1> DEFINE u == s \o t
<1>0. IsJoin(u, s, t)
    BY Joined
<1> HIDE DEF u
<1>1. /\ \A i \in 1 .. Len(s) : u[i] = s[i]
      /\ \A i \in 1 .. Len(t) : u[Len(s) + i] = t[i]
      /\ \A i \in 1 .. Len(u) :
            i \notin 1 .. Len(s) => \E j \in 1 .. Len(t) : i = Len(s) + j
    BY <1>0 DEF IsJoin
<1>2. QED
    BY <1>1 DEF u, IsFrom

(* What is added to the database, and what is taken out, is in the messages. *)
NetsSent(more, dn, dn2, nv) ==
    \A v \in nv :
       /\ dn[v] # "unborn" => dn2[v] # "unborn"
       /\ \A i \in 1 .. Len(more) : AddsNet(more[i], v) => dn2[v] = "live"
       /\ dn2[v] = "deleted" => dn[v] = "deleted" \/ (Len(more) = 1 /\ DropsNet(more[1], v))
NodesSent(more, dd, dd2, nn) ==
    \A n \in nn :
       /\ dd[n] # "unborn" => dd2[n] # "unborn"
       /\ \A i \in 1 .. Len(more) : Admits(more[i], n) => dd2[n] = "live"
       /\ dd2[n] = "deleted" => dd[n] = "deleted" \/ (Len(more) = 1 /\ DropsNode(more[1], n))

LEMMA MirrorsSent ==
    ASSUME NEW S, NEW ms \in Seq(S), NEW more \in Seq(S), NEW ns, NEW ds,
           NEW dn, NEW dd, NEW dn2, NEW dd2, NEW nv, NEW nn, NEW nv2, NEW nn2,
           nv2 \subseteq nv, nn2 \subseteq nn, Mirrors(ns, ds, ms, dn, dd, nv, nn),
           NetsSent(more, dn, dn2, nv2), NodesSent(more, dd, dd2, nn2)
    PROVE  Mirrors(ns, ds, ms \o more, dn2, dd2, nv2, nn2)
<1> DEFINE u == ms \o more
<1>1. IsFrom(u, ms, more)
    BY JoinedFrom
<1>2. ASSUME NEW v \in nv2, dn2[v] = "deleted"
      PROVE  NetLeaves(ns, u, v)
    <2>1. CASE dn[v] = "deleted"
        <3>1. NetLeaves(ns, ms, v) /\ \A i \in 1 .. Len(more) : ~AddsNet(more[i], v)
            BY <1>2, <2>1 DEF Mirrors, NetsSent, NodesSent
        <3>2. QED
            BY <3>1, NetLeavesJoined
    <2>2. CASE Len(more) = 1 /\ DropsNet(more[1], v)
        BY <2>2, NetLeavesJoined
    <2>3. QED
        BY <1>2, <2>1, <2>2 DEF NetsSent
<1>3. ASSUME NEW n \in nn2, dd2[n] = "deleted"
      PROVE  NodeLeaves(ds, u, n)
    <2>1. CASE dd[n] = "deleted"
        <3>1. NodeLeaves(ds, ms, n) /\ \A i \in 1 .. Len(more) : ~Admits(more[i], n)
            BY <1>3, <2>1 DEF Mirrors, NetsSent, NodesSent
        <3>2. QED
            BY <3>1, NodeLeavesJoined
    <2>2. CASE Len(more) = 1 /\ DropsNode(more[1], n)
        BY <2>2, NodeLeavesJoined
    <2>3. QED
        BY <1>3, <2>1, <2>2 DEF NodesSent
<1> HIDE DEF u
<1>4. ASSUME NEW v \in nv2, Known(ns, u, v)
      PROVE  dn2[v] # "unborn"
    <2>1. Known(ns, ms, v) \/ \E i \in 1 .. Len(more) : AddsNet(more[i], v)
        BY <1>1, <1>4 DEF Known, IsFrom
    <2>2. QED
        BY <2>1 DEF Mirrors, NetsSent, NodesSent
<1>5. ASSUME NEW n \in nn2, n \in ds \/ \E i \in 1 .. Len(u) : Admits(u[i], n)
      PROVE  dd2[n] # "unborn"
    <2>1. \/ n \in ds \/ \E i \in 1 .. Len(ms) : Admits(ms[i], n)
          \/ \E i \in 1 .. Len(more) : Admits(more[i], n)
        BY <1>1, <1>5 DEF IsFrom
    <2>2. QED
        BY <2>1 DEF Mirrors, NetsSent, NodesSent
<1>6. QED
    BY <1>2, <1>3, <1>4, <1>5 DEF Mirrors, u

LEMMA MirrorsRead ==
    ASSUME NEW S, NEW ms \in Seq(S), ms # <<>>, NEW ns, NEW ds, NEW ns2, NEW ds2,
           NEW dn, NEW dd, NEW nv, NEW nn, Applied(Head(ms), ns, ds, ns2, ds2),
           Mirrors(ns, ds, ms, dn, dd, nv, nn)
    PROVE  Mirrors(ns2, ds2, Tail(ms), dn, dd, nv, nn)
<1>1. /\ Len(ms) \in Nat \ {0} /\ Len(Tail(ms)) = Len(ms) - 1 /\ Head(ms) = ms[1]
      /\ \A i \in 1 .. Len(Tail(ms)) : Tail(ms)[i] = ms[i + 1]
      /\ \A i \in 1 .. Len(Tail(ms)) : i + 1 \in 1 .. Len(ms)
    BY Behead
<1>2. ASSUME NEW v \in nv, Known(ns2, Tail(ms), v)
      PROVE  Known(ns, ms, v)
    <2>1. ASSUME v \in ns2
          PROVE  Known(ns, ms, v)
        <3>1. v \in ns \/ AddsNet(ms[1], v)
            BY <1>1, <2>1 DEF Applied, AddsNet
        <3>2. QED
            BY <1>1, <3>1 DEF Known
    <2>2. QED
        BY <1>1, <1>2, <2>1 DEF Known
<1>3. ASSUME NEW n \in nn, n \in ds2 \/ \E i \in 1 .. Len(Tail(ms)) : Admits(Tail(ms)[i], n)
      PROVE  n \in ds \/ \E i \in 1 .. Len(ms) : Admits(ms[i], n)
    <2>1. ASSUME n \in ds2
          PROVE  n \in ds \/ Admits(ms[1], n)
        BY <1>1, <2>1 DEF Applied, Admits
    <2>2. QED
        BY <1>1, <1>3, <2>1
<1>4. \A v \in nv : NetLeaves(ns, ms, v) => NetLeaves(ns2, Tail(ms), v)
    BY NetLeavesRead
<1>5. \A n \in nn : NodeLeaves(ds, ms, n) => NodeLeaves(ds2, Tail(ms), n)
    BY NodeLeavesRead
<1>6. QED
    BY <1>2, <1>3, <1>4, <1>5 DEF Mirrors

LEMMA AnnouncesKept ==
    ASSUME NEW ms, NEW dn, NEW dd, NEW dn2, NEW dd2, NEW nv, NEW nn, NEW nv2, NEW nn2,
           nv2 \subseteq nv, nn2 \subseteq nn, Announces(ms, dn, dd, nv, nn),
           \A v \in nv2 : dn[v] = "deleted" => dn2[v] = "deleted",
           \A n \in nn2 : dd[n] = "deleted" => dd2[n] = "deleted"
    PROVE  Announces(ms, dn2, dd2, nv2, nn2)
BY DEF Announces, Truthful

LEMMA AnnouncesSent ==
    ASSUME NEW S, NEW ms \in Seq(S), NEW more \in Seq(S), NEW dn, NEW dd,
           NEW nv, NEW nn, Announces(ms, dn, dd, nv, nn), Announces(more, dn, dd, nv, nn)
    PROVE  Announces(ms \o more, dn, dd, nv, nn)
<1> DEFINE u == ms \o more
<1>1. IsFrom(u, ms, more)
    BY JoinedFrom
<1> HIDE DEF u
<1>2. QED
    BY <1>1 DEF Announces, u, IsFrom

LEMMA AnnouncesRead ==
    ASSUME NEW S, NEW ms \in Seq(S), ms # <<>>, NEW dn, NEW dd, NEW nv, NEW nn,
           Announces(ms, dn, dd, nv, nn)
    PROVE  Announces(Tail(ms), dn, dd, nv, nn) /\ Truthful(Head(ms), dn, dd, nv, nn)
<1>1. /\ \A i \in 1 .. Len(Tail(ms)) : i + 1 \in 1 .. Len(ms) /\ Tail(ms)[i] = ms[i + 1]
      /\ 1 \in 1 .. Len(ms) /\ Head(ms) = ms[1]
    BY Behead
<1>2. QED
    BY <1>1 DEF Announces

LEMMA UnaskedWritten ==
    ASSUME NEW S, NEW ls \in Seq(S), NEW line \in S, NEW ms, Unasked(ls, ms),
           ~AsksNets(line), ~AsksNodes(line)
    PROVE  Unasked(ls \o <<line>>, ms)
<1> DEFINE u == ls \o <<line>>
<1>1. /\ Len(u) = Len(ls) + 1 /\ Len(ls) \in Nat
      /\ \A i \in 1 .. Len(ls) : u[i] = ls[i]
      /\ u[Len(ls) + 1] = line
    BY Added
<1> HIDE DEF u
<1>2. \A i \in 1 .. Len(u) : i \in 1 .. Len(ls) \/ i = Len(ls) + 1
    BY <1>1
<1>3. QED
    BY <1>1, <1>2 DEF Unasked, u

LEMMA UnaskedRead ==
    ASSUME NEW S, NEW ls \in Seq(S), ls # <<>>, NEW ms, Unasked(ls, ms)
    PROVE  Unasked(Tail(ls), ms) /\ ~AsksNets(Head(ls)) /\ ~AsksNodes(Head(ls))
<1>1. /\ Len(ls) \in Nat \ {0} /\ Head(ls) = ls[1]
      /\ \A i \in 1 .. Len(Tail(ls)) : i + 1 \in 1 .. Len(ls) /\ Tail(ls)[i] = ls[i + 1]
    BY Behead
<1>2. QED
    BY <1>1 DEF Unasked

LEMMA UnaskedSent ==
    ASSUME NEW S, NEW ms \in Seq(S), NEW more \in Seq(S), NEW ls, Unasked(ls, ms),
           \A i \in 1 .. Len(more) : ~LastNode(more[i])
    PROVE  Unasked(ls, ms \o more)
<1> DEFINE u == ms \o more
<1>1. IsFrom(u, ms, more)
    BY JoinedFrom
<1> HIDE DEF u
<1>2. \A i \in 1 .. Len(u) : ~LastNode(u[i])
    BY <1>1 DEF Unasked, IsFrom
<1>3. QED
    BY <1>2 DEF Unasked, u

-----------------------------------------------------------------------------
(* The steps *)

LInvNext == Streams' /\ Database' /\ Following' /\ First'

LEMMA Bridge ==
    /\ Streams' <=>
          /\ \A i \in 1 .. Len(pipe') : pipe'[i].op = "update-node-status"
          /\ \A c \in Conn : c > cur' =>
                peer'[c] = "none" /\ toCtl'[c] = <<>> /\ inbuf'[c] = <<>> /\ toSwitch'[c] = <<>>
          /\ peer'[cur'] \notin {"ready", "freed"} => Msgs' = <<>>
          /\ link' = "up" => peer'[cur'] \in {"ready", "freed"}
          /\ link' = "connecting" => Unasked(Lines', Msgs')
    /\ Database' <=>
          /\ \A n \in Node : dbNodes'[n] = "live" => dbNets'[NodeNet[n]] = "live"
          /\ sinfo' = cur' => Announces(Msgs', dbNets', dbNodes', SoundNets', SoundNodes')
    /\ Following' <=>
          (link' = "up" /\ cur' \notin cut' /\ sinfo' = cur' /\ cur' \notin refused' =>
              Follows(nets', nodes', inited', Lines', Msgs', TrueNets', TrueNodes'))
    /\ First' <=>
          (cur' = 1 /\ 1 \notin cut' =>
              /\ peer'[1] # "freed" /\ (peer'[1] = "ready" => sinfo' = 1)
              /\ peer'[1] # "ready" => Msgs' = <<>>
              /\ link' # "up" => nets' = {} /\ nodes' = {}
              /\ Mirrors(nets', nodes', Msgs', dbNets', dbNodes', SoundNets', SoundNodes'))
BY DEF Streams, Database, Following, First, Attached, Unasked, Announces, Truthful, Follows, Mirrors,
       Known, Covered, NetLeaves, NodeLeaves

(* The sets the invariant speaks of follow the database and the mishaps. *)
LEMMA TruthKept ==
    UNCHANGED <<dbNets, dbNodes, stray>> =>
        UNCHANGED <<LiveNets, LiveNodes, SoundNets, SoundNodes, TrueNets, TrueNodes>>
BY DEF stray, LiveNets, LiveNodes, SoundNets, SoundNodes, TrueNets, TrueNodes, SoundNet, SoundNode

LEMMA OnConnectedL == LInv /\ OnConnected => LInvNext
<1> SUFFICES ASSUME LInv, OnConnected
             PROVE  LInvNext
    OBVIOUS
<1>1. /\ link = "connecting" /\ cur \notin cut /\ peer[cur] = "ready"
      /\ link' = "up" /\ inited' = FALSE
      /\ WriteLine(cur, <<ListNets>>)
      /\ UNCHANGED <<cur, nets, nodes, pipe, cut, toSwitch, peer, inbuf, sinfo, dbNets, dbNodes, stray, refused>>
    BY DEF OnConnected, InitedOnConnect, dbVars, history
<1>2. TypeOK /\ Streams /\ Database /\ Following /\ First
    BY DEF LInv
<1>3. Lines \in Seq(Line) /\ <<ListNets>> \in Line
    BY <1>2, StreamTypes, LinesAreTyped
<1>4. UNCHANGED <<Msgs, SoundNets, SoundNodes, TrueNets, TrueNodes>>
    BY <1>1, TruthKept DEF Msgs
<1>5. Lines' = Lines \o <<<<ListNets>>>>
    BY <1>1, <1>2, <1>3, LinesWritten
<1>6. Streams'
    <2>1. \A c \in Conn : c > cur => toCtl'[c] = toCtl[c]
        BY <1>1, <1>2 DEF WriteLine, TypeOK, Conn
    <2>2. QED
        BY <1>1, <1>2, <2>1, Bridge DEF Streams
<1>7. Database'
    BY <1>1, <1>2, <1>4, Bridge DEF Database
<1>8. Follows(nets, nodes, FALSE, Lines \o <<<<ListNets>>>>, Msgs, TrueNets, TrueNodes)
    <2>1. /\ \A i \in 1 .. Len(Lines) : ~AsksNodes(Lines[i])
          /\ \A i \in 1 .. Len(Msgs) : ~LastNode(Msgs[i])
        BY <1>1, <1>2 DEF Streams, Unasked
    <2>2. QED
        BY <1>3, <2>1, FollowsAsked
<1>9. Following'
    BY <1>1, <1>4, <1>5, <1>8, Bridge
<1>10. First'
    BY <1>1, <1>2, <1>4, Bridge DEF First
<1>11. QED
    BY <1>6, <1>7, <1>9, <1>10 DEF LInvNext

LEMMA OnEofL == LInv /\ OnEof => LInvNext
<1> SUFFICES ASSUME LInv, OnEof
             PROVE  LInvNext
    OBVIOUS
<1>1. /\ cur \in cut /\ link' = "timer"
      /\ toSwitch' = [toSwitch EXCEPT ![cur] = <<>>]
      /\ UNCHANGED <<cur, pipe, cut, toCtl, peer, inbuf, dbNets, dbNodes, stray, refused>>
    BY DEF OnEof, dbVars, history
<1>2. TypeOK /\ Streams /\ Database
    BY DEF LInv
<1>3. Msgs' = <<>> /\ \A c \in Conn : c > cur => toSwitch'[c] = toSwitch[c]
    BY <1>1, <1>2 DEF Msgs, TypeOK, Conn
<1>4. Announces(<<>>, dbNets, dbNodes, SoundNets', SoundNodes')
    BY DEF Announces
<1>5. Streams'
    BY <1>1, <1>2, <1>3, Bridge DEF Streams
<1>6. Database'
    BY <1>1, <1>2, <1>3, <1>4, Bridge DEF Database
<1>7. Following' /\ First'
    BY <1>1, Bridge
<1>8. QED
    BY <1>5, <1>6, <1>7 DEF LInvNext

LEMMA NewPeerL == LInv /\ NewPeer => LInvNext
<1> SUFFICES ASSUME LInv, NewPeer
             PROVE  LInvNext
    OBVIOUS
<1>1. /\ cur < MaxConn /\ cur' = cur + 1 /\ link' = "connecting"
      /\ UNCHANGED <<nets, nodes, pipe, cut, toCtl, toSwitch, peer, inbuf, dbNets, dbNodes, stray, refused>>
    BY DEF NewPeer, dbVars, history
<1>2. TypeOK /\ Streams /\ Database
    BY DEF LInv
<1>3. cur \in Nat \ {0} /\ cur + 1 \in Conn /\ MaxConn \in Nat
    BY <1>1, <1>2, ControlAssumption DEF TypeOK, Conn
<1>4. toCtl[cur + 1] = <<>> /\ inbuf[cur + 1] = <<>> /\ toSwitch[cur + 1] = <<>>
    BY <1>2, <1>3 DEF Streams
<1>5. Msgs' = <<>> /\ Lines' = <<>> \o <<>>
    BY <1>1, <1>4 DEF Msgs, Lines
<1>6. <<>> \o <<>> = <<>>
    BY ConcatEmptySeq, EmptySeq
<1>7. Unasked(<<>>, <<>>) /\ Announces(<<>>, dbNets, dbNodes, SoundNets', SoundNodes')
    BY DEF Unasked, Announces
<1>8. Streams'
    <2>1. \A c \in Conn : c > cur + 1 => c > cur
        BY <1>3 DEF Conn
    <2>2. QED
        BY <1>1, <1>2, <1>5, <1>6, <1>7, <2>1, Bridge DEF Streams
<1>9. Database'
    BY <1>1, <1>2, <1>5, <1>7, Bridge DEF Database
<1>10. Following' /\ First'
    BY <1>1, <1>3, Bridge
<1>11. QED
    BY <1>8, <1>9, <1>10 DEF LInvNext

(* Nothing but the latest connection's fate changes. *)
LEMMA NewPeerFailsL == LInv /\ NewPeerFails => LInvNext
<1> SUFFICES ASSUME LInv, NewPeerFails
             PROVE  LInvNext
    OBVIOUS
<1>1. /\ link = "timer" /\ link' = "none"
      /\ UNCHANGED <<cur, inited, nets, nodes, pipe, cut, toCtl, toSwitch, peer, inbuf, sinfo,
                     dbNets, dbNodes, stray, refused>>
    BY DEF NewPeerFails, dbVars
<1>2. UNCHANGED <<Lines, Msgs, SoundNets, SoundNodes, TrueNets, TrueNodes>>
    BY <1>1, TruthKept DEF Lines, Msgs
<1>3. Streams' /\ Database'
    BY <1>1, <1>2, Bridge DEF LInv, Streams, Database
<1>4. Following' /\ First'
    BY <1>1, <1>2, Bridge DEF LInv, First
<1>5. QED
    BY <1>3, <1>4 DEF LInvNext

LEMMA TrueNodesHaveNets == Database => \A n \in TrueNodes : NodeNet[n] \in TrueNets
<1> SUFFICES ASSUME Database, NEW n \in TrueNodes
             PROVE  NodeNet[n] \in TrueNets
    OBVIOUS
<1>1. n \in Node /\ dbNodes[n] = "live" /\ SoundNode(n) /\ NodeNet[n] \in Network
    BY ControlAssumption DEF TrueNodes, LiveNodes, SoundNodes
<1>2. dbNets[NodeNet[n]] = "live" /\ SoundNet(NodeNet[n])
    BY <1>1 DEF Database, SoundNode
<1>3. QED
    BY <1>1, <1>2 DEF TrueNets, LiveNets, SoundNets

(* A message the switch reads takes nothing live out: only what was deleted is
   announced as deleted. *)
LEMMA OnReadL == LInv /\ OnRead => LInvNext
<1> SUFFICES ASSUME LInv, OnRead
             PROVE  LInvNext
    OBVIOUS
<1> DEFINE m == Head(Msgs)
<1>1. TypeOK /\ Streams /\ Database /\ Following /\ First
    BY DEF LInv
<1>2. /\ link = "up"
      /\ UNCHANGED <<cur, link, pipe, cut, peer, inbuf, sinfo, dbNets, dbNodes, stray, refused>>
      /\ \A c \in Conn : c # cur => toSwitch'[c] = toSwitch[c]
      /\ Msgs # <<>> /\ Msgs' = Tail(Msgs)
      /\ Applied(m, nets, nodes, nets', nodes')
      /\ inited' = (inited \/ LastNode(m))
      /\ \/ toCtl' = toCtl
         \/ WriteLine(cur, <<ListNodes>>)
    BY <1>1, MsgsRead
<1>3. Lines \in Seq(Line) /\ Msgs \in Seq(Reply) /\ <<ListNodes>> \in Line
    BY <1>1, StreamTypes, LinesAreTyped
<1>4. UNCHANGED <<SoundNets, SoundNodes, TrueNets, TrueNodes>>
    BY <1>2, TruthKept
<1>5. ASSUME sinfo = cur
      PROVE  Truthful(m, dbNets, dbNodes, SoundNets, SoundNodes)
    <2>1. Msgs # <<>> /\ Msgs \in Seq(Reply)
        BY <1>2, <1>3
    <2>2. Announces(Msgs, dbNets, dbNodes, SoundNets, SoundNodes)
        BY <1>1, <1>5 DEF Database
    <2>3. QED
        BY <2>1, <2>2, AnnouncesRead
<1> HIDE DEF m
<1>6. Streams'
    <2>1. \A c \in Conn : c # cur => toSwitch'[c] = toSwitch[c]
        BY <1>2
    <2>2. \A c \in Conn : c # cur => toCtl'[c] = toCtl[c]
        <3>1. toCtl' = toCtl \/ WriteLine(cur, <<ListNodes>>)
            BY <1>2
        <3>2. toCtl \in [Conn -> Seq(Line)]
            BY <1>1 DEF TypeOK
        <3>3. QED
            BY <3>1, <3>2 DEF WriteLine
    <2>3. \A c \in Conn : c > cur => c # cur
        BY <1>1 DEF TypeOK, Conn
    <2>4. QED
        BY <1>1, <1>2, <2>1, <2>2, <2>3, Bridge DEF Streams
<1>7. Database'
    BY <1>1, <1>2, <1>3, <1>4, AnnouncesRead, Bridge DEF Database
<1>8. ASSUME Attached
      PROVE  Follows(nets', nodes', inited', Lines', Msgs', TrueNets, TrueNodes)
    <2>1. \A v \in TrueNets : ~DropsNet(m, v)
        BY <1>5, <1>8 DEF Attached, Truthful, DropsNet, LiveNets, TrueNets
    <2>2. \A n \in TrueNodes : NodeNet[n] \in TrueNets /\ ~DropsNode(m, n)
        <3>1. \A n \in TrueNodes : NodeNet[n] \in TrueNets
            BY <1>1, TrueNodesHaveNets
        <3>2. \A n \in TrueNodes : ~(m.op = "del-node" /\ m.node = n)
            BY <1>5, <1>8 DEF Attached, Truthful, LiveNodes, TrueNodes
        <3>3. QED
            BY <2>1, <3>1, <3>2 DEF DropsNode, DropsNet
    <2>3. Follows(nets, nodes, inited, Lines, Msgs, TrueNets, TrueNodes)
        BY <1>1, <1>8 DEF Following
    <2>4. Follows(nets', nodes', inited', Lines, Msgs', TrueNets, TrueNodes)
        BY <1>2, <1>3, <2>1, <2>2, <2>3, FollowsRead DEF m
    <2>5. CASE toCtl' = toCtl
        <3>1. Lines' = Lines
            BY <1>2, <2>5 DEF Lines
        <3>2. QED
            BY <2>4, <3>1
    <2>6. CASE WriteLine(cur, <<ListNodes>>)
        <3>1. Lines' = Lines \o <<<<ListNodes>>>>
            BY <1>1, <1>2, <1>3, <1>8, <2>6, LinesWritten DEF Attached
        <3>2. Follows(nets', nodes', inited', Lines \o <<<<ListNodes>>>>, Msgs', TrueNets, TrueNodes)
            BY <1>3, <2>4, FollowsWritten
        <3>3. QED
            BY <3>1, <3>2
    <2>7. QED
        BY <1>2, <2>5, <2>6
<1>9. Following'
    BY <1>2, <1>4, <1>8, Bridge DEF Attached
<1>10. First'
    <2>1. ASSUME cur = 1, 1 \notin cut
          PROVE  /\ peer[1] = "ready" /\ sinfo = 1
                 /\ Mirrors(nets, nodes, Msgs, dbNets, dbNodes, SoundNets, SoundNodes)
        BY <1>1, <1>2, <2>1 DEF First, Streams
    <2>2. ASSUME cur = 1, 1 \notin cut
          PROVE  Mirrors(nets', nodes', Msgs', dbNets, dbNodes, SoundNets, SoundNodes)
        BY <1>2, <1>3, <2>1, <2>2, MirrorsRead DEF m
    <2>3. QED
        BY <1>2, <1>4, <2>1, <2>2, Bridge
<1>11. QED
    BY <1>6, <1>7, <1>9, <1>10 DEF LInvNext

(* Nothing the invariant speaks of changes. *)
LEMMA QuietL ==
    LInv /\ UNCHANGED <<cur, link, inited, nets, nodes, pipe, cut, toCtl, toSwitch, peer, inbuf,
                        sinfo, dbNets, dbNodes, stray, refused>> => LInvNext
<1> SUFFICES ASSUME LInv, UNCHANGED <<cur, link, inited, nets, nodes, pipe, cut, toCtl, toSwitch,
                                      peer, inbuf, sinfo, dbNets, dbNodes, stray, refused>>
             PROVE  LInvNext
    OBVIOUS
<1>1. UNCHANGED <<Lines, Msgs, SoundNets, SoundNodes, TrueNets, TrueNodes>>
    BY TruthKept DEF Lines, Msgs
<1>2. Streams' /\ Database'
    BY <1>1, Bridge DEF LInv, Streams, Database
<1>3. Following' /\ First'
    BY <1>1, Bridge DEF LInv, Following, First, Attached
<1>4. QED
    BY <1>2, <1>3 DEF LInvNext

LEMMA WriteStatusL ==
    ASSUME LInv, NEW n \in Node, NEW on \in BOOLEAN, WriteStatus(n, on)
    PROVE  LInvNext
<1>1. /\ pipe' = Append(pipe, StatusMsg(n, on))
      /\ UNCHANGED <<cur, link, inited, nets, nodes, cut, toCtl, toSwitch, peer, inbuf, sinfo,
                     dbNets, dbNodes, stray, refused>>
    BY DEF WriteStatus, dbVars, history
<1>2. UNCHANGED <<Lines, Msgs, SoundNets, SoundNodes, TrueNets, TrueNodes>>
    BY <1>1, TruthKept DEF Lines, Msgs
<1>3. \A i \in 1 .. Len(pipe') : pipe'[i].op = "update-node-status"
    <2>1. pipe \in Seq(Query) /\ StatusMsg(n, on) \in Query
        BY LinesAreTyped DEF LInv, TypeOK
    <2>2. \A i \in 1 .. Len(pipe') : \/ i \in 1 .. Len(pipe) /\ pipe'[i] = pipe[i]
                                     \/ pipe'[i] = StatusMsg(n, on)
        BY <1>1, <2>1, AppendProperties
    <2>3. StatusMsg(n, on).op = "update-node-status"
        BY DEF StatusMsg
    <2>4. QED
        BY <2>2, <2>3 DEF LInv, Streams
<1>4. Streams' /\ Database'
    BY <1>1, <1>2, <1>3, Bridge DEF LInv, Streams, Database
<1>5. Following' /\ First'
    BY <1>1, <1>2, Bridge DEF LInv, Following, First, Attached
<1>6. QED
    BY <1>4, <1>5 DEF LInvNext

(* What was in the pipe asks for nothing. *)
LEMMA PipeReadL == LInv /\ PipeRead => LInvNext
<1> SUFFICES ASSUME LInv, PipeRead
             PROVE  LInvNext
    OBVIOUS
<1>1. UNCHANGED <<cur, link, inited, nets, nodes, cut, toSwitch, peer, inbuf, sinfo,
                  dbNets, dbNodes, stray, refused>>
    BY DEF PipeRead, dbVars, history
<1>2. PICK k \in 1 .. Len(pipe) :
         WriteLine(cur, SubSeq(pipe, 1, k)) /\ pipe' = SubSeq(pipe, k + 1, Len(pipe))
    BY DEF PipeRead, Drained
<1> DEFINE line == SubSeq(pipe, 1, k)
<1>3. TypeOK /\ Streams /\ Database /\ Following /\ First
    BY DEF LInv
<1>4. pipe \in Seq(Query) /\ Len(pipe) \in Nat /\ k \in Int /\ 1 <= k /\ k <= Len(pipe)
    BY <1>3 DEF TypeOK
<1>5. /\ line \in Seq(Query) /\ Len(line) = k /\ \A i \in 1 .. k : line[i] = pipe[i]
    <2>1. \A i \in 1 .. k : pipe[i] \in Query
        BY <1>4
    <2>2. QED
        BY <1>4, <2>1, SubSeqProperties
<1>6. \A i \in 1 .. Len(pipe') : pipe'[i].op = "update-node-status"
    <2>1. \A i \in k + 1 .. Len(pipe) : pipe[i] \in Query
        BY <1>4
    <2>2. /\ Len(pipe') = Len(pipe) - k
          /\ \A i \in 1 .. Len(pipe) - k : pipe'[i] = pipe[k + i]
        BY <1>2, <1>4, <2>1, SubSeqProperties
    <2>3. \A i \in 1 .. Len(pipe) - k : k + i \in 1 .. Len(pipe)
        BY <1>4
    <2>4. QED
        BY <1>3, <2>2, <2>3 DEF Streams
<1> HIDE DEF line
<1>7. line \in Line /\ ~AsksNets(line) /\ ~AsksNodes(line)
    <2>1. Len(line) # 0
        BY <1>4, <1>5
    <2>2. line # <<>>
        BY <1>5, <2>1, NotEmpty
    <2>3. Head(line) = pipe[1] /\ 1 \in 1 .. Len(pipe)
        BY <1>4, <1>5, <2>2, Behead
    <2>4. Head(line).op = "update-node-status"
        BY <1>3, <2>3 DEF Streams
    <2>5. Head(line) # ListNets /\ Head(line) # ListNodes
        BY <2>4 DEF ListNets, ListNodes
    <2>6. QED
        BY <1>5, <2>2, <2>5 DEF Line, AsksNets, AsksNodes
<1>8. WriteLine(cur, line)
    BY <1>2 DEF line
<1>9. \/ Lines' = Lines
      \/ Lines' = Lines \o <<line>>
    <2>1. CASE cur \in cut
        BY <1>1, <1>8, <2>1 DEF WriteLine, Lines
    <2>2. CASE cur \notin cut
        BY <1>1, <1>3, <1>7, <1>8, <2>2, LinesWritten
    <2>3. QED
        BY <2>1, <2>2
<1>10. Lines \in Seq(Line) /\ UNCHANGED <<Msgs, SoundNets, SoundNodes, TrueNets, TrueNodes>>
    BY <1>1, <1>3, StreamTypes, TruthKept DEF Msgs
<1>11. Streams'
    <2>1. \A c \in Conn : c > cur => toCtl'[c] = toCtl[c]
        <3>1. toCtl \in [Conn -> Seq(Line)] /\ \A c \in Conn : c > cur => c # cur
            BY <1>3 DEF TypeOK, Conn
        <3>2. QED
            BY <1>8, <3>1 DEF WriteLine
    <2>2. link = "connecting" => Unasked(Lines', Msgs)
        BY <1>3, <1>7, <1>9, <1>10, UnaskedWritten DEF Streams
    <2>3. QED
        BY <1>1, <1>3, <1>6, <1>10, <2>1, <2>2, Bridge DEF Streams
<1>12. Database'
    BY <1>1, <1>3, <1>10, Bridge DEF Database
<1>13. Following'
    <2>1. Attached => Follows(nets, nodes, inited, Lines', Msgs, TrueNets, TrueNodes)
        BY <1>3, <1>7, <1>9, <1>10, FollowsWritten DEF Following
    <2>2. QED
        BY <1>1, <1>10, <2>1, Bridge DEF Attached
<1>14. First'
    BY <1>1, <1>3, <1>10, Bridge DEF First
<1>15. QED
    BY <1>11, <1>12, <1>13, <1>14 DEF LInvNext

LEMMA CutL ==
    ASSUME LInv, NEW c \in Conn, Cut(c)
    PROVE  LInvNext
<1>1. /\ cut' = cut \cup {c}
      /\ UNCHANGED <<cur, link, inited, nets, nodes, pipe, toCtl, toSwitch, peer, inbuf, sinfo,
                     dbNets, dbNodes, stray, refused>>
    BY DEF Cut, switchVars, dbVars, history
<1>2. UNCHANGED <<Lines, Msgs, SoundNets, SoundNodes, TrueNets, TrueNodes>>
    BY <1>1, TruthKept DEF Lines, Msgs
<1>3. Streams' /\ Database'
    BY <1>1, <1>2, Bridge DEF LInv, Streams, Database
<1>4. Following' /\ First'
    BY <1>1, <1>2, Bridge DEF LInv, Following, First, Attached
<1>5. QED
    BY <1>3, <1>4 DEF LInvNext

(* What changes is the controller's end of a connection: of the current one when it is
   accepted, of one it made when it is ready. *)
LEMMA AcceptL == LInv /\ Accept => LInvNext
<1> SUFFICES ASSUME LInv, Accept
             PROVE  LInvNext
    OBVIOUS
<1>1. /\ peer[cur] = "none" /\ peer' = [peer EXCEPT ![cur] = "accepted"]
      /\ UNCHANGED <<cur, link, inited, nets, nodes, pipe, cut, toCtl, toSwitch, inbuf, sinfo,
                     dbNets, dbNodes, stray, refused>>
    BY DEF Accept, switchVars, dbVars, history
<1>2. TypeOK /\ Streams /\ Database /\ Following /\ First
    BY DEF LInv
<1>3. UNCHANGED <<Lines, Msgs, SoundNets, SoundNodes, TrueNets, TrueNodes>>
    BY <1>1, TruthKept DEF Lines, Msgs
<1>4. link # "up" /\ peer'[cur] = "accepted" /\ \A c \in Conn : c > cur => peer'[c] = peer[c]
    BY <1>1, <1>2 DEF Streams, TypeOK, Conn
<1>5. Streams' /\ Database'
    BY <1>1, <1>2, <1>3, <1>4, Bridge DEF Streams, Database
<1>6. Following' /\ First'
    BY <1>1, <1>2, <1>3, <1>4, Bridge DEF First
<1>7. QED
    BY <1>5, <1>6 DEF LInvNext

LEMMA CtlConnectedL ==
    ASSUME LInv, NEW c \in Conn, CtlConnected(c)
    PROVE  LInvNext
<1>1. /\ peer[c] = "accepted" /\ peer' = [peer EXCEPT ![c] = "ready"] /\ sinfo' = c
      /\ UNCHANGED <<cur, link, inited, nets, nodes, pipe, cut, toCtl, toSwitch, inbuf,
                     dbNets, dbNodes, refused>>
    BY DEF CtlConnected, switchVars, dbVars
<1>2. TypeOK /\ Streams /\ Database /\ Following /\ First
    BY DEF LInv
<1>3. UNCHANGED <<Lines, Msgs>>
    BY <1>1 DEF Lines, Msgs
<1>4. /\ ~(c > cur) /\ (c = cur => link # "up")
      /\ peer'[c] = "ready" /\ \A d \in Conn : d # c => peer'[d] = peer[d]
    BY <1>1, <1>2 DEF Streams, TypeOK
<1>5. Streams'
    BY <1>1, <1>2, <1>3, <1>4, Bridge DEF Streams, TypeOK
<1>6. Database' /\ Following'
    <2>1. c = cur => Msgs' = <<>>
        BY <1>1, <1>2, <1>3 DEF Streams
    <2>2. Announces(<<>>, dbNets', dbNodes', SoundNets', SoundNodes')
        BY DEF Announces
    <2>3. Database'
        BY <1>1, <1>2, <2>1, <2>2, Bridge DEF Database
    <2>4. Following'
        BY <1>1, <1>4, Bridge
    <2>5. QED
        BY <2>3, <2>4
<1>7. First'
    <2>1. cur = 1 => c = 1
        BY <1>4 DEF Conn
    <2>2. ASSUME cur = 1, 1 \notin cut
          PROVE  nets = {} /\ nodes = {} /\ Msgs = <<>>
        BY <1>1, <1>2, <1>4, <2>1, <2>2 DEF First
    <2>3. Mirrors({}, {}, <<>>, dbNets', dbNodes', SoundNets', SoundNodes')
        BY MirrorsEmpty
    <2>4. QED
        BY <1>1, <1>3, <1>4, <2>1, <2>2, <2>3, Bridge
<1>8. QED
    BY <1>5, <1>6, <1>7 DEF LInvNext

-----------------------------------------------------------------------------
(* A line read by the controller *)

LEMMA NetRowsAnswer ==
    ASSUME NEW rows \in SetToSeqs(LiveNets)
    PROVE  /\ NetRows(rows) \in Seq(Reply)
           /\ \A i \in 1 .. Len(NetRows(rows)) :
                 NetRows(rows)[i].op = "listall-network" /\ NetRows(rows)[i].net \in LiveNets
           /\ \A v \in LiveNets : \E i \in 1 .. Len(NetRows(rows)) : AddsNet(NetRows(rows)[i], v)
<1>1. NetRows(rows) \in Seq(Reply) /\ Len(NetRows(rows)) = Len(rows)
    BY RowsAreTyped DEF NetRows
<1>2. \A i \in 1 .. Len(rows) : /\ NetRows(rows)[i].op = "listall-network"
                                /\ NetRows(rows)[i].net = rows[i]
    <2> TAKE i \in 1 .. Len(rows)
    <2>1. NetRows(rows)[i] = NetMsg(rows[i], IsLastRow(i, rows))
        BY DEF NetRows
    <2>2. QED
        BY <2>1 DEF NetMsg
<1>3. \A i \in 1 .. Len(rows) : rows[i] \in LiveNets
    <2>1. Cardinality(LiveNets) \in Nat
        BY ControlAssumption, FS_Subset, FS_CardinalityType DEF LiveNets
    <2>2. rows \in Seq(LiveNets)
        BY <2>1 DEF SetToSeqs
    <2>3. QED
        BY <2>2
<1>4. \A v \in LiveNets : \E i \in 1 .. Len(rows) : rows[i] = v
    BY RowsAreComplete
<1>5. QED
    BY <1>1, <1>2, <1>3, <1>4 DEF AddsNet

LEMMA NodeRowsAnswer ==
    ASSUME NEW rows \in SetToSeqs(LiveNodes)
    PROVE  /\ NodeRows(rows) \in Seq(Reply)
           /\ \A i \in 1 .. Len(NodeRows(rows)) :
                 NodeRows(rows)[i].op = "listall-node" /\ NodeRows(rows)[i].node \in LiveNodes
           /\ \A n \in LiveNodes : \E i \in 1 .. Len(NodeRows(rows)) : Admits(NodeRows(rows)[i], n)
<1>1. NodeRows(rows) \in Seq(Reply) /\ Len(NodeRows(rows)) = Len(rows)
    BY RowsAreTyped DEF NodeRows
<1>2. \A i \in 1 .. Len(rows) : /\ NodeRows(rows)[i].op = "listall-node"
                                /\ NodeRows(rows)[i].node = rows[i]
    <2> TAKE i \in 1 .. Len(rows)
    <2>1. NodeRows(rows)[i] = NodeMsg(rows[i], IsLastRow(i, rows))
        BY DEF NodeRows
    <2>2. QED
        BY <2>1 DEF NodeMsg
<1>3. \A i \in 1 .. Len(rows) : rows[i] \in LiveNodes
    <2>1. Cardinality(LiveNodes) \in Nat
        BY ControlAssumption, FS_Subset, FS_CardinalityType DEF LiveNodes
    <2>2. rows \in Seq(LiveNodes)
        BY <2>1 DEF SetToSeqs
    <2>3. QED
        BY <2>2
<1>4. \A n \in LiveNodes : \E i \in 1 .. Len(rows) : rows[i] = n
    BY RowsAreComplete
<1>5. QED
    BY <1>1, <1>2, <1>3, <1>4 DEF Admits

(* The answer: nothing, every live network, or every live node. *)
Answer(line, more) ==
    \/ more = <<>> /\ ~AsksNets(line) /\ ~AsksNodes(line)
    \/ /\ AsksNets(line) /\ ~AsksNodes(line)
       /\ \A i \in 1 .. Len(more) : more[i].op = "listall-network" /\ more[i].net \in LiveNets
       /\ \A v \in LiveNets : \E i \in 1 .. Len(more) : AddsNet(more[i], v)
    \/ /\ AsksNodes(line) /\ ~AsksNets(line)
       /\ \A i \in 1 .. Len(more) : more[i].op = "listall-node" /\ more[i].node \in LiveNodes
       /\ \A n \in LiveNodes : \E i \in 1 .. Len(more) : Admits(more[i], n)

Answers(c, line) ==
    \E more \in Seq(Reply) : Answer(line, more) /\ Send(c, more) /\ refused' = refused

LEMMA DispatchAnswers ==
    ASSUME TypeOK, NEW c \in Conn, NEW line \in Line, Dispatch(c, line)
    PROVE  \/ Send(c, <<ErrorMsg>>) /\ refused' = refused \cup {c}
           \/ Answers(c, line)
<1> DEFINE size == Len(line)
<1>1. size \in Nat \ {0}
    <2>1. line \in Seq(Query) /\ line # <<>>
        BY DEF Line
    <2>2. QED
        BY <2>1, Behead
<1>2. ListNets # ListNodes
    BY DEF ListNets, ListNodes
<1>3. ASSUME UNCHANGED <<toSwitch, refused>>, ~AsksNets(line), ~AsksNodes(line)
      PROVE  Answers(c, line)
    <2>1. toSwitch[c] \o <<>> = toSwitch[c] /\ <<>> \in Seq(Reply)
        BY ConcatEmptySeq, EmptySeq DEF TypeOK
    <2>2. toSwitch = [toSwitch EXCEPT ![c] = toSwitch[c]]
        BY DEF TypeOK
    <2>3. Send(c, <<>>)
        BY <1>3, <2>1, <2>2 DEF Send
    <2>4. QED
        BY <1>3, <2>1, <2>3 DEF Answers, Answer
<1>4. CASE size > 1
    <2>1. UNCHANGED <<toSwitch, refused>>
        BY <1>4 DEF Dispatch
    <2> HIDE DEF size
    <2>2. size # 1
        BY <1>1, <1>4
    <2>3. QED
        BY <1>3, <2>1, <2>2 DEF AsksNets, AsksNodes, size
<1>5. CASE ~(size > 1)
    <2> HIDE DEF size
    <2>0. size = 1
        BY <1>1, <1>5
    <2>1. CASE /\ Head(line) = ListNets
               /\ \E rows \in SetToSeqs(LiveNets) : Send(c, NetRows(rows))
               /\ refused' = refused
        <3>1. PICK rows \in SetToSeqs(LiveNets) : Send(c, NetRows(rows))
            BY <2>1
        <3>2. AsksNets(line) /\ ~AsksNodes(line)
            BY <1>2, <2>0, <2>1 DEF AsksNets, AsksNodes, size
        <3>3. Answer(line, NetRows(rows)) /\ NetRows(rows) \in Seq(Reply)
            BY <3>2, NetRowsAnswer DEF Answer
        <3>4. QED
            BY <2>1, <3>1, <3>3 DEF Answers
    <2>2. CASE /\ Head(line) = ListNodes
               /\ \E rows \in SetToSeqs(LiveNodes) : Send(c, NodeRows(rows))
               /\ refused' = refused
        <3>1. PICK rows \in SetToSeqs(LiveNodes) : Send(c, NodeRows(rows))
            BY <2>2
        <3>2. AsksNodes(line) /\ ~AsksNets(line)
            BY <1>2, <2>0, <2>2 DEF AsksNets, AsksNodes, size
        <3>3. Answer(line, NodeRows(rows)) /\ NodeRows(rows) \in Seq(Reply)
            BY <3>2, NodeRowsAnswer DEF Answer
        <3>4. QED
            BY <2>2, <3>1, <3>3 DEF Answers
    <2>3. CASE Head(line).op = "update-node-status" /\ UNCHANGED <<toSwitch, refused>>
        <3>1. Head(line) # ListNets /\ Head(line) # ListNodes
            BY <2>3 DEF ListNets, ListNodes
        <3>2. QED
            BY <1>3, <2>3, <3>1 DEF AsksNets, AsksNodes
    <2>4. QED
        BY <1>5, <2>1, <2>2, <2>3 DEF Dispatch, Listing, ListingFails, size
<1>6. QED
    BY <1>4, <1>5

(* What an answer means for the invariant. *)
LEMMA AnswerIsHarmless ==
    ASSUME NEW line, NEW more \in Seq(Reply), Answer(line, more)
    PROVE  /\ Announces(more, dbNets, dbNodes, SoundNets, SoundNodes)
           /\ NetsSent(more, dbNets, dbNets, SoundNets)
           /\ NodesSent(more, dbNodes, dbNodes, SoundNodes)
           /\ AsksNodes(line) \/ \A i \in 1 .. Len(more) : ~LastNode(more[i])
<1>1. \A i \in 1 .. Len(more) :
         \/ more[i].op = "listall-network" /\ more[i].net \in LiveNets
         \/ more[i].op = "listall-node" /\ more[i].node \in LiveNodes
    <2>1. CASE more = <<>>
        BY <2>1
    <2>2. QED
        BY <2>1 DEF Answer
<1>2. Announces(more, dbNets, dbNodes, SoundNets, SoundNodes)
    BY <1>1 DEF Announces, Truthful
<1>3. \A i \in 1 .. Len(more), v \in Network : AddsNet(more[i], v) => dbNets[v] = "live"
    BY <1>1 DEF AddsNet, LiveNets
<1>4. \A i \in 1 .. Len(more), n \in Node : Admits(more[i], n) => dbNodes[n] = "live"
    BY <1>1 DEF Admits, LiveNodes
<1>5. NetsSent(more, dbNets, dbNets, SoundNets)
    <2>1. ASSUME NEW v \in Network, NEW i \in 1 .. Len(more), AddsNet(more[i], v)
          PROVE  dbNets[v] = "live"
        BY <1>3, <2>1
    <2>2. QED
        BY <2>1, Zenon DEF NetsSent, SoundNets
<1>6. NodesSent(more, dbNodes, dbNodes, SoundNodes)
    <2>1. ASSUME NEW n \in Node, NEW i \in 1 .. Len(more), Admits(more[i], n)
          PROVE  dbNodes[n] = "live"
        BY <1>4, <2>1
    <2>2. QED
        BY <2>1, Zenon DEF NodesSent, SoundNodes
<1>7. AsksNodes(line) \/ \A i \in 1 .. Len(more) : ~LastNode(more[i])
    BY DEF Answer, LastNode
<1>8. QED
    BY <1>2, <1>5, <1>6, <1>7

(* An error adds nothing and takes nothing out. *)
LEMMA ErrorIsHarmless ==
    /\ <<ErrorMsg>> \in Seq(Reply)
    /\ Announces(<<ErrorMsg>>, dbNets, dbNodes, SoundNets, SoundNodes)
    /\ NetsSent(<<ErrorMsg>>, dbNets, dbNets, SoundNets)
    /\ NodesSent(<<ErrorMsg>>, dbNodes, dbNodes, SoundNodes)
    /\ \A i \in 1 .. Len(<<ErrorMsg>>) : ~LastNode(<<ErrorMsg>>[i])
<1>1. <<ErrorMsg>> \in Seq(Reply)
    BY RepliesAreTyped, Single
<1> DEFINE more == <<ErrorMsg>>
<1>2. \A i \in 1 .. Len(more) : more[i].op = "error"
    BY DEF ErrorMsg
<1> HIDE DEF more
<1>3. /\ Announces(more, dbNets, dbNodes, SoundNets, SoundNodes)
      /\ \A i \in 1 .. Len(more) : ~LastNode(more[i])
    BY <1>2 DEF Announces, Truthful, LastNode
<1>4. /\ NetsSent(more, dbNets, dbNets, SoundNets)
      /\ NodesSent(more, dbNodes, dbNodes, SoundNodes)
    BY <1>2 DEF NetsSent, NodesSent, AddsNet, Admits
<1>5. QED
    BY <1>1, <1>3, <1>4 DEF more

LEMMA FollowsAnswer ==
    ASSUME NEW ls \in Seq(Line), ls # <<>>, NEW ms \in Seq(Reply), NEW more \in Seq(Reply),
           NEW ns, NEW ds, NEW ini, Answer(Head(ls), more),
           NEW lv, NEW ln, lv \subseteq LiveNets, ln \subseteq LiveNodes,
           Follows(ns, ds, ini, ls, ms, lv, ln),
           \A n \in ln : NodeNet[n] \in lv
    PROVE  Follows(ns, ds, ini, Tail(ls), ms \o more, lv, ln)
<1> DEFINE u == ms \o more
<1>1. \A v \in lv : Known(ns, ms, v) => Known(ns, u, v)
    BY KnownJoined
<1>2. \A n \in ln : Covered(ns, ds, ms, n) => Covered(ns, ds, u, n)
    BY CoveredJoined
<1>3. AsksNets(Head(ls)) => \A v \in lv : Known(ns, u, v)
    <2>1. AsksNets(Head(ls)) => \A v \in lv : \E i \in 1 .. Len(more) : AddsNet(more[i], v)
        BY DEF Answer
    <2>2. QED
        BY <2>1, KnownJoined
<1>4. \/ \A i \in 1 .. Len(u) : LastNode(u[i]) => \E j \in 1 .. Len(ms) : LastNode(ms[j])
      \/ /\ AsksNodes(Head(ls))
         /\ (\A v \in lv : Known(ns, ms, v)) => \A n \in ln : Covered(ns, ds, u, n)
    <2>1. CASE AsksNodes(Head(ls))
        <3>1. \A n \in ln : \E i \in 1 .. Len(more) : Admits(more[i], n)
            BY <2>1 DEF Answer
        <3>2. ASSUME \A v \in lv : Known(ns, ms, v), NEW n \in ln
              PROVE  Covered(ns, ds, u, n)
            <4>1. Known(ns, ms, NodeNet[n]) /\ \E i \in 1 .. Len(more) : Admits(more[i], n)
                BY <3>1, <3>2
            <4>2. QED
                BY <4>1, CoveredJoined
        <3>3. QED
            BY <2>1, <3>2
    <2>2. CASE ~AsksNodes(Head(ls))
        <3>1. \A i \in 1 .. Len(more) : ~LastNode(more[i])
            BY <2>2, AnswerIsHarmless
        <3>2. IsFrom(u, ms, more)
            BY JoinedFrom
        <3> HIDE DEF u
        <3>3. QED
            BY <3>1, <3>2 DEF IsFrom
    <2>3. QED
        BY <2>1, <2>2
<1> HIDE DEF u
<1>5. QED
    BY <1>1, <1>2, <1>3, <1>4, FollowsAnswered DEF u

LEMMA CtlReadOtherL ==
    ASSUME LInv, NEW c \in Conn, c # cur, CtlRead(c)
    PROVE  LInvNext
<1>1. /\ peer[c] = "ready"
      /\ UNCHANGED <<cur, link, inited, nets, nodes, pipe, cut, peer, sinfo, dbNets, dbNodes, stray>>
    BY DEF CtlRead, switchVars
<1>2. TypeOK /\ Streams
    BY DEF LInv
<1>3. PICK k \in 1 .. Len(toCtl[c]) :
         /\ toCtl' = [toCtl EXCEPT ![c] = SubSeq(@, k + 1, Len(@))]
         /\ inbuf' = [inbuf EXCEPT ![c] = Tail(inbuf[c] \o SubSeq(toCtl[c], 1, k))]
         /\ Dispatch(c, Head(inbuf[c] \o SubSeq(toCtl[c], 1, k)))
    BY DEF CtlRead
<1>4. \A d \in Conn : d # c => toCtl'[d] = toCtl[d] /\ inbuf'[d] = inbuf[d]
    BY <1>2, <1>3 DEF TypeOK
<1>5. \A d \in Conn : d # c => toSwitch'[d] = toSwitch[d]
    <2>1. ASSUME NEW msgs, Send(c, msgs), NEW d \in Conn, d # c
          PROVE  toSwitch'[d] = toSwitch[d]
        BY <1>2, <2>1 DEF Send, TypeOK
    <2>2. toSwitch' = toSwitch \/ \E msgs : Send(c, msgs)
        BY <1>3 DEF Dispatch, Listing, ListingFails
    <2>3. QED
        BY <2>1, <2>2
<1>6. ~(c > cur) /\ cur \in Conn
    BY <1>1, <1>2 DEF Streams, TypeOK
<1>7. UNCHANGED <<Lines, Msgs, SoundNets, SoundNodes, TrueNets, TrueNodes>>
    BY <1>1, <1>4, <1>5, <1>6, TruthKept DEF Lines, Msgs
<1>8. Streams'
    <2>1. \A d \in Conn : d > cur => d # c
        BY <1>6
    <2>2. QED
        BY <1>1, <1>2, <1>4, <1>5, <1>7, <2>1, Bridge DEF Streams
<1>9. Database' /\ Following'
    <2>1. refused' = refused \/ refused' = refused \cup {c}
        BY <1>3 DEF Dispatch, Listing, ListingFails
    <2>2. cur \notin refused' => cur \notin refused
        BY <2>1
    <2>3. QED
        BY <1>1, <1>7, <2>2, Bridge DEF LInv, Database, Following, Attached
<1>10. First'
    BY <1>1, <1>7, Bridge DEF LInv, First
<1>11. QED
    BY <1>8, <1>9, <1>10 DEF LInvNext

(* The answer is behind what was pushed before it, and in front of what is pushed
   after it. *)
LEMMA CtlReadL == LInv /\ CtlRead(cur) => LInvNext
<1> SUFFICES ASSUME LInv, CtlRead(cur)
             PROVE  LInvNext
    OBVIOUS
<1>1. TypeOK /\ Streams /\ Database /\ Following /\ First
    BY DEF LInv
<1>2. /\ peer[cur] = "ready"
      /\ UNCHANGED <<cur, link, inited, nets, nodes, pipe, cut, peer, sinfo, dbNets, dbNodes, stray>>
    BY DEF CtlRead, switchVars
<1>3. /\ Lines # <<>> /\ Lines' = Tail(Lines) /\ Dispatch(cur, Head(Lines))
      /\ Lines \in Seq(Line) /\ Msgs \in Seq(Reply) /\ cur \in Conn
    BY <1>1, LinesRead, StreamTypes DEF TypeOK
<1>4. Head(Lines) \in Line
    BY <1>3, Behead
<1>5. PICK more \in Seq(Reply) :
         /\ Send(cur, more)
         /\ cur \notin refused' => cur \notin refused /\ Answer(Head(Lines), more)
         /\ Announces(more, dbNets, dbNodes, SoundNets, SoundNodes)
         /\ NetsSent(more, dbNets, dbNets, SoundNets)
         /\ NodesSent(more, dbNodes, dbNodes, SoundNodes)
         /\ AsksNodes(Head(Lines)) \/ \A i \in 1 .. Len(more) : ~LastNode(more[i])
    <2>1. CASE Answers(cur, Head(Lines))
        BY <2>1, AnswerIsHarmless DEF Answers
    <2>2. CASE Send(cur, <<ErrorMsg>>) /\ refused' = refused \cup {cur}
        <3>1. PICK more \in Seq(Reply) : more = <<ErrorMsg>>
            BY ErrorIsHarmless
        <3>2. QED
            BY <2>2, <3>1, ErrorIsHarmless
    <2>3. QED
        BY <1>1, <1>3, <1>4, <2>1, <2>2, DispatchAnswers
<1>6. UNCHANGED <<SoundNets, SoundNodes, TrueNets, TrueNodes>>
    BY <1>2, TruthKept
<1>7. /\ Msgs' = Msgs \/ Msgs' = Msgs \o more
      /\ cur \notin cut => Msgs' = Msgs \o more
      /\ \A d \in Conn : d # cur => toSwitch'[d] = toSwitch[d]
    BY <1>1, <1>2, <1>3, <1>5, MsgsSent
<1>9. Streams'
    <2>1. \A d \in Conn : d > cur => toCtl'[d] = toCtl[d] /\ inbuf'[d] = inbuf[d]
        <3>1. PICK k \in 1 .. Len(toCtl[cur]) :
                 /\ toCtl' = [toCtl EXCEPT ![cur] = SubSeq(@, k + 1, Len(@))]
                 /\ inbuf' = [inbuf EXCEPT ![cur] = Tail(inbuf[cur] \o SubSeq(toCtl[cur], 1, k))]
            BY DEF CtlRead
        <3>2. \A d \in Conn : d > cur => d # cur
            BY <1>3 DEF Conn
        <3>3. QED
            BY <1>1, <3>1, <3>2 DEF TypeOK
    <2>2. \A d \in Conn : d > cur => toSwitch'[d] = toSwitch[d]
        <3>1. \A d \in Conn : d > cur => d # cur
            BY <1>3 DEF Conn
        <3>2. QED
            BY <1>7, <3>1
    <2>3. ASSUME link = "connecting"
          PROVE  Unasked(Lines', Msgs')
        <3>1. Unasked(Lines, Msgs)
            BY <1>1, <2>3 DEF Streams
        <3>2. Unasked(Tail(Lines), Msgs) /\ ~AsksNodes(Head(Lines))
            BY <1>3, <3>1, UnaskedRead
        <3>3. Unasked(Tail(Lines), Msgs \o more)
            BY <1>3, <1>5, <3>2, UnaskedSent
        <3>4. QED
            BY <1>3, <1>7, <3>2, <3>3
    <2>4. QED
        BY <1>1, <1>2, <2>1, <2>2, <2>3, Bridge DEF Streams
<1>10. Database'
    <2>1. sinfo = cur => Announces(Msgs \o more, dbNets, dbNodes, SoundNets, SoundNodes)
        BY <1>1, <1>3, <1>5, AnnouncesSent DEF Database
    <2>2. QED
        BY <1>1, <1>2, <1>6, <1>7, <2>1, Bridge DEF Database
<1>11. Following'
    <2>1. ASSUME Attached, cur \notin refused'
          PROVE  Follows(nets, nodes, inited, Lines', Msgs', TrueNets, TrueNodes)
        <3>1. Follows(nets, nodes, inited, Lines, Msgs, TrueNets, TrueNodes)
            BY <1>1, <2>1 DEF Following
        <3>2. \A n \in TrueNodes : NodeNet[n] \in TrueNets
            BY <1>1, TrueNodesHaveNets
        <3>3. TrueNets \subseteq LiveNets /\ TrueNodes \subseteq LiveNodes
            BY DEF TrueNets, TrueNodes
        <3>4. Follows(nets, nodes, inited, Tail(Lines), Msgs \o more, TrueNets, TrueNodes)
            BY <1>3, <1>5, <2>1, <3>1, <3>2, <3>3, FollowsAnswer
        <3>5. QED
            BY <1>3, <1>7, <2>1, <3>4 DEF Attached
    <2>2. cur \notin refused' => cur \notin refused
        BY <1>5
    <2>3. QED
        BY <1>2, <1>6, <2>1, <2>2, Bridge DEF Attached
<1>12. First'
    <2>1. ASSUME cur = 1, 1 \notin cut
          PROVE  Mirrors(nets, nodes, Msgs', dbNets, dbNodes, SoundNets, SoundNodes)
        <3>1. Mirrors(nets, nodes, Msgs, dbNets, dbNodes, SoundNets, SoundNodes)
            BY <1>1, <2>1 DEF First
        <3>2. Mirrors(nets, nodes, Msgs \o more, dbNets, dbNodes, SoundNets, SoundNodes)
            BY <1>3, <1>5, <3>1, MirrorsSent
        <3>3. QED
            BY <1>7, <2>1, <3>2
    <2>2. QED
        BY <1>1, <1>2, <1>6, <2>1, Bridge DEF First
<1>13. QED
    BY <1>9, <1>10, <1>11, <1>12 DEF LInvNext

LEMMA UnaskedEmpty ==
    ASSUME NEW ls, NEW ms, Unasked(ls, ms)
    PROVE  Unasked(<<>>, ms)
BY DEF Unasked

LEMMA UnaskedSuffix ==
    ASSUME NEW S, NEW s \in Seq(S), NEW t \in Seq(S), NEW ms, Unasked(s \o t, ms)
    PROVE  Unasked(t, ms)
<1> DEFINE u == s \o t
<1>0. IsJoin(u, s, t)
    BY Joined
<1> HIDE DEF u
<1>1. /\ Len(u) = Len(s) + Len(t) /\ Len(s) \in Nat /\ Len(t) \in Nat
      /\ \A i \in 1 .. Len(t) : u[Len(s) + i] = t[i]
    BY <1>0 DEF IsJoin
<1>2. \A i \in 1 .. Len(t) : Len(s) + i \in 1 .. Len(u)
    BY <1>1
<1>3. \A i \in 1 .. Len(u) : ~AsksNets(u[i]) /\ ~AsksNodes(u[i])
    BY DEF Unasked, u
<1>4. \A i \in 1 .. Len(t) : ~AsksNets(t[i]) /\ ~AsksNodes(t[i])
    BY <1>1, <1>2, <1>3
<1>5. QED
    BY <1>4 DEF Unasked

LEMMA CtlEofL ==
    ASSUME LInv, NEW c \in Conn, CtlEof(c)
    PROVE  LInvNext
<1>1. /\ peer[c] \in {"accepted", "ready"} /\ c \in cut
      /\ peer' = [peer EXCEPT ![c] = "freed"]
      /\ inbuf' = [inbuf EXCEPT ![c] = <<>>] /\ toCtl' = [toCtl EXCEPT ![c] = <<>>]
      /\ sinfo' = 0 \/ sinfo' = sinfo
      /\ UNCHANGED <<cur, link, inited, nets, nodes, pipe, cut, toSwitch, dbNets, dbNodes, stray, refused>>
    BY DEF CtlEof, SinfoAfterEof, switchVars, history
<1>2. TypeOK /\ Streams /\ Database /\ Following /\ First
    BY DEF LInv
<1>3. /\ peer'[c] = "freed" /\ inbuf'[c] = <<>> /\ toCtl'[c] = <<>>
      /\ \A d \in Conn : d # c =>
            peer'[d] = peer[d] /\ inbuf'[d] = inbuf[d] /\ toCtl'[d] = toCtl[d]
    BY <1>1, <1>2 DEF TypeOK
<1>4. ~(c > cur) /\ cur \in Conn /\ cur # 0
    BY <1>1, <1>2 DEF Streams, TypeOK, Conn
<1>5. /\ UNCHANGED <<Msgs, SoundNets, SoundNodes, TrueNets, TrueNodes>>
      /\ c # cur => Lines' = Lines
      /\ c = cur => Lines' = <<>>
    <2>1. <<>> \o <<>> = <<>>
        BY ConcatEmptySeq, EmptySeq
    <2>2. QED
        BY <1>1, <1>3, <1>4, <2>1, TruthKept DEF Msgs, Lines
<1>6. Streams'
    <2>1. link = "connecting" => Unasked(Lines', Msgs)
        BY <1>2, <1>5, UnaskedEmpty DEF Streams
    <2>2. \A d \in Conn : d > cur => d # c
        BY <1>4
    <2>3. QED
        BY <1>1, <1>2, <1>3, <1>4, <1>5, <2>1, <2>2, Bridge DEF Streams
<1>7. Database'
    BY <1>1, <1>2, <1>4, <1>5, Bridge DEF Database
<1>8. Following'
    BY <1>1, <1>2, <1>4, <1>5, Bridge DEF Following, Attached
<1>9. First'
    <2>1. cur = 1 => c = 1
        BY <1>4 DEF Conn
    <2>2. QED
        BY <1>1, <2>1, Bridge
<1>10. QED
    BY <1>6, <1>7, <1>8, <1>9 DEF LInvNext

(* Whatever was on a connection that the controller had accepted is lost. *)
LEMMA CrashL == LInv /\ Crash => LInvNext
<1> SUFFICES ASSUME LInv, Crash
             PROVE  LInvNext
    OBVIOUS
<1>1. /\ cut' = cut \cup {c \in Conn : peer[c] # "none"}
      /\ peer' = [c \in Conn |-> IF peer[c] = "none" THEN "none" ELSE "freed"]
      /\ inbuf' = [c \in Conn |-> <<>>]
      /\ toCtl' = [c \in Conn |-> IF peer[c] = "none" THEN toCtl[c] ELSE <<>>]
      /\ sinfo' = 0
      /\ UNCHANGED <<cur, link, inited, nets, nodes, pipe, toSwitch, dbNets, dbNodes, stray, refused>>
    BY DEF Crash, switchVars
<1>2. TypeOK /\ Streams /\ Database /\ Following /\ First
    BY DEF LInv
<1>3. cur \in Conn /\ cur # 0 /\ cur' = cur
    BY <1>1, <1>2 DEF TypeOK, Conn
<1>4. UNCHANGED <<Msgs, SoundNets, SoundNodes, TrueNets, TrueNodes>>
    BY <1>1, TruthKept DEF Msgs
<1>5. Lines' = toCtl[cur] \/ Lines' = <<>>
    <2>1. toCtl[cur] \in Seq(Line)
        BY <1>2 DEF TypeOK
    <2>2. inbuf'[cur] = <<>> /\ (toCtl'[cur] = toCtl[cur] \/ toCtl'[cur] = <<>>)
        BY <1>1, <1>3
    <2>3. <<>> \o toCtl[cur] = toCtl[cur] /\ <<>> \o <<>> = <<>>
        BY <2>1, ConcatEmptySeq, EmptySeq
    <2>4. QED
        BY <1>3, <2>2, <2>3 DEF Lines
<1>6. ASSUME link = "connecting"
      PROVE  Unasked(Lines', Msgs)
    <2>1. Unasked(Lines, Msgs) /\ inbuf[cur] \in Seq(Line) /\ toCtl[cur] \in Seq(Line)
        BY <1>2, <1>6 DEF Streams, TypeOK
    <2>2. Unasked(toCtl[cur], Msgs)
        BY <2>1, UnaskedSuffix DEF Lines
    <2>3. QED
        BY <1>5, <2>1, <2>2, UnaskedEmpty
<1>7. Streams'
    BY <1>1, <1>2, <1>3, <1>4, <1>6, Bridge DEF Streams
<1>8. Database' /\ Following'
    BY <1>1, <1>2, <1>3, <1>4, Bridge DEF Database
<1>9. First'
    <2>1. ASSUME cur = 1, 1 \notin cut'
          PROVE  1 \notin cut /\ peer[1] = "none" /\ peer'[1] = "none"
        BY <1>1, <1>3, <2>1
    <2>2. QED
        BY <1>1, <1>2, <1>4, <2>1, Bridge DEF First
<1>10. QED
    BY <1>7, <1>8, <1>9 DEF LInvNext

-----------------------------------------------------------------------------
(* What the API's handlers push.  On the first connection the session is either
   known, and the push is on its way, or the switch knows nothing yet. *)
LEMMA PushL ==
    ASSUME LInv, NEW msgs \in Seq(Reply), Send(sinfo, msgs),
           UNCHANGED <<cur, link, inited, nets, nodes, pipe, cut, toCtl, peer, inbuf, sinfo, refused>>,
           SoundNets' \subseteq SoundNets, SoundNodes' \subseteq SoundNodes,
           \A n \in Node : dbNodes'[n] = "live" => dbNets'[NodeNet[n]] = "live",
           Announces(msgs, dbNets', dbNodes', SoundNets', SoundNodes'),
           \A v \in SoundNets' : dbNets[v] = "deleted" => dbNets'[v] = "deleted",
           \A n \in SoundNodes' : dbNodes[n] = "deleted" => dbNodes'[n] = "deleted",
           NetsSent(msgs, dbNets, dbNets', SoundNets'),
           NodesSent(msgs, dbNodes, dbNodes', SoundNodes'),
           \A v \in TrueNets' : v \in TrueNets \/ \E i \in 1 .. Len(msgs) : AddsNet(msgs[i], v),
           \A n \in TrueNodes' : n \in TrueNodes \/ (NodeNet[n] \in TrueNets
                                        /\ \E i \in 1 .. Len(msgs) : Admits(msgs[i], n)),
           \A i \in 1 .. Len(msgs) : ~LastNode(msgs[i])
    PROVE  LInvNext
<1>1. TypeOK /\ Streams /\ Database /\ Following /\ First /\ SinfoLive
    BY DEF LInv, IInv
<1>2. sinfo \in Conn \cup {0} /\ cur \in Conn /\ Msgs \in Seq(Reply)
    BY <1>1, StreamTypes DEF LInv, IInv, Types
<1>3. /\ Msgs' = Msgs \/ Msgs' = Msgs \o msgs
      /\ sinfo # cur => Msgs' = Msgs
      /\ sinfo = cur /\ cur \notin cut => Msgs' = Msgs \o msgs
      /\ \A d \in Conn : d # sinfo => toSwitch'[d] = toSwitch[d]
    BY <1>1, <1>2, MsgsSent
<1>4. Lines' = Lines
    BY DEF Lines
<1>5. Streams'
    <2>1. \A d \in Conn : d > cur => toSwitch'[d] = toSwitch[d]
        <3>1. ASSUME NEW d \in Conn, d > cur
              PROVE  d # sinfo
            <4>1. peer[d] = "none" /\ d # 0
                BY <1>1, <3>1 DEF Streams, Conn
            <4>2. QED
                BY <1>1, <4>1 DEF SinfoLive
        <3>2. QED
            BY <1>3, <3>1
    <2>2. ASSUME link = "connecting"
          PROVE  Unasked(Lines, Msgs')
        <3>1. Unasked(Lines, Msgs)
            BY <1>1, <2>2 DEF Streams
        <3>2. Unasked(Lines, Msgs \o msgs)
            BY <1>2, <3>1, UnaskedSent
        <3>3. QED
            BY <1>3, <3>1, <3>2
    <2>3. peer[cur] \notin {"ready", "freed"} => Msgs' = <<>>
        BY <1>1, <1>2, <1>3 DEF Streams, SinfoLive, Conn
    <2>4. QED
        BY <1>1, <1>4, <2>1, <2>2, <2>3, Bridge DEF Streams
<1>6. Database'
    <2> DEFINE dn == dbNets'
               dd == dbNodes'
               nv == SoundNets'
               nn == SoundNodes'
    <2>3. /\ nv \subseteq SoundNets /\ nn \subseteq SoundNodes
          /\ \A v \in nv : dbNets[v] = "deleted" => dn[v] = "deleted"
          /\ \A n \in nn : dbNodes[n] = "deleted" => dd[n] = "deleted"
        OBVIOUS
    <2>4. Announces(msgs, dn, dd, nv, nn)
        OBVIOUS
    <2> HIDE DEF dn, dd, nv, nn
    <2>1. sinfo = cur => Announces(Msgs, dn, dd, nv, nn)
        BY <1>1, <2>3, AnnouncesKept DEF Database
    <2>2. sinfo = cur => Announces(Msgs \o msgs, dn, dd, nv, nn)
        BY <1>2, <2>1, <2>4, AnnouncesSent
    <2>5. QED
        BY <1>3, <2>1, <2>2, Bridge DEF dn, dd, nv, nn
<1>7. Following'
    <2>1. ASSUME Attached
          PROVE  Follows(nets, nodes, inited, Lines, Msgs', TrueNets', TrueNodes')
        <3>1. Follows(nets, nodes, inited, Lines, Msgs, TrueNets, TrueNodes)
            BY <1>1, <2>1 DEF Following
        <3>2. Follows(nets, nodes, inited, Lines, Msgs \o msgs, TrueNets', TrueNodes')
            BY <1>2, <3>1, FollowsPushed
        <3>3. QED
            BY <1>3, <2>1, <3>2 DEF Attached
    <2>2. QED
        BY <1>4, <2>1, Bridge DEF Attached
<1>8. First'
    <2>1. ASSUME cur = 1, 1 \notin cut
          PROVE  /\ peer[1] # "ready" => Msgs' = <<>>
                 /\ Mirrors(nets, nodes, Msgs', dbNets', dbNodes', SoundNets', SoundNodes')
        <3>1. CASE sinfo = 1
            <4>1. peer[1] = "ready"
                BY <1>1, <3>1 DEF SinfoLive
            <4>2. Mirrors(nets, nodes, Msgs, dbNets, dbNodes, SoundNets, SoundNodes)
                BY <1>1, <2>1 DEF First
            <4>3. Mirrors(nets, nodes, Msgs \o msgs, dbNets', dbNodes', SoundNets', SoundNodes')
                BY <1>2, <4>2, MirrorsSent
            <4>4. QED
                BY <1>3, <2>1, <3>1, <4>1, <4>3
        <3>2. CASE sinfo # 1
            <4>1. peer[1] # "ready" /\ peer[1] # "freed"
                BY <1>1, <2>1, <3>2 DEF First
            <4>2. link # "up"
                BY <1>1, <2>1, <4>1 DEF Streams
            <4>3. nets = {} /\ nodes = {} /\ Msgs = <<>>
                BY <1>1, <2>1, <4>1, <4>2 DEF First
            <4>4. QED
                BY <1>3, <2>1, <3>2, <4>3, MirrorsEmpty
        <3>3. QED
            BY <3>1, <3>2
    <2>2. QED
        BY <1>1, <2>1, Bridge DEF First
<1>9. QED
    BY <1>5, <1>6, <1>7, <1>8 DEF LInvNext

LEMMA SoundKept == UNCHANGED stray => UNCHANGED <<SoundNets, SoundNodes>>
BY DEF stray, SoundNets, SoundNodes, SoundNet, SoundNode

LEMMA SoundShrink ==
    strayNets \subseteq strayNets' /\ strayNodes \subseteq strayNodes'
        => SoundNets' \subseteq SoundNets /\ SoundNodes' \subseteq SoundNodes
BY DEF SoundNets, SoundNodes, SoundNet, SoundNode

LEMMA SendNothing ==
    ASSUME TypeOK, toSwitch' = toSwitch, sinfo \in Conn \cup {0}
    PROVE  \E msgs \in Seq(Reply) : Send(sinfo, msgs) /\ \A i \in 1 .. Len(msgs) : FALSE
<1>1. PICK msgs \in Seq(Reply) : msgs = <<>>
    BY EmptySeq
<1>2. \A i \in 1 .. Len(msgs) : FALSE
    <2>1. Len(msgs) = 0
        BY <1>1, EmptySeq
    <2>2. QED
        BY <2>1
<1>3. Send(sinfo, msgs)
    <2>1. CASE sinfo = 0 \/ sinfo \in cut
        BY <2>1 DEF Send
    <2>2. CASE sinfo \in Conn /\ sinfo # 0 /\ sinfo \notin cut
        <3>1. toSwitch[sinfo] \o msgs = toSwitch[sinfo]
            BY <1>1, <2>2, ConcatEmptySeq DEF TypeOK
        <3>2. toSwitch = [toSwitch EXCEPT ![sinfo] = toSwitch[sinfo]]
            BY DEF TypeOK
        <3>3. QED
            BY <2>2, <3>1, <3>2 DEF Send
    <2>3. QED
        BY <2>1, <2>2
<1>4. QED
    BY <1>2, <1>3

(* A mishap: whatever it does to the database or tells the switch is about networks and
   nodes that are excepted from now on. *)
LEMMA MishapL ==
    ASSUME LInv, NEW msgs \in Seq(Reply), Send(sinfo, msgs), dbNets' = dbNets,
           UNCHANGED <<cur, link, inited, nets, nodes, pipe, cut, toCtl, peer, inbuf, sinfo, refused>>,
           strayNets \subseteq strayNets', strayNodes \subseteq strayNodes',
           \A n \in Node : dbNodes'[n] = "live" => dbNets'[NodeNet[n]] = "live",
           \A n \in SoundNodes' : dbNodes'[n] = dbNodes[n],
           \A i \in 1 .. Len(msgs) :
              \/ msgs[i].op = "del-network" /\ msgs[i].net \notin SoundNets'
              \/ msgs[i].op = "del-node" /\ msgs[i].node \notin SoundNodes'
    PROVE  LInvNext
<1>1. SoundNets' \subseteq SoundNets /\ SoundNodes' \subseteq SoundNodes
    BY SoundShrink
<1>2. /\ Announces(msgs, dbNets', dbNodes', SoundNets', SoundNodes')
      /\ \A i \in 1 .. Len(msgs) : ~LastNode(msgs[i])
    BY DEF Announces, Truthful, LastNode
<1>3. NetsSent(msgs, dbNets, dbNets', SoundNets')
    BY DEF NetsSent, AddsNet
<1>4. NodesSent(msgs, dbNodes, dbNodes', SoundNodes')
    BY DEF NodesSent, Admits
<1>5. TrueNets' \subseteq TrueNets
    BY <1>1 DEF TrueNets, LiveNets
<1>6. TrueNodes' \subseteq TrueNodes
    BY <1>1 DEF TrueNodes, LiveNodes
<1>7. QED
    BY <1>1, <1>2, <1>3, <1>4, <1>5, <1>6, PushL

LEMMA AddNetworkL ==
    ASSUME LInv, NEW v \in Network, AddNetwork(v)
    PROVE  LInvNext
<1> DEFINE msgs == <<PushNet(v)>>
<1>1. /\ dbNets[v] = "unborn" /\ dbNets' = [dbNets EXCEPT ![v] = "live"] /\ dbNodes' = dbNodes
      /\ Send(sinfo, msgs) /\ UNCHANGED stray
      /\ UNCHANGED <<cur, link, inited, nets, nodes, pipe, cut, toCtl, peer, inbuf, sinfo, refused>>
    BY DEF AddNetwork, ApiOnly, InStep, switchVars
<1>2. /\ dbNets \in [Network -> Life] /\ dbNodes \in [Node -> Life]
      /\ \A n \in Node : dbNodes[n] = "live" => dbNets[NodeNet[n]] = "live"
    BY DEF LInv, TypeOK, Database
<1>3. msgs \in Seq(Reply) /\ Len(msgs) = 1 /\ msgs[1] = PushNet(v)
    BY RepliesAreTyped, Single
<1> HIDE DEF msgs
<1>4. \A i \in 1 .. Len(msgs) : msgs[i].op = "listall-network" /\ msgs[i].net = v
    BY <1>3 DEF PushNet
<1>5. \A w \in Network : dbNets'[w] = IF w = v THEN "live" ELSE dbNets[w]
    BY <1>1, <1>2
<1>6. \A n \in Node : dbNodes'[n] = "live" => dbNets'[NodeNet[n]] = "live"
    BY <1>1, <1>2, <1>5, ControlAssumption
<1>7. /\ Announces(msgs, dbNets', dbNodes', SoundNets', SoundNodes')
      /\ \A i \in 1 .. Len(msgs) : ~LastNode(msgs[i])
    BY <1>4 DEF Announces, Truthful, LastNode
<1>14. SoundNets' = SoundNets /\ SoundNodes' = SoundNodes
    BY <1>1, SoundKept
<1>15. SoundNets \subseteq Network
    BY DEF SoundNets
<1>8. NetsSent(msgs, dbNets, dbNets', SoundNets)
    BY <1>1, <1>4, <1>5, <1>15 DEF NetsSent, AddsNet
<1>9. NodesSent(msgs, dbNodes, dbNodes', SoundNodes)
    BY <1>1, <1>4 DEF NodesSent, Admits
<1>10. \A w \in TrueNets' : w \in TrueNets \/ \E i \in 1 .. Len(msgs) : AddsNet(msgs[i], w)
    <2>1. 1 \in 1 .. Len(msgs) /\ AddsNet(msgs[1], v)
        BY <1>3, <1>4 DEF AddsNet
    <2>2. \A w \in TrueNets' : w \in TrueNets \/ w = v
        BY <1>5, <1>14 DEF LiveNets, TrueNets
    <2>3. QED
        BY <2>1, <2>2
<1>11. TrueNodes' = TrueNodes
    BY <1>1, <1>14 DEF LiveNodes, TrueNodes
<1>12. \A w \in SoundNets : dbNets[w] = "deleted" => dbNets'[w] = "deleted"
    BY <1>1, <1>5, <1>15
<1>13. QED
    BY <1>1, <1>3, <1>6, <1>7, <1>8, <1>9, <1>10, <1>11, <1>12, <1>14, PushL

LEMMA AddNodeL ==
    ASSUME LInv, NEW n \in Node, AddNode(n)
    PROVE  LInvNext
<1>1. /\ dbNodes[n] = "unborn" /\ dbNets[NodeNet[n]] = "live"
      /\ dbNodes' = [dbNodes EXCEPT ![n] = "live"] /\ dbNets' = dbNets
      /\ UNCHANGED <<cur, link, inited, nets, nodes, pipe, cut, toCtl, peer, inbuf, sinfo, refused>>
    BY DEF AddNode, ApiOnly, switchVars
<1>2. /\ dbNets \in [Network -> Life] /\ dbNodes \in [Node -> Life]
      /\ \A d \in Node : dbNodes[d] = "live" => dbNets[NodeNet[d]] = "live"
    BY DEF LInv, TypeOK, Database
<1>5. \A d \in Node : dbNodes'[d] = IF d = n THEN "live" ELSE dbNodes[d]
    BY <1>1, <1>2
<1>6. \A d \in Node : dbNodes'[d] = "live" => dbNets'[NodeNet[d]] = "live"
    BY <1>1, <1>2, <1>5
<1>13. CASE UNCHANGED stray /\ Send(sinfo, <<NodeMsg(n, FALSE)>>)
    <2> DEFINE msgs == <<NodeMsg(n, FALSE)>>
    <2>1. msgs \in Seq(Reply) /\ Len(msgs) = 1 /\ msgs[1] = NodeMsg(n, FALSE)
        <3>1. NodeMsg(n, FALSE) \in Reply
            BY RepliesAreTyped
        <3>2. QED
            BY <3>1, Single
    <2>2. Send(sinfo, msgs)
        BY <1>13
    <2> HIDE DEF msgs
    <2>3. \A i \in 1 .. Len(msgs) :
             msgs[i].op = "listall-node" /\ msgs[i].node = n /\ ~msgs[i].last
        BY <2>1 DEF NodeMsg
    <2>4. /\ Announces(msgs, dbNets', dbNodes', SoundNets', SoundNodes')
          /\ \A i \in 1 .. Len(msgs) : ~LastNode(msgs[i])
        BY <2>3 DEF Announces, Truthful, LastNode
    <2>5. SoundNets' = SoundNets /\ SoundNodes' = SoundNodes /\ SoundNodes \subseteq Node
        BY <1>13, SoundKept DEF SoundNodes
    <2>6. NetsSent(msgs, dbNets, dbNets', SoundNets)
        BY <1>1, <2>3 DEF NetsSent, AddsNet
    <2>7. NodesSent(msgs, dbNodes, dbNodes', SoundNodes)
        BY <1>1, <1>5, <2>3, <2>5 DEF NodesSent, Admits
    <2>8. \A d \in TrueNodes' : d \in TrueNodes \/ (NodeNet[d] \in TrueNets
                                   /\ \E i \in 1 .. Len(msgs) : Admits(msgs[i], d))
        <3>1. 1 \in 1 .. Len(msgs)
            BY <2>1
        <3>2. Admits(msgs[1], n)
            BY <2>3, <3>1 DEF Admits
        <3>3. n \in SoundNodes => NodeNet[n] \in TrueNets
            BY <1>1, ControlAssumption DEF LiveNets, TrueNets, SoundNets, SoundNodes, SoundNode
        <3>4. \A d \in TrueNodes' : d \in TrueNodes \/ (d = n /\ n \in SoundNodes)
            BY <1>5, <2>5 DEF LiveNodes, TrueNodes
        <3>5. QED
            BY <3>1, <3>2, <3>3, <3>4
    <2>9. TrueNets' = TrueNets
        BY <1>1, <2>5 DEF LiveNets, TrueNets
    <2>10. \A d \in SoundNodes : dbNodes[d] = "deleted" => dbNodes'[d] = "deleted"
        BY <1>1, <1>5, <2>5
    <2>11. QED
        BY <1>1, <1>6, <2>1, <2>2, <2>4, <2>5, <2>6, <2>7, <2>8, <2>9, <2>10, PushL
<1>14. CASE strayNodes' = strayNodes \cup {n} /\ UNCHANGED <<strayNets, toSwitch>>
    <2>1. PICK msgs \in Seq(Reply) : Send(sinfo, msgs) /\ \A i \in 1 .. Len(msgs) : FALSE
        BY <1>14, SendNothing DEF LInv, IInv, Types
    <2>2. \A d \in SoundNodes' : dbNodes'[d] = dbNodes[d]
        BY <1>5, <1>14 DEF SoundNodes, SoundNode
    <2>3. QED
        BY <1>1, <1>6, <1>14, <2>1, <2>2, MishapL
<1>15. QED
    BY <1>13, <1>14 DEF AddNode, InStep

LEMMA DelNodeL ==
    ASSUME LInv, NEW n \in Node, DelNode(n)
    PROVE  LInvNext
<1>1. /\ dbNodes[n] = "live" /\ dbNets' = dbNets
      /\ dbNodes' = dbNodes \/ dbNodes' = [dbNodes EXCEPT ![n] = "deleted"]
      /\ UNCHANGED <<cur, link, inited, nets, nodes, pipe, cut, toCtl, peer, inbuf, sinfo, refused>>
    BY DEF DelNode, DropNode, ApiOnly, switchVars
<1>2. /\ dbNets \in [Network -> Life] /\ dbNodes \in [Node -> Life]
      /\ \A d \in Node : dbNodes[d] = "live" => dbNets[NodeNet[d]] = "live"
    BY DEF LInv, TypeOK, Database
<1>3. /\ \A d \in Node : d # n => dbNodes'[d] = dbNodes[d]
      /\ dbNodes'[n] = "deleted" \/ dbNodes'[n] = "live"
    BY <1>1, <1>2
<1>4. \A d \in Node : dbNodes'[d] = "live" => dbNets'[NodeNet[d]] = "live"
    BY <1>1, <1>2, <1>3
<1> DEFINE msgs == <<DelNodeMsg(n)>>
<1>5. msgs \in Seq(Reply) /\ Len(msgs) = 1 /\ msgs[1] = DelNodeMsg(n)
    <2>1. DelNodeMsg(n) \in Reply
        BY RepliesAreTyped
    <2>2. QED
        BY <2>1, Single
<1>6. /\ UNCHANGED stray /\ dbNodes' = [dbNodes EXCEPT ![n] = "deleted"] /\ Send(sinfo, msgs)
      \/ /\ strayNodes' = strayNodes \cup {n} /\ UNCHANGED strayNets
         /\ Send(sinfo, msgs) \/ UNCHANGED toSwitch
    BY DEF DelNode, DropNode, InStep
<1> HIDE DEF msgs
<1>7. \A i \in 1 .. Len(msgs) : msgs[i].op = "del-node" /\ msgs[i].node = n
    BY <1>5 DEF DelNodeMsg
<1>8. CASE UNCHANGED stray /\ dbNodes' = [dbNodes EXCEPT ![n] = "deleted"] /\ Send(sinfo, msgs)
    <2>1. \A d \in Node : dbNodes'[d] = IF d = n THEN "deleted" ELSE dbNodes[d]
        BY <1>2, <1>8
    <2>2. SoundNets' = SoundNets /\ SoundNodes' = SoundNodes /\ SoundNodes \subseteq Node
        BY <1>8, SoundKept DEF SoundNodes
    <2>3. /\ Announces(msgs, dbNets', dbNodes', SoundNets', SoundNodes')
          /\ \A i \in 1 .. Len(msgs) : ~LastNode(msgs[i])
        BY <1>7, <2>1 DEF Announces, Truthful, LastNode
    <2>4. NetsSent(msgs, dbNets, dbNets', SoundNets)
        BY <1>1, <1>7 DEF NetsSent, AddsNet
    <2>5. Len(msgs) = 1 /\ DropsNode(msgs[1], n)
        BY <1>5, <1>7 DEF DropsNode
    <2>6. NodesSent(msgs, dbNodes, dbNodes', SoundNodes)
        BY <1>1, <1>7, <2>1, <2>2, <2>5 DEF NodesSent, Admits
    <2>7. TrueNets' = TrueNets /\ TrueNodes' \subseteq TrueNodes
        BY <1>1, <2>1, <2>2 DEF LiveNets, LiveNodes, TrueNets, TrueNodes
    <2>8. \A d \in SoundNodes : dbNodes[d] = "deleted" => dbNodes'[d] = "deleted"
        BY <2>1, <2>2
    <2>9. QED
        BY <1>1, <1>4, <1>5, <1>8, <2>2, <2>3, <2>4, <2>6, <2>7, <2>8, PushL
<1>9. CASE /\ strayNodes' = strayNodes \cup {n} /\ UNCHANGED strayNets
           /\ Send(sinfo, msgs) \/ UNCHANGED toSwitch
    <2>1. n \notin SoundNodes'
        BY <1>9 DEF SoundNodes, SoundNode
    <2>2. \A d \in SoundNodes' : dbNodes'[d] = dbNodes[d]
        BY <1>3, <2>1 DEF SoundNodes
    <2>3. CASE Send(sinfo, msgs)
        BY <1>1, <1>4, <1>5, <1>7, <1>9, <2>1, <2>2, <2>3, MishapL
    <2>4. CASE UNCHANGED toSwitch
        <3>1. PICK more \in Seq(Reply) : Send(sinfo, more) /\ \A i \in 1 .. Len(more) : FALSE
            BY <2>4, SendNothing DEF LInv, IInv, Types
        <3>2. QED
            BY <1>1, <1>4, <1>9, <2>2, <3>1, MishapL
    <2>5. QED
        BY <1>9, <2>3, <2>4
<1>10. QED
    BY <1>6, <1>8, <1>9

LEMMA DelNetworkL ==
    ASSUME LInv, NEW v \in Network, DelNetwork(v)
    PROVE  LInvNext
<1> DEFINE msgs == <<DelNetMsg(v)>>
<1>1. UNCHANGED <<cur, link, inited, nets, nodes, pipe, cut, toCtl, peer, inbuf, sinfo, refused>>
    BY DEF DelNetwork, ApiOnly, switchVars
<1>2. /\ dbNets \in [Network -> Life] /\ dbNodes \in [Node -> Life]
      /\ \A d \in Node : dbNodes[d] = "live" => dbNets[NodeNet[d]] = "live"
    BY DEF LInv, TypeOK, Database
<1>3. msgs \in Seq(Reply) /\ Len(msgs) = 1 /\ msgs[1] = DelNetMsg(v)
    BY RepliesAreTyped, Single
<1>4. DropNodes(v) => \A n \in Node : dbNodes'[n] = IF NodeNet[n] = v /\ dbNodes[n] = "live"
                                                    THEN "deleted" ELSE dbNodes[n]
    BY <1>2 DEF DropNodes
<1>5. \/ /\ UNCHANGED stray /\ DropNodes(v) /\ dbNets' = [dbNets EXCEPT ![v] = "deleted"]
         /\ Send(sinfo, msgs)
      \/ /\ strayNets' = strayNets \cup {v} /\ UNCHANGED <<strayNodes, dbNets>>
         /\ DropNodes(v) \/ UNCHANGED dbNodes
         /\ Send(sinfo, msgs)
      \/ /\ DropNodes(v) /\ UNCHANGED <<strayNets, dbNets, toSwitch>>
         /\ strayNodes' = strayNodes \cup {n \in LiveNodes : NodeNet[n] = v}
    BY DEF DelNetwork, InStep
<1> HIDE DEF msgs
<1>6. \A i \in 1 .. Len(msgs) : msgs[i].op = "del-network" /\ msgs[i].net = v
    BY <1>3 DEF DelNetMsg
<1>7. CASE /\ UNCHANGED stray /\ DropNodes(v) /\ dbNets' = [dbNets EXCEPT ![v] = "deleted"]
           /\ Send(sinfo, msgs)
    <2>1. \A w \in Network : dbNets'[w] = IF w = v THEN "deleted" ELSE dbNets[w]
        BY <1>2, <1>7
    <2>2. \A n \in Node : dbNodes'[n] = IF NodeNet[n] = v /\ dbNodes[n] = "live"
                                        THEN "deleted" ELSE dbNodes[n]
        BY <1>4, <1>7
    <2>3. /\ SoundNets' = SoundNets /\ SoundNets \subseteq Network
          /\ SoundNodes' = SoundNodes /\ SoundNodes \subseteq Node
        BY <1>7, SoundKept DEF SoundNets, SoundNodes
    <2>4. \A d \in Node : dbNodes'[d] = "live" => dbNets'[NodeNet[d]] = "live"
        BY <1>2, <2>1, <2>2, ControlAssumption
    <2>5. /\ Announces(msgs, dbNets', dbNodes', SoundNets', SoundNodes')
          /\ \A i \in 1 .. Len(msgs) : ~LastNode(msgs[i])
        BY <1>6, <2>1 DEF Announces, Truthful, LastNode
    <2>6. Len(msgs) = 1 /\ DropsNet(msgs[1], v)
          /\ \A n \in Node : NodeNet[n] = v => DropsNode(msgs[1], n)
        BY <1>3, <1>6 DEF DropsNet, DropsNode
    <2>7. NetsSent(msgs, dbNets, dbNets', SoundNets)
        BY <1>6, <2>1, <2>3, <2>6 DEF NetsSent, AddsNet
    <2>8. NodesSent(msgs, dbNodes, dbNodes', SoundNodes)
        BY <1>6, <2>2, <2>3, <2>6 DEF NodesSent, Admits
    <2>9. TrueNets' \subseteq TrueNets /\ TrueNodes' \subseteq TrueNodes
        BY <2>1, <2>2, <2>3 DEF LiveNets, LiveNodes, TrueNets, TrueNodes
    <2>10. /\ \A w \in SoundNets : dbNets[w] = "deleted" => dbNets'[w] = "deleted"
           /\ \A n \in SoundNodes : dbNodes[n] = "deleted" => dbNodes'[n] = "deleted"
        BY <2>1, <2>2, <2>3
    <2>11. QED
        BY <1>1, <1>3, <1>7, <2>3, <2>4, <2>5, <2>7, <2>8, <2>9, <2>10, PushL
<1>8. CASE /\ strayNets' = strayNets \cup {v} /\ UNCHANGED <<strayNodes, dbNets>>
           /\ DropNodes(v) \/ UNCHANGED dbNodes
           /\ Send(sinfo, msgs)
    <2>1. v \notin SoundNets' /\ \A n \in SoundNodes' : n \in Node /\ NodeNet[n] # v
        BY <1>8 DEF SoundNets, SoundNodes, SoundNode, SoundNet
    <2>2. \A n \in SoundNodes' : dbNodes'[n] = dbNodes[n]
        BY <1>4, <1>8, <2>1
    <2>3. \A n \in Node : dbNodes'[n] = "live" => dbNodes[n] = "live"
        BY <1>4, <1>8
    <2>4. \A d \in Node : dbNodes'[d] = "live" => dbNets'[NodeNet[d]] = "live"
        BY <1>2, <1>8, <2>3
    <2>5. QED
        BY <1>1, <1>3, <1>6, <1>8, <2>1, <2>2, <2>4, MishapL
<1>9. CASE /\ DropNodes(v) /\ UNCHANGED <<strayNets, dbNets, toSwitch>>
           /\ strayNodes' = strayNodes \cup {n \in LiveNodes : NodeNet[n] = v}
    <2>1. PICK more \in Seq(Reply) : Send(sinfo, more) /\ \A i \in 1 .. Len(more) : FALSE
        BY <1>9, SendNothing DEF LInv, IInv, Types
    <2>2. \A n \in SoundNodes' : n \in Node /\ ~(NodeNet[n] = v /\ dbNodes[n] = "live")
        BY <1>9 DEF SoundNodes, SoundNode, LiveNodes
    <2>3. \A n \in SoundNodes' : dbNodes'[n] = dbNodes[n]
        BY <1>4, <1>9, <2>2
    <2>4. \A d \in Node : dbNodes'[d] = "live" => dbNets'[NodeNet[d]] = "live"
        BY <1>2, <1>4, <1>9
    <2>5. QED
        BY <1>1, <1>9, <2>1, <2>3, <2>4, MishapL
<1>10. QED
    BY <1>5, <1>7, <1>8, <1>9

-----------------------------------------------------------------------------
(* The theorems *)

LEMMA InitL == Init => LInv
<1> SUFFICES ASSUME Init
             PROVE  LInv
    OBVIOUS
<1>1. TypeOK /\ IInv
    BY InitTypes, InitInv
<1>2. 1 \in Conn
    BY ConnIsPositive
<1>3. Lines = <<>> /\ Msgs = <<>>
    <2>1. inbuf[1] = <<>> /\ toCtl[1] = <<>> /\ toSwitch[1] = <<>> /\ cur = 1
        BY <1>2 DEF Init
    <2>2. <<>> \o <<>> = <<>>
        BY ConcatEmptySeq, EmptySeq
    <2>3. QED
        BY <2>1, <2>2 DEF Lines, Msgs
<1>4. Streams
    BY <1>3 DEF Init, Streams, Unasked
<1>5. Database
    BY <1>3 DEF Init, Database, Announces
<1>6. Following
    BY DEF Init, Following, Attached
<1>7. First
    <2>1. Mirrors({}, {}, <<>>, dbNets, dbNodes, SoundNets, SoundNodes)
        BY MirrorsEmpty
    <2>2. QED
        BY <1>2, <1>3, <2>1 DEF Init, First
<1>8. QED
    BY <1>1, <1>4, <1>5, <1>6, <1>7 DEF LInv

LEMMA NextL == LInv /\ [Next]_vars => LInvNext
<1> SUFFICES ASSUME LInv, [Next]_vars
             PROVE  LInvNext
    OBVIOUS
<1>1. CASE UNCHANGED vars \/ OnReadNoId \/ Start \/ PipeReadFreed
    <2>1. UNCHANGED <<cur, link, inited, nets, nodes, pipe, cut, toCtl, toSwitch, peer, inbuf,
                      sinfo, dbNets, dbNodes, stray, refused>>
        BY <1>1 DEF vars, switchVars, dbVars, history, OnReadNoId, Start, PipeReadFreed
    <2>2. QED
        BY <2>1, QuietL
<1>2. ASSUME SwitchNext
      PROVE  LInvNext
    BY <1>1, <1>2, OnConnectedL, OnEofL, NewPeerL, NewPeerFailsL, OnReadL, WriteStatusL, PipeReadL DEF SwitchNext
<1>3. ASSUME NEW c \in Conn, CtlRead(c)
      PROVE  LInvNext
    BY <1>3, CtlReadL, CtlReadOtherL
<1>4. ASSUME CtlNext
      PROVE  LInvNext
    BY <1>3, <1>4, AcceptL, CrashL, CtlConnectedL, CtlEofL, AddNetworkL, DelNetworkL, AddNodeL,
       DelNodeL DEF CtlNext
<1>5. QED
    BY <1>1, <1>2, <1>4, CutL DEF Next

LEMMA StepL == LInv /\ [Next]_vars => LInv'
<1>1. LInv /\ [Next]_vars => LInvNext
    BY NextL
<1>2. LInv /\ [Next]_vars => TypeOK' /\ IInv'
    BY StepTypes, StepInv DEF LInv
<1>3. QED
    BY <1>1, <1>2 DEF LInv, LInvNext

LEMMA QuietStreams ==
    ASSUME LInv, Served
    PROVE  /\ Follows(nets, nodes, TRUE, <<>>, <<>>, TrueNets, TrueNodes)
           /\ cur = 1 => Mirrors(nets, nodes, <<>>, dbNets, dbNodes, SoundNets, SoundNodes)
<1>1. Lines = <<>> /\ Msgs = <<>>
    <2>1. <<>> \o <<>> = <<>>
        BY ConcatEmptySeq, EmptySeq
    <2>2. QED
        BY <2>1 DEF Served, Quiet, Lines, Msgs
<1>2. Attached /\ inited = TRUE
    BY DEF Served, Quiet, Attached, LInv, TypeOK
<1>3. QED
    BY <1>1, <1>2 DEF LInv, Following, First, Attached

LEMMA CompleteL == LInv => SwitchComplete
<1> SUFFICES ASSUME LInv, Served
             PROVE  /\ \A v \in LiveNets : SoundNet(v) => v \in nets
                    /\ \A n \in LiveNodes : SoundNode(n) => n \in nodes
    BY DEF SwitchComplete
<1>1. /\ \A v \in TrueNets : Known(nets, <<>>, v)
      /\ \A n \in TrueNodes : Covered(nets, nodes, <<>>, n)
    BY QuietStreams DEF Follows
<1>2. /\ \A v \in LiveNets : SoundNet(v) => v \in TrueNets
      /\ \A n \in LiveNodes : SoundNode(n) => n \in TrueNodes
    BY DEF TrueNets, TrueNodes, LiveNets, LiveNodes, SoundNets, SoundNodes
<1>3. QED
    BY <1>1, <1>2 DEF Known, Covered

LEMMA ExactL == LInv => SwitchExact
<1> SUFFICES ASSUME LInv, Served, cur = 1
             PROVE  /\ \A v \in nets : SoundNet(v) => v \in LiveNets
                    /\ \A n \in nodes : SoundNode(n) => n \in LiveNodes
    BY DEF SwitchExact
<1>1. /\ \A v \in SoundNets : /\ v \in nets => dbNets[v] # "unborn"
                              /\ dbNets[v] = "deleted" => v \notin nets
      /\ \A n \in SoundNodes : /\ n \in nodes => dbNodes[n] # "unborn"
                               /\ dbNodes[n] = "deleted" => n \notin nodes
    BY QuietStreams DEF Mirrors, Known, NetLeaves, NodeLeaves
<1>2. /\ nets \subseteq Network /\ nodes \subseteq Node
      /\ \A v \in Network : dbNets[v] \in {"unborn", "live", "deleted"}
      /\ \A n \in Node : dbNodes[n] \in {"unborn", "live", "deleted"}
    BY DEF LInv, TypeOK, Life
<1>3. QED
    BY <1>1, <1>2 DEF LiveNets, LiveNodes, SoundNets, SoundNodes

(* The invariant of the two streams holds in every state. *)
THEOREM ListingInductive == Spec => []LInv
BY InitL, StepL, PTL DEF Spec

(* Completeness: whatever add_network and add_node pushed while listall_network and
   listall_node were answered, and however many connections were lost before, an idle
   switch that the controller pushes to misses no network and no node but those that an
   operation left half done since this connection was accepted. *)
THEOREM ListingIsComplete == Spec => []SwitchComplete
BY ListingInductive, CompleteL, PTL

(* Exactness: on the first connection del_network and del_node take out all that was
   deleted and pushed as deleted, for no push precedes the row it takes back. *)
THEOREM ListingIsExact == Spec => []SwitchExact
BY ListingInductive, ExactL, PTL
=============================================================================
