---------------------------- MODULE EnrollProofs ----------------------------
(***************************************************************************)
(* The provisioning round trip for any number of sessions, agents and      *)
(* queries in flight: types, at most one passport for a session, and its   *)
(* own while it was the only one that asked.                               *)
(***************************************************************************)
EXTENDS Enroll, SequenceTheorems, TLAPS

(* The streams hold no provisioning but those of the nodes N. *)
QueriesFor(N) == {Query(n) : n \in N} \cup {Other}

StreamsFor(N) ==
    /\ pipe \in Seq(QueriesFor(N))
    /\ toCtl \in Seq(Seq(QueriesFor(N)) \ {<<>>})
    /\ inbuf \in Seq(Seq(QueriesFor(N)) \ {<<>>})
    /\ toSwitch \in Seq([node : N, success : BOOLEAN])

(* A session in the table, or in the control thread's hand, asked and was sent
   nothing; once the table is cleared the two differ. *)
Fresh == \A s \in Session :
    /\ session[s] \in {"none", "open"} => got[s] = <<>> /\ slot # s
    /\ slot = s => got[s] = <<>>

Held == answering # <<>> /\ answering.session # None =>
    /\ got[answering.session] = <<>>
    /\ session[answering.session] \in {"waiting", "freed"}
    /\ answering.at = "cleared" => slot # answering.session

(* While a session waits and nobody else asks, everything in flight is its own. *)
Alone(s) == session[s] = "waiting" /\ "query" \notin company[s]

OwnFlight == \A s \in Session : Alone(s) =>
    /\ StreamsFor({NodeOf[s]})
    /\ writing # None => NodeOf[writing] = NodeOf[s]
    /\ answering # <<>> => answering.node = NodeOf[s]

IInv == TypeOK /\ Fresh /\ Held /\ OneAnswer /\ OwnFlight /\ OwnPassport

-----------------------------------------------------------------------------
(* Sequences *)

LEMMA SeqOf ==
    ASSUME NEW S, NEW T, NEW s \in Seq(S), \A i \in 1 .. Len(s) : s[i] \in T
    PROVE  s \in Seq(T)
<1>1. Len(s) \in Nat /\ s \in [1 .. Len(s) -> T]
    BY LenProperties
<1>2. QED
    BY <1>1, SeqDef

LEMMA SubSeqIn ==
    ASSUME NEW S, NEW s \in Seq(S), NEW k \in 1 .. Len(s)
    PROVE  /\ SubSeq(s, 1, k) \in Seq(S) \ {<<>>}
           /\ SubSeq(s, k + 1, Len(s)) \in Seq(S)
<1>1. Len(s) \in Nat /\ \A i \in 1 .. Len(s) : s[i] \in S
    BY LenProperties, ElementOfSeq
<1>2. SubSeq(s, 1, k) \in Seq(S) /\ Len(SubSeq(s, 1, k)) = k
    BY <1>1, SubSeqProperties
<1>3. SubSeq(s, k + 1, Len(s)) \in Seq(S)
    BY <1>1, SubSeqProperties
<1>4. QED
    BY <1>2, <1>3, EmptySeq

LEMMA ConcatNonEmpty ==
    ASSUME NEW S, NEW s \in Seq(S), NEW t \in Seq(S), t # <<>>
    PROVE  s \o t \in Seq(S) /\ s \o t # <<>>
BY ConcatProperties, ConcatEqualIffEmpty

LEMMA ConcatThree ==
    ASSUME NEW S, NEW s \in Seq(S), NEW t \in Seq(S), NEW u \in Seq(S)
    PROVE  /\ Len(s) \in Nat /\ Len(t) \in Nat /\ Len(u) \in Nat
           /\ Len(s \o t \o u) = Len(s) + Len(t) + Len(u)
           /\ \A i \in 1 .. Len(s) : (s \o t \o u)[i] = s[i]
           /\ \A i \in 1 .. Len(t) : (s \o t \o u)[Len(s) + i] = t[i]
           /\ \A i \in 1 .. Len(u) : (s \o t \o u)[Len(s) + Len(t) + i] = u[i]
<1>1. Len(s) \in Nat /\ Len(t) \in Nat /\ Len(u) \in Nat
    BY LenProperties
<1>2. PICK v : v = s \o t
    OBVIOUS
<1>3. v \in Seq(S)
    BY <1>2, ConcatProperties
<1>4. /\ Len(v) = Len(s) + Len(t)
      /\ \A i \in 1 .. Len(s) + Len(t) : v[i] = IF i <= Len(s) THEN s[i] ELSE t[i - Len(s)]
    BY <1>2, ConcatProperties
<1>5. PICK w : w = v \o u
    OBVIOUS
<1>6. /\ Len(w) = Len(v) + Len(u)
      /\ \A i \in 1 .. Len(v) + Len(u) : w[i] = IF i <= Len(v) THEN v[i] ELSE u[i - Len(v)]
    BY <1>3, <1>5, ConcatProperties
<1>7. ASSUME NEW i \in 1 .. Len(s) PROVE w[i] = s[i]
    BY <1>1, <1>4, <1>6
<1>8. ASSUME NEW i \in 1 .. Len(t) PROVE w[Len(s) + i] = t[i]
    <2>1. w[Len(s) + i] = v[Len(s) + i]
        BY <1>1, <1>4, <1>6
    <2>2. v[Len(s) + i] = t[Len(s) + i - Len(s)] /\ Len(s) + i - Len(s) = i
        BY <1>1, <1>4
    <2>3. QED
        BY <2>1, <2>2
<1>9. ASSUME NEW i \in 1 .. Len(u) PROVE w[Len(s) + Len(t) + i] = u[i]
    <2>1. Len(v) + i - Len(v) = i /\ Len(v) + i \in 1 .. Len(v) + Len(u) /\ ~(Len(v) + i <= Len(v))
        BY <1>1, <1>4
    <2>2. w[Len(v) + i] = u[i]
        BY <1>6, <2>1
    <2>3. QED
        BY <1>4, <2>2
<1>10. QED
    BY <1>1, <1>2, <1>4, <1>5, <1>6, <1>7, <1>8, <1>9

-----------------------------------------------------------------------------
(* The streams *)

LEMMA Provisioning ==
    ASSUME NEW N, NEW q \in QueriesFor(N), q # Other
    PROVE  q.node \in N /\ Answer(q.node) \subseteq [node : N, success : BOOLEAN]
<1>1. q.node \in N
    BY DEF QueriesFor, Query
<1>2. RowsWithCode(q.node) \subseteq {q.node}
    BY DEF RowsWithCode
<1>3. ASSUME NEW a \in Answer(q.node) PROVE a \in [node : N, success : BOOLEAN]
    <2>1. \E m \in N : a = [node |-> m, success |-> FALSE] \/ a = [node |-> m, success |-> TRUE]
        BY <1>1, <1>2, <1>3 DEF Answer
    <2>2. PICK m \in N : a = [node |-> m, success |-> FALSE] \/ a = [node |-> m, success |-> TRUE]
        BY <2>1
    <2>3. /\ [node |-> m, success |-> FALSE] \in [node : N, success : BOOLEAN]
          /\ [node |-> m, success |-> TRUE] \in [node : N, success : BOOLEAN]
        OBVIOUS
    <2>4. QED
        BY <2>2, <2>3, Zenon
<1>4. QED
    BY <1>1, <1>3

LEMMA TypeStreams ==
    /\ QueriesFor(Node) = Queries
    /\ TypeOK => StreamsFor(Node)
BY DEF QueriesFor, Queries, TypeOK, StreamsFor, Line, Answers

LEMMA Writes ==
    ASSUME NEW N, StreamsFor(N), NEW n \in N
    PROVE  /\ Append(pipe, Query(n)) \in Seq(QueriesFor(N))
           /\ Append(pipe, Other) \in Seq(QueriesFor(N))
<1>1. Query(n) \in QueriesFor(N) /\ Other \in QueriesFor(N)
    BY DEF QueriesFor
<1>2. QED
    BY <1>1, AppendProperties DEF StreamsFor

LEMMA PipeReadStreams ==
    ASSUME NEW N, StreamsFor(N), PipeRead
    PROVE  StreamsFor(N)'
<1>1. PICK k \in 1 .. Len(pipe) :
          /\ toCtl' = Append(toCtl, SubSeq(pipe, 1, k))
          /\ pipe' = SubSeq(pipe, k + 1, Len(pipe))
    BY DEF PipeRead, Drained
<1>2. /\ SubSeq(pipe, 1, k) \in Seq(QueriesFor(N)) \ {<<>>}
      /\ pipe' \in Seq(QueriesFor(N))
    BY <1>1, SubSeqIn DEF StreamsFor
<1>3. toCtl' \in Seq(Seq(QueriesFor(N)) \ {<<>>})
    BY <1>1, <1>2, AppendProperties DEF StreamsFor
<1>4. inbuf' = inbuf /\ toSwitch' = toSwitch
    BY DEF PipeRead
<1>5. QED
    BY <1>2, <1>3, <1>4 DEF StreamsFor

LEMMA ReadSlotStreams ==
    ASSUME NEW N, StreamsFor(N), ReadSlot
    PROVE  /\ StreamsFor(N)'
           /\ \/ answering' = <<>>
              \/ answering' = [node |-> Head(toSwitch).node, session |-> slot, at |-> "read"]
           /\ Head(toSwitch).node \in N
<1>1. /\ toSwitch \in Seq([node : N, success : BOOLEAN]) /\ toSwitch # <<>>
      /\ toSwitch' = Tail(toSwitch)
    BY DEF ReadSlot, StreamsFor
<1>2. /\ Head(toSwitch) \in [node : N, success : BOOLEAN]
      /\ Tail(toSwitch) \in Seq([node : N, success : BOOLEAN])
    BY <1>1, HeadTailProperties
<1>3. pipe' = pipe /\ toCtl' = toCtl /\ inbuf' = inbuf
    BY DEF ReadSlot, pipeVars
<1>4. StreamsFor(N)'
    BY <1>1, <1>2, <1>3 DEF StreamsFor
<1>5. QED
    BY <1>2, <1>4 DEF ReadSlot

LEMMA CtlReadStreams ==
    ASSUME NEW N, StreamsFor(N), CtlRead
    PROVE  StreamsFor(N)'
<1> DEFINE L == Seq(QueriesFor(N)) \ {<<>>}
<1>1. PICK k \in 1 .. Len(toCtl) :
          LET lines == inbuf \o SubSeq(toCtl, 1, k)
              line  == Head(lines)
          IN  /\ toCtl' = SubSeq(toCtl, k + 1, Len(toCtl))
              /\ inbuf' = Tail(lines)
              /\ IF Len(line) = 1 /\ Head(line) # Other
                 THEN \E a \in Answer(Head(line).node) : toSwitch' = Append(toSwitch, a)
                 ELSE UNCHANGED toSwitch
    BY DEF CtlRead
<1> DEFINE lines == inbuf \o SubSeq(toCtl, 1, k)
<1>2. SubSeq(toCtl, 1, k) \in Seq(L) \ {<<>>} /\ toCtl' \in Seq(L)
    BY <1>1, SubSeqIn DEF StreamsFor
<1>3. lines \in Seq(L) /\ lines # <<>>
    <2>1. inbuf \in Seq(L)
        BY DEF StreamsFor
    <2>2. QED
        BY <1>2, <2>1, ConcatNonEmpty
<1>4. Head(lines) \in L /\ inbuf' \in Seq(L)
    BY <1>1, <1>3, HeadTailProperties
<1>5. Head(Head(lines)) \in QueriesFor(N)
    BY <1>4, HeadTailProperties
<1>6. toSwitch' \in Seq([node : N, success : BOOLEAN])
    <2>1. CASE toSwitch' = toSwitch
        BY <2>1 DEF StreamsFor
    <2>2. CASE toSwitch' # toSwitch
        <3>1. /\ Head(Head(lines)) # Other
              /\ \E a \in Answer(Head(Head(lines)).node) : toSwitch' = Append(toSwitch, a)
            BY <1>1, <2>2
        <3>2. Answer(Head(Head(lines)).node) \subseteq [node : N, success : BOOLEAN]
            BY <1>5, <3>1, Provisioning
        <3>3. PICK a \in [node : N, success : BOOLEAN] : toSwitch' = Append(toSwitch, a)
            BY <3>1, <3>2
        <3>4. toSwitch \in Seq([node : N, success : BOOLEAN])
            BY DEF StreamsFor
        <3>5. QED
            BY <3>3, <3>4, AppendProperties
    <2>3. QED
        BY <2>1, <2>2
<1>7. pipe' = pipe
    BY DEF CtlRead, pipeVars
<1>8. QED
    BY <1>2, <1>4, <1>6, <1>7 DEF StreamsFor

LEMMA CutStreams ==
    ASSUME NEW N, StreamsFor(N), Cut \/ Reconnect
    PROVE  StreamsFor(N)'
<1>1. /\ <<>> \in Seq(Seq(QueriesFor(N)) \ {<<>>})
      /\ <<>> \in Seq([node : N, success : BOOLEAN])
    BY EmptySeq
<1>2. <<<<Other>>>> \in Seq(Seq(QueriesFor(N)) \ {<<>>})
    <2>1. Other \in QueriesFor(N)
        BY DEF QueriesFor
    <2>2. <<Other>> \in Seq(QueriesFor(N)) /\ <<Other>> # <<>>
        BY <2>1
    <2>3. QED
        BY <2>2
<1>3. QED
    BY <1>1, <1>2 DEF StreamsFor, Cut, Reconnect

(* What is in flight when nothing is a provisioning. *)
LEMMA QuietStreams ==
    ASSUME TypeOK, "query" \notin InFlight, NEW N
    PROVE  StreamsFor(N) /\ answering = <<>>
<1> DEFINE P == [i \in 1 .. Len(pipe) |-> <<pipe[i]>>]
           L == toCtl \o inbuf \o P
<1>1. toSwitch = <<>> /\ answering = <<>>
    BY DEF InFlight
<1>2. Len(pipe) \in Nat /\ P \in Seq(Line) /\ Len(P) = Len(pipe)
    <2>1. Len(pipe) \in Nat /\ \A i \in 1 .. Len(pipe) : pipe[i] \in Queries
        BY LenProperties, ElementOfSeq DEF TypeOK
    <2>2. P \in [1 .. Len(pipe) -> Line]
        BY <2>1 DEF Line
    <2>3. P \in Seq(Line)
        BY <2>1, <2>2, SeqDef
    <2>4. DOMAIN P = 1 .. Len(P) /\ DOMAIN P = 1 .. Len(pipe) /\ Len(P) \in Nat
        BY <2>3, LenProperties
    <2>5. QED
        BY <2>1, <2>3, <2>4
<1>3. /\ Len(toCtl) \in Nat /\ Len(inbuf) \in Nat
      /\ Len(L) = Len(toCtl) + Len(inbuf) + Len(pipe)
      /\ \A i \in 1 .. Len(toCtl) : L[i] = toCtl[i]
      /\ \A i \in 1 .. Len(inbuf) : L[Len(toCtl) + i] = inbuf[i]
      /\ \A i \in 1 .. Len(pipe) : L[Len(toCtl) + Len(inbuf) + i] = P[i]
    <2> HIDE DEF P
    <2>1. toCtl \in Seq(Line) /\ inbuf \in Seq(Line)
        BY DEF TypeOK
    <2>2. P \in Seq(Line)
        BY <1>2
    <2>3. /\ Len(toCtl) \in Nat /\ Len(inbuf) \in Nat /\ Len(P) \in Nat
          /\ Len(toCtl \o inbuf \o P) = Len(toCtl) + Len(inbuf) + Len(P)
          /\ \A i \in 1 .. Len(toCtl) : (toCtl \o inbuf \o P)[i] = toCtl[i]
          /\ \A i \in 1 .. Len(inbuf) : (toCtl \o inbuf \o P)[Len(toCtl) + i] = inbuf[i]
          /\ \A i \in 1 .. Len(P) : (toCtl \o inbuf \o P)[Len(toCtl) + Len(inbuf) + i] = P[i]
        BY <2>1, <2>2, ConcatThree
    <2>4. QED
        BY <1>2, <2>3, Zenon
<1>4. ASSUME NEW i \in 1 .. Len(L), NEW j \in 1 .. Len(L[i]) PROVE L[i][j] = Other
    <2> SUFFICES ASSUME L[i][j] # Other PROVE FALSE
        OBVIOUS
    <2>1. L = Lines
        BY DEF Lines
    <2> HIDE DEF L
    <2>2. L[i][j] \in UNION {{l[x] : x \in 1 .. Len(l)} : l \in {L[y] : y \in 1 .. Len(L)}}
        OBVIOUS
    <2>3. \E q \in UNION {{l[x] : x \in 1 .. Len(l)} : l \in {L[y] : y \in 1 .. Len(L)}} : q # Other
        BY <2>2
    <2>4. "query" \in {IF q = Other THEN "other" ELSE "query" :
            q \in UNION {{l[x] : x \in 1 .. Len(l)} : l \in {L[y] : y \in 1 .. Len(L)}}}
        BY <2>3
    <2>5. "query" \in InFlight
        BY <2>1, <2>4 DEF InFlight
    <2>6. QED
        BY <2>5
<1>5. \A i \in 1 .. Len(pipe) : pipe[i] = Other
    <2> SUFFICES ASSUME NEW i \in 1 .. Len(pipe) PROVE pipe[i] = Other
        OBVIOUS
    <2> DEFINE x == Len(toCtl) + Len(inbuf) + i
    <2>1. P[i] = <<pipe[i]>> /\ Len(P[i]) = 1 /\ P[i][1] = pipe[i]
        OBVIOUS
    <2> HIDE DEF P, L
    <2>2. x \in 1 .. Len(L) /\ L[x] = P[i]
        BY <1>2, <1>3
    <2>3. 1 \in 1 .. Len(L[x])
        BY <2>1, <2>2
    <2>4. L[x][1] = Other
        BY <1>4, <2>2, <2>3
    <2>5. QED
        BY <2>1, <2>2, <2>4
<1> HIDE DEF P, L
<1>6. \A i \in 1 .. Len(toCtl) : \A j \in 1 .. Len(toCtl[i]) : toCtl[i][j] = Other
    BY <1>2, <1>3, <1>4
<1>7. \A i \in 1 .. Len(inbuf) : \A j \in 1 .. Len(inbuf[i]) : inbuf[i][j] = Other
    <2> SUFFICES ASSUME NEW i \in 1 .. Len(inbuf), NEW j \in 1 .. Len(inbuf[i])
                 PROVE  inbuf[i][j] = Other
        OBVIOUS
    <2>1. Len(toCtl) + i \in 1 .. Len(L) /\ L[Len(toCtl) + i] = inbuf[i]
        BY <1>2, <1>3
    <2>2. QED
        BY <1>4, <2>1
<1>8. Other \in QueriesFor(N)
    BY DEF QueriesFor
<1>9. pipe \in Seq(QueriesFor(N))
    BY <1>5, <1>8, SeqOf DEF TypeOK
<1>10. ASSUME NEW q \in Seq(Line), \A i \in 1 .. Len(q) : \A j \in 1 .. Len(q[i]) : q[i][j] = Other
       PROVE  q \in Seq(Seq(QueriesFor(N)) \ {<<>>})
    <2>1. ASSUME NEW i \in 1 .. Len(q) PROVE q[i] \in Seq(QueriesFor(N)) \ {<<>>}
        <3>1. q[i] \in Seq(Queries) /\ q[i] # <<>>
            BY ElementOfSeq DEF Line
        <3>2. \A j \in 1 .. Len(q[i]) : q[i][j] \in QueriesFor(N)
            BY <1>8, <1>10
        <3>3. QED
            BY <3>1, <3>2, SeqOf
    <2>2. QED
        BY <2>1, SeqOf
<1>11. QED
    BY <1>1, <1>6, <1>7, <1>9, <1>10, EmptySeq DEF StreamsFor, TypeOK

-----------------------------------------------------------------------------
(* A step keeps the streams free of other nodes' queries, unless the switch thread
   is about to write one. *)
LEMMA StreamsNext ==
    ASSUME NEW N, StreamsFor(N), [Next]_vars, writing # None => NodeOf[writing] \in N
    PROVE  StreamsFor(N)'
<1>1. CASE WriteQuery
    <2>1. pipe' = Append(pipe, Query(NodeOf[writing])) /\ NodeOf[writing] \in N
        BY <1>1 DEF WriteQuery
    <2>2. pipe' \in Seq(QueriesFor(N))
        BY <2>1, Writes
    <2>3. QED
        BY <1>1, <2>2 DEF WriteQuery, StreamsFor, wireVars
<1>2. CASE WriteStatus
    <2>1. Other \in QueriesFor(N)
        BY DEF QueriesFor
    <2>2. pipe' \in Seq(QueriesFor(N))
        BY <1>2, <2>1, AppendProperties DEF WriteStatus, StreamsFor
    <2>3. QED
        BY <1>2, <2>2 DEF WriteStatus, StreamsFor, wireVars
<1>3. CASE /\ UNCHANGED pipeVars /\ UNCHANGED wireVars
    BY <1>3 DEF pipeVars, wireVars, StreamsFor
<1>4. CASE ClearSlot \/ Deliver
    BY <1>3, <1>4 DEF ClearSlot, Deliver
<1>5. CASE PipeReadFreed \/ DeliverFreed
    BY <1>3, <1>5 DEF PipeReadFreed, DeliverFreed, Crash
<1>6. CASE \E s \in Session : Connect(s) \/ Request(s) \/ Disconnect(s)
    BY <1>3, <1>6 DEF Connect, Request, Disconnect
<1>7. CASE UNCHANGED vars
    BY <1>3, <1>7 DEF vars
<1>8. QED
    BY <1>1, <1>2, <1>4, <1>5, <1>6, <1>7, PipeReadStreams, ReadSlotStreams, CtlReadStreams,
       CutStreams DEF Next, ControlStep

-----------------------------------------------------------------------------
(* Types *)

LEMMA InitInv == Init => IInv
<1> SUFFICES ASSUME Init PROVE IInv
    OBVIOUS
<1>1. ASSUME NEW S PROVE <<>> \in Seq(S)
    BY EmptySeq
<1>2. TypeOK
    <2>1. got \in [Session -> Seq(Node)]
        BY <1>1 DEF Init
    <2>2. pipe \in Seq(Queries) /\ toCtl \in Seq(Line) /\ inbuf \in Seq(Line)
          /\ toSwitch \in Seq(Answers)
        BY <1>1 DEF Init
    <2>3. QED
        BY <2>1, <2>2 DEF Init, TypeOK
<1>3. Fresh /\ Held /\ OneAnswer /\ OwnFlight /\ OwnPassport
    <2>1. Fresh /\ Held /\ OwnFlight
        BY EnrollAssumption DEF Init, Fresh, Held, OwnFlight, Alone
    <2>2. \A s \in Session : got[s] = <<>> /\ Len(got[s]) = 0
        BY EmptySeq DEF Init
    <2>3. QED
        BY <2>1, <2>2 DEF OneAnswer, OwnPassport
<1>4. QED
    BY <1>2, <1>3 DEF IInv

Kinds == {"query", "other"}

LEMMA CompanyTypes ==
    ASSUME TypeOK
    PROVE  /\ InFlight \subseteq Kinds
           /\ \A kind \in Kinds : Joins(kind) \in [Session -> SUBSET Kinds]
BY DEF TypeOK, InFlight, Joins, Kinds

LEMMA NextType == ASSUME TypeOK, [Next]_vars PROVE TypeOK'
<1> DEFINE Held1 == [node : Node, session : Session \cup {None}, at : {"read", "cleared"}]
<1>1. StreamsFor(Node)'
    <2>1. writing # None => NodeOf[writing] \in Node
        BY EnrollAssumption DEF TypeOK
    <2>2. QED
        BY <2>1, TypeStreams, StreamsNext
<1>2. pipe' \in Seq(Queries) /\ toCtl' \in Seq(Line) /\ inbuf' \in Seq(Line)
      /\ toSwitch' \in Seq(Answers)
    BY <1>1, TypeStreams DEF StreamsFor, Line, Answers
<1>3. answering' = <<>> \/ answering' \in Held1
    <2>1. CASE ReadSlot
        <3>1. /\ \/ answering' = <<>>
                 \/ answering' = [node |-> Head(toSwitch).node, session |-> slot, at |-> "read"]
              /\ Head(toSwitch).node \in Node
            BY <2>1, ReadSlotStreams, TypeStreams
        <3>2. slot \in Session \cup {None}
            BY DEF TypeOK
        <3>3. QED
            BY <3>1, <3>2
    <2>2. CASE ClearSlot
        <3>1. answering \in Held1 /\ answering' = [answering EXCEPT !.at = "cleared"]
            BY <2>2 DEF ClearSlot, TypeOK
        <3>2. QED
            BY <3>1
    <2>3. CASE ~(ReadSlot \/ ClearSlot)
        <3>1. answering' = answering \/ answering' = <<>>
            BY <2>3 DEF Next, ControlStep, vars, Connect, Request, Disconnect, WriteQuery,
                WriteStatus, PipeRead, Deliver, PipeReadFreed, DeliverFreed, Crash, Cut,
                Reconnect, CtlRead
        <3>2. QED
            BY <3>1 DEF TypeOK
    <2>4. QED
        BY <2>1, <2>2, <2>3
<1>4. got' \in [Session -> Seq(Node)]
    <2>1. CASE Deliver
        <3>1. CASE UNCHANGED got
            BY <3>1 DEF TypeOK
        <3>2. CASE ~UNCHANGED got
            <4>1. /\ answering # <<>> /\ answering.session # None
                  /\ got' = [got EXCEPT ![answering.session] = Append(@, answering.node)]
                BY <2>1, <3>2 DEF Deliver
            <4>2. answering.session \in Session /\ answering.node \in Node
                BY <4>1 DEF TypeOK
            <4>3. Append(got[answering.session], answering.node) \in Seq(Node)
                BY <4>2, AppendProperties DEF TypeOK
            <4>4. QED
                BY <4>1, <4>2, <4>3 DEF TypeOK
        <3>3. QED
            BY <3>1, <3>2
    <2>2. CASE ~Deliver
        <3>1. UNCHANGED got
            BY <2>2 DEF Next, ControlStep, vars, Connect, Request, Disconnect, WriteQuery,
                WriteStatus, PipeRead, ReadSlot, ClearSlot, PipeReadFreed, DeliverFreed, Crash,
                Cut, Reconnect, CtlRead
        <3>2. QED
            BY <3>1 DEF TypeOK
    <2>3. QED
        BY <2>1, <2>2
<1>5. /\ session' \in [Session -> {"none", "open", "waiting", "freed"}]
      /\ writing' \in Session \cup {None} /\ slot' \in Session \cup {None}
    <2>1. \/ UNCHANGED session
          \/ \E s \in Session : \E v \in {"open", "waiting", "freed"} :
                session' = [session EXCEPT ![s] = v]
        BY DEF Next, ControlStep, vars, switchVars, Connect, Request, Disconnect, WriteQuery,
            WriteStatus, PipeRead, ReadSlot, ClearSlot, Deliver, PipeReadFreed, DeliverFreed,
            Crash, Cut, Reconnect, CtlRead
    <2>2. UNCHANGED writing \/ writing' = None \/ \E s \in Session : writing' = s
        BY DEF Next, ControlStep, vars, switchVars, Connect, Request, Disconnect, WriteQuery,
            WriteStatus, PipeRead, ReadSlot, ClearSlot, Deliver, PipeReadFreed, DeliverFreed,
            Crash, Cut, Reconnect, CtlRead
    <2>3. UNCHANGED slot \/ slot' = None \/ \E s \in Session : slot' = s
        BY DEF Next, ControlStep, vars, switchVars, Connect, Request, Disconnect, WriteQuery,
            WriteStatus, PipeRead, ReadSlot, ClearSlot, Deliver, PipeReadFreed, DeliverFreed,
            Crash, Cut, Reconnect, CtlRead, SlotAfterRequest, SlotAfterRead
    <2>4. session' \in [Session -> {"none", "open", "waiting", "freed"}]
        BY <2>1 DEF TypeOK
    <2>5. writing' \in Session \cup {None} /\ slot' \in Session \cup {None}
        BY <2>2, <2>3 DEF TypeOK
    <2>6. QED
        BY <2>4, <2>5
<1>6. up' \in BOOLEAN /\ undef' \in BOOLEAN
    BY DEF TypeOK, Next, ControlStep, vars, Connect, Request, Disconnect, WriteQuery, WriteStatus,
        PipeRead, ReadSlot, ClearSlot, Deliver, PipeReadFreed, DeliverFreed, Crash, Cut, Reconnect,
        CtlRead, pipeVars, Defined
<1>7. company' \in [Session -> SUBSET Kinds]
    <2>1. \/ UNCHANGED company
          \/ \E kind \in Kinds : company' = Joins(kind)
          \/ \E s \in Session : company' = [Joins("query") EXCEPT ![s] = InFlight]
        BY DEF Next, ControlStep, vars, Connect, Request, Disconnect, WriteQuery, WriteStatus,
            PipeRead, ReadSlot, ClearSlot, Deliver, PipeReadFreed, DeliverFreed, Crash, Cut,
            Reconnect, CtlRead, Kinds
    <2>2. QED
        BY <2>1, CompanyTypes DEF TypeOK, Kinds
<1>8. QED
    BY <1>2, <1>3, <1>4, <1>5, <1>6, <1>7 DEF TypeOK, Kinds

-----------------------------------------------------------------------------
(* At most one passport *)

Slots == <<session, slot, answering, got>>

LEMMA RequestFresh ==
    ASSUME TypeOK, Fresh, Held, OneAnswer, NEW s \in Session, Request(s)
    PROVE  (Fresh /\ Held /\ OneAnswer)'
<1>1. /\ session[s] = "open" /\ session' = [session EXCEPT ![s] = "waiting"]
      /\ slot' = s /\ answering' = answering /\ got' = got
    BY DEF Request, SlotAfterRequest
<1>2. Fresh'
    BY <1>1 DEF Fresh, TypeOK
<1>3. Held'
    BY <1>1 DEF Held, TypeOK
<1>4. QED
    BY <1>1, <1>2, <1>3 DEF OneAnswer

LEMMA DeliverFresh ==
    ASSUME TypeOK, Fresh, Held, OneAnswer, Deliver
    PROVE  (Fresh /\ Held /\ OneAnswer)'
<1>1. /\ answering # <<>> /\ answering.at = "cleared" /\ answering' = <<>>
      /\ session' = session /\ slot' = slot
    BY DEF Deliver, switchVars
<1>2. Held'
    BY <1>1 DEF Held
<1>3. CASE UNCHANGED got
    BY <1>1, <1>2, <1>3 DEF Fresh, OneAnswer
<1>4. CASE ~UNCHANGED got
    <2> DEFINE t == answering.session
    <2>1. /\ t \in Session /\ answering.node \in Node
          /\ got' = [got EXCEPT ![t] = Append(got[t], answering.node)]
        BY <1>1, <1>4 DEF Deliver, TypeOK
    <2>2. got[t] = <<>> /\ session[t] \in {"waiting", "freed"} /\ slot # t
        BY <1>1, <2>1, EnrollAssumption DEF Held
    <2>3. Len(Append(got[t], answering.node)) = 1
        <3>1. got[t] \in Seq(Node) /\ Len(got[t]) = 0
            BY <2>1, <2>2, EmptySeq DEF TypeOK
        <3>2. QED
            BY <2>1, <3>1, AppendProperties
    <2> HIDE DEF t
    <2>4. \A s \in Session : s # t => got'[s] = got[s]
        BY <2>1 DEF TypeOK
    <2>5. Len(got'[t]) = 1
        BY <2>1, <2>3 DEF TypeOK
    <2>6. Fresh'
        BY <1>1, <2>2, <2>4 DEF Fresh
    <2>7. OneAnswer'
        <3>1. ASSUME NEW s \in Session PROVE Len(got'[s]) <= 1
            <4>1. CASE s = t
                <5>1. Len(got'[s]) = 1
                    BY <2>5, <4>1, Zenon
                <5>2. QED
                    BY <5>1
            <4>2. CASE s # t
                BY <2>4, <4>2 DEF OneAnswer
            <4>3. QED
                BY <4>1, <4>2
        <3>2. QED
            BY <3>1 DEF OneAnswer
    <2>8. QED
        BY <1>2, <2>6, <2>7
<1>5. QED
    BY <1>3, <1>4

LEMMA NextFresh ==
    ASSUME TypeOK, Fresh, Held, OneAnswer, [Next]_vars
    PROVE  (Fresh /\ Held /\ OneAnswer)'
<1>1. ASSUME NEW s \in Session, Connect(s) \/ Disconnect(s)
      PROVE  (Fresh /\ Held /\ OneAnswer)'
    <2>1. /\ slot' = slot /\ answering' = answering /\ got' = got
          /\ \/ session[s] = "none" /\ session' = [session EXCEPT ![s] = "open"]
             \/ session' = [session EXCEPT ![s] = "freed"]
        BY <1>1 DEF Connect, Disconnect
    <2>2. Fresh'
        BY <2>1 DEF Fresh, TypeOK
    <2>3. Held'
        BY <2>1 DEF Held, TypeOK
    <2>4. QED
        BY <2>1, <2>2, <2>3 DEF OneAnswer
<1>2. CASE ReadSlot
    <2>1. /\ session' = session /\ slot' = slot /\ got' = got
          /\ \/ answering' = <<>>
             \/ answering' = [node |-> Head(toSwitch).node, session |-> slot, at |-> "read"]
        BY <1>2 DEF ReadSlot, switchVars
    <2>2. Held'
        <3>1. CASE answering' = <<>>
            BY <3>1 DEF Held
        <3>2. CASE answering' = [node |-> Head(toSwitch).node, session |-> slot, at |-> "read"]
            <4>1. answering'.session = slot /\ answering'.at = "read"
                BY <3>2
            <4>2. slot # None => got[slot] = <<>> /\ session[slot] \in {"waiting", "freed"}
                BY DEF Fresh, TypeOK
            <4>3. QED
                BY <2>1, <4>1, <4>2 DEF Held
        <3>3. QED
            BY <2>1, <3>1, <3>2
    <2>3. QED
        BY <2>1, <2>2 DEF Fresh, OneAnswer
<1>3. CASE ClearSlot
    <2>1. /\ answering # <<>> /\ session' = session /\ slot' = None /\ got' = got
          /\ answering' = [answering EXCEPT !.at = "cleared"]
        BY <1>3 DEF ClearSlot, SlotAfterRead, switchVars
    <2>2. answering'.session = answering.session
        BY <2>1 DEF TypeOK
    <2>3. Held'
        BY <2>1, <2>2 DEF Held
    <2>4. Fresh'
        BY <2>1, EnrollAssumption DEF Fresh
    <2>5. QED
        BY <2>1, <2>3, <2>4 DEF OneAnswer
<1>4. CASE UNCHANGED Slots
    BY <1>4 DEF Slots, Fresh, Held, OneAnswer
<1>5. CASE ~UNCHANGED Slots
    <2>1. \/ \E s \in Session : Connect(s) \/ Request(s) \/ Disconnect(s)
          \/ ReadSlot \/ ClearSlot \/ Deliver
        BY <1>5 DEF Slots, Next, ControlStep, vars, switchVars, WriteQuery, WriteStatus, PipeRead,
            PipeReadFreed, DeliverFreed, Crash, Cut, Reconnect, CtlRead
    <2>2. QED
        BY <2>1, <1>1, <1>2, <1>3, RequestFresh, DeliverFresh
<1>6. QED
    BY <1>4, <1>5

-----------------------------------------------------------------------------
(* One's own passport *)

LEMMA JoinsAdds ==
    ASSUME NEW kind, NEW s \in Session
    PROVE  company[s] \subseteq Joins(kind)[s]
<1>1. Joins(kind)[s] = IF session[s] = "waiting" THEN company[s] \cup {kind} ELSE company[s]
    BY DEF Joins
<1>2. QED
    BY <1>1

(* Only a request makes a session wait, and nothing leaves its company. *)
LEMMA StaysAlone ==
    ASSUME TypeOK, [Next]_vars, NEW s \in Session, Alone(s)',
           \A r \in Session : ~Request(r)
    PROVE  Alone(s)
<1>1. \/ UNCHANGED session
      \/ \E r \in Session : \E v \in {"open", "freed"} : session' = [session EXCEPT ![r] = v]
    BY DEF Next, ControlStep, vars, switchVars, Connect, Disconnect, WriteQuery,
        WriteStatus, PipeRead, ReadSlot, ClearSlot, Deliver, PipeReadFreed, DeliverFreed,
        Crash, Cut, Reconnect, CtlRead
<1>2. session[s] = "waiting"
    BY <1>1 DEF Alone, TypeOK
<1>3. UNCHANGED company \/ \E kind \in Kinds : company' = Joins(kind)
    BY DEF Next, ControlStep, vars, Connect, Disconnect, WriteQuery, WriteStatus,
        PipeRead, ReadSlot, ClearSlot, Deliver, PipeReadFreed, DeliverFreed,
        Crash, Cut, Reconnect, CtlRead, Kinds
<1>4. company[s] \subseteq company'[s]
    BY <1>3, JoinsAdds
<1>5. QED
    BY <1>2, <1>4 DEF Alone

LEMMA RequestOwn ==
    ASSUME TypeOK, NEW r \in Session, Request(r), NEW s \in Session, Alone(s)'
    PROVE  /\ s = r /\ "query" \notin InFlight
           /\ writing' = s /\ answering' = answering
           /\ UNCHANGED <<pipeVars, wireVars>>
<1>1. /\ session[r] = "open" /\ session' = [session EXCEPT ![r] = "waiting"]
      /\ company' = [Joins("query") EXCEPT ![r] = InFlight]
      /\ writing' = r /\ answering' = answering /\ UNCHANGED <<pipeVars, wireVars>>
    BY DEF Request
<1>2. s = r
    <2> SUFFICES ASSUME s # r PROVE FALSE
        OBVIOUS
    <2>1. session[s] = "waiting"
        BY <1>1 DEF Alone, TypeOK
    <2>2. company'[s] = company[s] \cup {"query"}
        BY <1>1, <2>1 DEF Joins
    <2>3. QED
        BY <2>2 DEF Alone
<1>3. company'[r] = InFlight
    BY <1>1 DEF Joins
<1>4. QED
    BY <1>1, <1>2, <1>3 DEF Alone

LEMMA NextOwn ==
    ASSUME TypeOK, OwnFlight, [Next]_vars
    PROVE  OwnFlight'
<1> SUFFICES ASSUME NEW s \in Session, Alone(s)'
             PROVE  /\ StreamsFor({NodeOf[s]})'
                    /\ writing' # None => NodeOf[writing'] = NodeOf[s]
                    /\ answering' # <<>> => answering'.node = NodeOf[s]
    BY DEF OwnFlight
<1>1. CASE \E r \in Session : Request(r)
    <2>1. /\ "query" \notin InFlight /\ writing' = s /\ answering' = answering
          /\ UNCHANGED <<pipeVars, wireVars>>
        BY <1>1, RequestOwn
    <2>2. StreamsFor({NodeOf[s]}) /\ answering = <<>>
        BY <2>1, QuietStreams
    <2>3. QED
        BY <2>1, <2>2 DEF StreamsFor, pipeVars, wireVars
<1>2. CASE \A r \in Session : ~Request(r)
    <2>1. /\ StreamsFor({NodeOf[s]})
          /\ writing # None => NodeOf[writing] = NodeOf[s]
          /\ answering # <<>> => answering.node = NodeOf[s]
        BY <1>2, StaysAlone DEF OwnFlight
    <2>2. StreamsFor({NodeOf[s]})'
        BY <2>1, StreamsNext
    <2>3. writing' = writing \/ writing' = None
        BY <1>2 DEF Next, ControlStep, vars, switchVars, Connect, Disconnect, WriteQuery,
            WriteStatus, PipeRead, ReadSlot, ClearSlot, Deliver, PipeReadFreed, DeliverFreed,
            Crash, Cut, Reconnect, CtlRead
    <2>4. answering' # <<>> => answering'.node = NodeOf[s]
        <3>1. CASE ReadSlot
            <4>1. /\ Head(toSwitch).node \in {NodeOf[s]}
                  /\ \/ answering' = <<>>
                     \/ answering' = [node |-> Head(toSwitch).node, session |-> slot, at |-> "read"]
                BY <2>1, <3>1, ReadSlotStreams
            <4>2. QED
                BY <4>1
        <3>2. CASE ClearSlot
            BY <2>1, <3>2 DEF ClearSlot, TypeOK
        <3>3. CASE ~(ReadSlot \/ ClearSlot)
            <4>1. answering' = answering \/ answering' = <<>>
                BY <3>3 DEF Next, ControlStep, vars, Connect, Request, Disconnect, WriteQuery,
                    WriteStatus, PipeRead, Deliver, PipeReadFreed, DeliverFreed, Crash, Cut,
                    Reconnect, CtlRead
            <4>2. QED
                BY <2>1, <4>1
        <3>4. QED
            BY <3>1, <3>2, <3>3
    <2>5. QED
        BY <2>1, <2>2, <2>3, <2>4
<1>3. QED
    BY <1>1, <1>2

LEMMA NextPassport ==
    ASSUME IInv, [Next]_vars
    PROVE  OwnPassport'
<1> SUFFICES ASSUME NEW s \in Session, NEW i \in 1 .. Len(got'[s]), "query" \notin company'[s]
             PROVE  got'[s][i] = NodeOf[s]
    BY DEF OwnPassport
<1> USE DEF IInv
<1>1. CASE UNCHANGED got
    <2>1. CASE \E r \in Session : Request(r)
        <3>1. PICK r \in Session : Request(r)
            BY <2>1
        <3>2. CASE s = r
            <4>1. got[s] = <<>>
                BY <3>1, <3>2 DEF Request, Fresh
            <4>2. QED
                BY <1>1, <4>1, EmptySeq
        <3>3. CASE s # r
            <4>1. company[s] \subseteq company'[s]
                <5>1. company'[s] = Joins("query")[s]
                    BY <3>1, <3>3 DEF Request, Joins
                <5>2. QED
                    BY <5>1, JoinsAdds
            <4>2. QED
                BY <1>1, <4>1 DEF OwnPassport
        <3>4. QED
            BY <3>2, <3>3
    <2>2. CASE \A r \in Session : ~Request(r)
        <3>1. UNCHANGED company \/ \E kind \in Kinds : company' = Joins(kind)
            BY <2>2 DEF Next, ControlStep, vars, Connect, Disconnect, WriteQuery, WriteStatus,
                PipeRead, ReadSlot, ClearSlot, Deliver, PipeReadFreed, DeliverFreed,
                Crash, Cut, Reconnect, CtlRead, Kinds
        <3>2. company[s] \subseteq company'[s]
            BY <3>1, JoinsAdds
        <3>3. QED
            BY <1>1, <3>2 DEF OwnPassport
    <2>3. QED
        BY <2>1, <2>2
<1>2. CASE ~UNCHANGED got
    <2>1. Deliver
        BY <1>2 DEF Next, ControlStep, vars, Connect, Request, Disconnect, WriteQuery,
            WriteStatus, PipeRead, ReadSlot, ClearSlot, PipeReadFreed, DeliverFreed, Crash,
            Cut, Reconnect, CtlRead
    <2> DEFINE t == answering.session
    <2>2. /\ answering # <<>> /\ t \in Session /\ answering.node \in Node /\ session[t] # "freed"
          /\ got' = [got EXCEPT ![t] = Append(got[t], answering.node)] /\ company' = company
        BY <1>2, <2>1 DEF Deliver, TypeOK
    <2>3. got[t] = <<>> /\ session[t] = "waiting"
        BY <2>2, EnrollAssumption DEF Held
    <2> HIDE DEF t
    <2>4. CASE s = t
        <3>1. answering.node = NodeOf[s]
            BY <2>2, <2>3, <2>4 DEF OwnFlight, Alone
        <3>2. got'[s] = <<answering.node>>
            BY <2>2, <2>3, <2>4 DEF TypeOK
        <3>3. i = 1
            BY <3>2
        <3>4. QED
            BY <3>1, <3>2, <3>3
    <2>5. CASE s # t
        BY <2>2, <2>5 DEF OwnPassport, TypeOK
    <2>6. QED
        BY <2>4, <2>5
<1>3. QED
    BY <1>1, <1>2

LEMMA NextInv == IInv /\ [Next]_vars => IInv'
BY NextType, NextFresh, NextOwn, NextPassport DEF IInv

-----------------------------------------------------------------------------
(* The inductive invariant. *)
THEOREM Inductive == Spec => []IInv
BY InitInv, NextInv, PTL DEF Spec

(* The variables, with the contents of all streams, keep their types. *)
THEOREM TypeCorrect == Spec => []TypeOK
BY Inductive, PTL DEF IInv

(* The single slot and two threads give no session two passports. *)
THEOREM AnsweredOnce == Spec => []OneAnswer
BY Inductive, PTL DEF IInv

(* Whoever provisions alone gets its own passport, whatever else is in flight. *)
THEOREM PassportsOwn == Spec => []OwnPassport
BY Inductive, PTL DEF IInv
=============================================================================
