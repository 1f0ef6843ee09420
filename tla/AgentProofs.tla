---------------------------- MODULE AgentProofs ----------------------------
(***************************************************************************)
(* For any number of threads and connections, and whatever breaks when:    *)
(* the agent has one connection at a time, the connection its session      *)
(* holds is live, it is never left without a thread or a connection that   *)
(* will start one, and it counts as authenticated only when the switch has *)
(* authenticated the same connection.                                      *)
(***************************************************************************)
EXTENDS Agent, SequenceTheorems, TLAPS

(* The message sequence s holds one of M. *)
Has(s, M) == \E i \in 1 .. Len(s) : s[i] \in M

Connecting(t) == pc[t] \in {"registered", "made", "marked", "stored"}

(* What a connecting thread holds. *)
ThreadInv ==
    \A t \in Thread : Connecting(t) =>
        /\ mine[t] \in Conn /\ conn[mine[t]] # "none"
        /\ pc[t] # "registered" => attached[mine[t]]
        /\ pc[t] = "stored" => netc = mine[t]
        /\ pc[t] \in {"marked", "stored"} => state = "NOT_AUTHED"

OneThread == \A t, u \in Working : t = u

(* A connection that leads to the session was handed over by its thread. *)
Handed ==
    \A k \in Conn : ext[k] =>
        /\ conn[k] = "open" /\ attached[k] /\ netc = k
        /\ state # "DOWN" /\ Working = {}

(* Every open connection leads to the session or belongs to a thread. *)
Owned ==
    \A k \in Conn : conn[k] = "open"
        => ext[k] \/ \E t \in Thread : Connecting(t) /\ mine[t] = k

StateInv == state \in {"WAIT_ANSWER", "AUTHED"} => netc # 0 /\ ext[netc]

Shape == ThreadInv /\ OneThread /\ Handed /\ Owned /\ StateInv /\ NeverStranded

(* Success, and what follows it, is on its way only once the switch has
   authenticated the connection. *)
Fresh == \A k \in Conn : conn[k] = "none" => toSwitch[k] = <<>> /\ toAgent[k] = <<>>

AfterSuccess ==
    \A k \in Conn :
        /\ Has(toAgent[k], {"success", "netinfoResponse"}) => server[k] = "AUTHED"
        /\ Has(toSwitch[k], {"netinfoRequest"}) => server[k] = "AUTHED"

Messages == Fresh /\ AfterSuccess /\ AuthedBySwitch

IInv == TypeOK /\ Shape /\ Messages

-----------------------------------------------------------------------------
LEMMA HasEmpty == ASSUME NEW M PROVE ~Has(<<>>, M)
BY DEF Has

LEMMA HasAppend ==
    ASSUME NEW S, NEW s \in Seq(S), NEW m, NEW M, Has(Append(s, m), M)
    PROVE  Has(s, M) \/ m \in M
<1>1. PICK i \in 1 .. Len(Append(s, m)) : Append(s, m)[i] \in M
    BY DEF Has
<1>2. Len(Append(s, m)) = Len(s) + 1 /\ Len(s) \in Nat
    OBVIOUS
<1>3. CASE i = Len(s) + 1
    BY <1>1, <1>3
<1>4. CASE i \in 1 .. Len(s)
    BY <1>1, <1>4 DEF Has
<1>5. QED
    BY <1>1, <1>2, <1>3, <1>4

LEMMA HasTail ==
    ASSUME NEW S, NEW s \in Seq(S), s # <<>>, NEW M
    PROVE  /\ Has(Tail(s), M) => Has(s, M)
           /\ Head(s) \in M => Has(s, M)
<1>1. Len(s) \in Nat \ {0} /\ Len(Tail(s)) = Len(s) - 1 /\ Head(s) = s[1]
    OBVIOUS
<1>2. \A i \in 1 .. Len(Tail(s)) : Tail(s)[i] = s[i + 1] /\ i + 1 \in 1 .. Len(s)
    BY <1>1
<1>3. QED
    BY <1>1, <1>2 DEF Has

(* Sending and replying add one message at most to one connection. *)
LEMMA SendFacts ==
    ASSUME TypeOK, NEW k \in Conn, NEW m \in ToSwitch, Send(k, m)
    PROVE  /\ toSwitch' \in [Conn -> Seq(ToSwitch)]
           /\ \A j \in Conn : j # k => toSwitch'[j] = toSwitch[j]
           /\ \A M : m \notin M => (Has(toSwitch'[k], M) => Has(toSwitch[k], M))
<1>1. toSwitch \in [Conn -> Seq(ToSwitch)] /\ toSwitch[k] \in Seq(ToSwitch)
    BY DEF TypeOK
<1>2. CASE broken[k]
    BY <1>1, <1>2 DEF Send
<1>3. CASE ~broken[k]
    <2>1. toSwitch' = [toSwitch EXCEPT ![k] = Append(@, m)] /\ Append(toSwitch[k], m) \in Seq(ToSwitch)
        BY <1>1, <1>3 DEF Send
    <2>2. toSwitch'[k] = Append(toSwitch[k], m)
        BY <1>1, <2>1
    <2>3. \A M : m \notin M => (Has(toSwitch'[k], M) => Has(toSwitch[k], M))
        BY <1>1, <2>2, HasAppend
    <2>4. QED
        BY <1>1, <2>1, <2>3
<1>4. QED
    BY <1>2, <1>3

LEMMA ReplyFacts ==
    ASSUME TypeOK, NEW k \in Conn, NEW m \in ToAgent, Reply(k, m)
    PROVE  /\ toAgent' \in [Conn -> Seq(ToAgent)]
           /\ \A j \in Conn : j # k => toAgent'[j] = toAgent[j]
           /\ \A M : m \notin M => (Has(toAgent'[k], M) => Has(toAgent[k], M))
<1>1. toAgent \in [Conn -> Seq(ToAgent)] /\ toAgent[k] \in Seq(ToAgent)
    BY DEF TypeOK
<1>2. toAgent' = [toAgent EXCEPT ![k] = Append(@, m)] /\ Append(toAgent[k], m) \in Seq(ToAgent)
    BY <1>1 DEF Reply
<1>3. toAgent'[k] = Append(toAgent[k], m)
    BY <1>1, <1>2
<1>4. \A M : m \notin M => (Has(toAgent'[k], M) => Has(toAgent[k], M))
    BY <1>1, <1>3, HasAppend
<1>5. QED
    BY <1>1, <1>2, <1>4

-----------------------------------------------------------------------------
LEMMA InitInv == Init => IInv
<1> SUFFICES ASSUME Init PROVE IInv
    OBVIOUS
<1>1. TypeOK
    <2>1. <<>> \in Seq(ToSwitch) /\ <<>> \in Seq(ToAgent) /\ 0 \in 0 .. MaxConn
        BY AgentAssumption
    <2>2. QED
        BY <2>1 DEF Init, TypeOK
<1>2. Shape
    <2>1. PICK t \in Thread : pc = [u \in Thread |-> IF u = t THEN "sleep" ELSE "none"]
        BY DEF Init
    <2>2. Working = {t}
        BY <2>1 DEF Working
    <2>3. \A u \in Thread : ~Connecting(u)
        BY <2>1 DEF Connecting
    <2>4. QED
        BY <2>2, <2>3 DEF Init, Shape, ThreadInv, OneThread, Handed, Owned, StateInv, NeverStranded
<1>3. Messages
    BY HasEmpty DEF Init, Messages, Fresh, AfterSuccess, AuthedBySwitch
<1>4. QED
    BY <1>1, <1>2, <1>3 DEF IInv

-----------------------------------------------------------------------------
(* While a thread is at work no connection leads to the session, every other
   thread has ended and the session is neither waiting nor authenticated. *)
LEMMA Exclusive ==
    ASSUME TypeOK, Shape, NEW t \in Thread, pc[t] # "none"
    PROVE  /\ \A k \in Conn : ~ext[k]
           /\ \A u \in Thread : u # t => pc[u] = "none"
           /\ state \notin {"WAIT_ANSWER", "AUTHED"}
           /\ \A k \in Conn : conn[k] = "open" => Connecting(t) /\ mine[t] = k
<1>1. t \in Working
    BY DEF Working
<1>2. \A k \in Conn : ~ext[k]
    BY <1>1 DEF Shape, Handed
<1>3. \A u \in Thread : u # t => pc[u] = "none"
    BY <1>1 DEF Shape, OneThread, Working
<1>4. state \notin {"WAIT_ANSWER", "AUTHED"}
    <2>1. netc # 0 => netc \in Conn
        BY AgentAssumption DEF TypeOK, Conn
    <2>2. QED
        BY <1>2, <2>1 DEF Shape, StateInv
<1>5. \A k \in Conn : conn[k] = "open" => Connecting(t) /\ mine[t] = k
    BY <1>2, <1>3 DEF Shape, Owned, Connecting
<1>6. QED
    BY <1>2, <1>3, <1>4, <1>5

LEMMA ConnectShape ==
    ASSUME TypeOK, Shape, NEW t \in Thread, NEW k \in Conn, Connect(t, k)
    PROVE  Shape'
<1>1. /\ pc[t] = "sleep" /\ pc' = [pc EXCEPT ![t] = "registered"]
      /\ mine' = [mine EXCEPT ![t] = k] /\ conn' = [conn EXCEPT ![k] = "open"]
      /\ UNCHANGED <<state, netc, attached, ext>>
    BY DEF Connect, sessionVars
<1>2. /\ \A j \in Conn : ~ext[j] /\ conn[j] # "open"
      /\ \A u \in Thread : u # t => pc[u] = "none"
      /\ state \notin {"WAIT_ANSWER", "AUTHED"}
    BY <1>1, Exclusive DEF Connecting
<1>3. /\ pc'[t] = "registered" /\ mine'[t] = k /\ conn'[k] = "open"
      /\ \A u \in Thread : u # t => pc'[u] = "none"
      /\ \A j \in Conn : j # k => conn'[j] = conn[j]
    BY <1>1, <1>2 DEF TypeOK
<1>4. ThreadInv'
    BY <1>3 DEF ThreadInv, Connecting
<1>5. Owned'
    BY <1>2, <1>3 DEF Owned, Connecting
<1>6. Working' = {t}
    BY <1>3 DEF Working
<1>7. OneThread' /\ Handed' /\ StateInv' /\ NeverStranded'
    BY <1>1, <1>2, <1>6 DEF OneThread, Handed, StateInv, NeverStranded
<1>8. QED
    BY <1>4, <1>5, <1>7 DEF Shape

(* Attach, MarkState and StoreNetc move their thread on and leave it at work. *)
LEMMA ThreadShape ==
    ASSUME TypeOK, Shape, NEW t \in Thread, Attach(t) \/ MarkState(t) \/ StoreNetc(t)
    PROVE  Shape'
<1>1. /\ Connecting(t)
      /\ pc'[t] \in {"made", "marked", "stored"}
      /\ \A u \in Thread : u # t => pc'[u] = pc[u]
      /\ UNCHANGED <<mine, conn, ext>>
    BY DEF Attach, MarkState, StoreNetc, sessionVars, connVars, TypeOK, Connecting
<1>2. /\ \A j \in Conn : ~ext[j]
      /\ \A u \in Thread : u # t => pc[u] = "none"
      /\ state \notin {"WAIT_ANSWER", "AUTHED"}
      /\ \A k \in Conn : conn[k] = "open" => mine[t] = k
    BY <1>1, Exclusive DEF Connecting
<1>3. mine[t] \in Conn /\ conn[mine[t]] # "none" /\ (pc[t] # "registered" => attached[mine[t]])
    BY <1>1 DEF Shape, ThreadInv
<1>4. /\ attached'[mine[t]]
      /\ pc'[t] = "stored" => netc' = mine[t]
      /\ pc'[t] \in {"marked", "stored"} => state' = "NOT_AUTHED"
      /\ state' \notin {"WAIT_ANSWER", "AUTHED"}
    BY <1>1, <1>2, <1>3 DEF Shape, ThreadInv, Connecting, Attach, MarkState, StoreNetc, sessionVars, connVars, TypeOK
<1>5. ThreadInv'
    BY <1>1, <1>2, <1>3, <1>4 DEF ThreadInv, Connecting
<1>6. Working' = {t}
    BY <1>1, <1>2 DEF Working
<1>7. OneThread' /\ Handed' /\ Owned' /\ StateInv' /\ NeverStranded'
    BY <1>1, <1>2, <1>4, <1>6 DEF OneThread, Handed, Owned, StateInv, NeverStranded, Connecting
<1>8. QED
    BY <1>5, <1>7 DEF Shape

LEMMA StoreExtShape ==
    ASSUME TypeOK, Shape, NEW t \in Thread, StoreExt(t)
    PROVE  Shape'
<1> DEFINE k == mine[t]
<1>1. /\ pc[t] = "stored" /\ conn[k] = "open"
      /\ pc' = [pc EXCEPT ![t] = "none"] /\ ext' = [ext EXCEPT ![k] = TRUE]
      /\ UNCHANGED <<state, netc, mine, conn, attached>>
    BY DEF StoreExt, sessionVars, AfterConnect
<1>2. /\ \A j \in Conn : ~ext[j]
      /\ \A u \in Thread : u # t => pc[u] = "none"
      /\ state \notin {"WAIT_ANSWER", "AUTHED"}
      /\ \A j \in Conn : conn[j] = "open" => j = k
    BY <1>1, Exclusive
<1>3. k \in Conn /\ attached[k] /\ netc = k /\ state = "NOT_AUTHED"
    BY <1>1 DEF Shape, ThreadInv, Connecting
<1>4. /\ \A u \in Thread : pc'[u] = "none"
      /\ ext'[k] /\ \A j \in Conn : j # k => ~ext'[j]
    BY <1>1, <1>2, <1>3 DEF TypeOK
<1>5. Working' = {}
    BY <1>4 DEF Working
<1>6. ThreadInv' /\ OneThread' /\ StateInv'
    BY <1>1, <1>2, <1>4, <1>5 DEF ThreadInv, OneThread, StateInv, Connecting
<1>7. Handed' /\ Owned' /\ NeverStranded'
    BY <1>1, <1>2, <1>3, <1>4, <1>5 DEF Handed, Owned, NeverStranded
<1>8. QED
    BY <1>6, <1>7 DEF Shape

(* A lost connection that leads to the session starts a thread; any other one
   belongs to a thread at work. *)
LEMMA LostShape ==
    ASSUME TypeOK, Shape, NEW k \in Conn, Lost(k)
    PROVE  Shape'
<1>1. /\ conn[k] = "open"
      /\ conn' = [conn EXCEPT ![k] = "freed"] /\ ext' = [ext EXCEPT ![k] = FALSE]
      /\ UNCHANGED <<netc, mine, attached>>
    BY DEF Lost
<1>2. /\ conn'[k] = "freed" /\ ~ext'[k]
      /\ \A j \in Conn : j # k => conn'[j] = conn[j] /\ ext'[j] = ext[j]
    BY <1>1 DEF TypeOK
<1>3. CASE ext[k]
    <2>1. attached[k] /\ netc = k /\ Working = {}
        BY <1>3 DEF Shape, Handed
    <2>2. \A j \in Conn : j # k => ~ext[j] /\ conn[j] # "open"
        <3>1. \A u \in Thread : ~Connecting(u)
            BY <2>1 DEF Working, Connecting
        <3>2. \A j \in Conn : ext[j] => j = k
            BY <2>1 DEF Shape, Handed
        <3>3. QED
            BY <3>1, <3>2 DEF Shape, Owned
    <2>3. state' = "DOWN" /\ \E t \in Thread : pc[t] = "none" /\ pc' = [pc EXCEPT ![t] = "sleep"]
        BY <1>3, <2>1 DEF Lost, StateAfterLoss, Respawn, Shape, Handed
    <2>4. PICK t \in Thread : pc' = [pc EXCEPT ![t] = "sleep"]
        BY <2>3
    <2>5. pc'[t] = "sleep" /\ \A u \in Thread : u # t => pc'[u] = "none"
        BY <2>1, <2>4 DEF TypeOK, Working
    <2>6. Working' = {t}
        BY <2>5 DEF Working
    <2>7. \A j \in Conn : ~ext'[j] /\ conn'[j] # "open"
        BY <1>2, <2>2
    <2>8. ThreadInv'
        BY <2>5 DEF ThreadInv, Connecting
    <2>9. OneThread' /\ Handed' /\ Owned' /\ StateInv' /\ NeverStranded'
        BY <2>3, <2>6, <2>7 DEF OneThread, Handed, Owned, StateInv, NeverStranded
    <2>10. QED
        BY <2>8, <2>9 DEF Shape
<1>4. CASE ~ext[k]
    <2>1. UNCHANGED <<state, pc>>
        BY <1>4 DEF Lost
    <2>2. PICK t \in Thread : Connecting(t) /\ mine[t] = k
        BY <1>1, <1>4 DEF Shape, Owned
    <2>3. /\ \A j \in Conn : ~ext[j]
          /\ \A u \in Thread : u # t => pc[u] = "none"
          /\ state \notin {"WAIT_ANSWER", "AUTHED"}
          /\ \A j \in Conn : conn[j] = "open" => mine[t] = j
        BY <2>2, Exclusive DEF Connecting
    <2>4. ThreadInv'
        BY <1>1, <1>2, <2>1, <2>2, <2>3 DEF Shape, ThreadInv, Connecting
    <2>5. Working' = Working /\ t \in Working
        BY <2>1, <2>2 DEF Working, Connecting
    <2>6. \A j \in Conn : ~ext'[j] /\ conn'[j] # "open"
        BY <1>2, <2>2, <2>3
    <2>7. OneThread' /\ Handed' /\ Owned' /\ StateInv' /\ NeverStranded'
        BY <1>1, <2>1, <2>3, <2>5, <2>6 DEF Shape, OneThread, Handed, Owned, StateInv, NeverStranded
    <2>8. QED
        BY <2>4, <2>7 DEF Shape
<1>5. QED
    BY <1>3, <1>4

(* A message is handled only on the connection of the session, and leaves a
   session that is not down. *)
LEMMA InputShape ==
    ASSUME TypeOK, Shape, NEW k \in Conn, Input(k)
    PROVE  Shape'
<1>1. ext[k] /\ UNCHANGED <<netc, threadVars, connVars>>
    BY DEF Input
<1>2. state' \in {state, "WAIT_ANSWER", "AUTHED"}
    BY DEF Input, OnSecure, Register, OpProvResponse, AfterProvision, OpAuthResponse, OpNetinfoResponse
<1>3. /\ conn[k] = "open" /\ attached[k] /\ netc = k /\ netc # 0
      /\ state # "DOWN" /\ Working = {} /\ \A t \in Thread : pc[t] = "none"
    BY <1>1, AgentAssumption DEF Shape, Handed, Conn, Working
<1>4. ThreadInv' /\ OneThread' /\ Owned' /\ NeverStranded'
    BY <1>1, <1>3 DEF Shape, ThreadInv, OneThread, Owned, NeverStranded, Connecting, Working,
                      threadVars, connVars
<1>5. Handed' /\ StateInv'
    BY <1>1, <1>2, <1>3 DEF Shape, Handed, StateInv, Working, threadVars, connVars
<1>6. QED
    BY <1>4, <1>5 DEF Shape

LEMMA StutterShape ==
    ASSUME Shape, UNCHANGED <<state, netc, threadVars, conn, attached, ext>>
    PROVE  Shape'
BY DEF Shape, ThreadInv, OneThread, Handed, Owned, StateInv, NeverStranded, Connecting, Working,
       threadVars

LEMMA NextShape == ASSUME TypeOK, Shape, [Next]_vars PROVE Shape'
<1>1. ASSUME NEW t \in Thread, ThreadStep(t) PROVE Shape'
    BY <1>1, ConnectShape, ThreadShape, StoreExtShape, StutterShape
       DEF ThreadStep, UseFreed, sessionVars, connVars
<1>2. ASSUME NEW k \in Conn, LoopStep(k) PROVE Shape'
    BY <1>2, LostShape, InputShape DEF LoopStep
<1>3. ASSUME NEW t \in Thread, ListMoved(t) PROVE Shape'
    BY <1>3, StutterShape DEF ListMoved, sessionVars, connVars
<1>4. ASSUME NEW k \in Conn, LoopUndefined(k) \/ Serve(k) \/ Break(k) PROVE Shape'
    BY <1>4, StutterShape DEF LoopUndefined, Serve, Break, sessionVars, connVars
<1>5. CASE UNCHANGED vars
    BY <1>5, StutterShape DEF vars, sessionVars, connVars
<1>6. QED
    BY <1>1, <1>2, <1>3, <1>4, <1>5 DEF Next

-----------------------------------------------------------------------------
(* What the loop and the switch do to the messages of a connection. *)
LEMMA InputMessages ==
    ASSUME TypeOK, NEW k \in Conn, Input(k)
    PROVE  /\ toSwitch' \in [Conn -> Seq(ToSwitch)] /\ toAgent' \in [Conn -> Seq(ToAgent)]
           /\ \A j \in Conn : j # k => toSwitch'[j] = toSwitch[j] /\ toAgent'[j] = toAgent[j]
           /\ \A M : Has(toAgent'[k], M) => Has(toAgent[k], M)
           /\ Head(toAgent[k]) # "success" => (Has(toSwitch'[k], {"netinfoRequest"}) => Has(toSwitch[k], {"netinfoRequest"}))
           /\ \A M : Head(toAgent[k]) \in M => Has(toAgent[k], M)
<1> DEFINE m == Head(toAgent[k])
<1>1. /\ toAgent[k] \in Seq(ToAgent) /\ toAgent[k] # <<>>
      /\ toAgent' = [toAgent EXCEPT ![k] = Tail(@)]
    BY DEF Input, TypeOK
<1>2. Tail(toAgent[k]) \in Seq(ToAgent) /\ toAgent'[k] = Tail(toAgent[k])
    BY <1>1 DEF TypeOK
<1>3. toAgent' \in [Conn -> Seq(ToAgent)] /\ \A j \in Conn : j # k => toAgent'[j] = toAgent[j]
    BY <1>1, <1>2 DEF TypeOK
<1>4. \A M : /\ Has(toAgent'[k], M) => Has(toAgent[k], M)
             /\ m \in M => Has(toAgent[k], M)
    BY <1>1, <1>2, HasTail
<1>5. \/ UNCHANGED toSwitch
      \/ \E n \in {"authRequest", "provRequest", "rehello"} : Send(k, n)
      \/ m = "success" /\ Send(k, "netinfoRequest")
    BY DEF Input, OnSecure, Register, OpProvResponse, AfterProvision, OpAuthResponse,
           AsksNetinfo, OpNetinfoResponse
<1>6. CASE UNCHANGED toSwitch
    BY <1>3, <1>4, <1>6 DEF TypeOK
<1>7. ASSUME NEW n \in {"authRequest", "provRequest", "rehello"}, Send(k, n)
      PROVE  /\ toSwitch' \in [Conn -> Seq(ToSwitch)]
             /\ \A j \in Conn : j # k => toSwitch'[j] = toSwitch[j]
             /\ Has(toSwitch'[k], {"netinfoRequest"}) => Has(toSwitch[k], {"netinfoRequest"})
    <2>1. n \in ToSwitch /\ n \notin {"netinfoRequest"}
        BY DEF ToSwitch
    <2>2. QED
        BY <1>7, <2>1, SendFacts
<1>8. ASSUME m = "success", Send(k, "netinfoRequest")
      PROVE  /\ toSwitch' \in [Conn -> Seq(ToSwitch)]
             /\ \A j \in Conn : j # k => toSwitch'[j] = toSwitch[j]
    <2>1. "netinfoRequest" \in ToSwitch
        BY DEF ToSwitch
    <2>2. QED
        BY <1>8, <2>1, SendFacts
<1>9. QED
    BY <1>3, <1>4, <1>5, <1>6, <1>7, <1>8

LEMMA ServeMessages ==
    ASSUME TypeOK, NEW k \in Conn, Serve(k)
    PROVE  /\ toSwitch' \in [Conn -> Seq(ToSwitch)] /\ toAgent' \in [Conn -> Seq(ToAgent)]
           /\ \A j \in Conn : j # k => toSwitch'[j] = toSwitch[j] /\ toAgent'[j] = toAgent[j]
           /\ \A M : Has(toSwitch'[k], M) => Has(toSwitch[k], M)
           /\ \/ Has(toAgent'[k], {"success", "netinfoResponse"}) => Has(toAgent[k], {"success", "netinfoResponse"})
              \/ server'[k] = "AUTHED"
              \/ Has(toSwitch[k], {"netinfoRequest"}) /\ UNCHANGED server
           /\ server' \in [Conn -> {"none", "NOT_AUTHED", "WAIT_STEPUP", "AUTHED"}]
           /\ \A j \in Conn : server[j] = "AUTHED" => server'[j] = "AUTHED"
<1> DEFINE m == Head(toSwitch[k])
           S == {"success", "netinfoResponse"}
<1>1. /\ toSwitch[k] \in Seq(ToSwitch) /\ toSwitch[k] # <<>>
      /\ toSwitch' = [toSwitch EXCEPT ![k] = Tail(@)]
    BY DEF Serve, TypeOK
<1>2. Tail(toSwitch[k]) \in Seq(ToSwitch) /\ toSwitch'[k] = Tail(toSwitch[k])
    BY <1>1 DEF TypeOK
<1>3. toSwitch' \in [Conn -> Seq(ToSwitch)] /\ \A j \in Conn : j # k => toSwitch'[j] = toSwitch[j]
    BY <1>1, <1>2 DEF TypeOK
<1>4. \A M : /\ Has(toSwitch'[k], M) => Has(toSwitch[k], M)
             /\ m \in M => Has(toSwitch[k], M)
    BY <1>1, <1>2, HasTail
<1>5. \/ UNCHANGED <<toAgent, server>>
      \/ \E n \in {"finished", "provResponse", "noRight"} : Reply(k, n) /\ UNCHANGED server
      \/ /\ server[k] = "NOT_AUTHED" /\ Reply(k, "stepUp")
         /\ server' = [server EXCEPT ![k] = "WAIT_STEPUP"]
      \/ Reply(k, "success") /\ server' = [server EXCEPT ![k] = "AUTHED"]
      \/ m = "netinfoRequest" /\ Reply(k, "netinfoResponse") /\ UNCHANGED server
    BY DEF Serve, AuthRequest, OnSecureSwitch
<1>6. server \in [Conn -> {"none", "NOT_AUTHED", "WAIT_STEPUP", "AUTHED"}]
    BY DEF TypeOK
<1>7. /\ server' \in [Conn -> {"none", "NOT_AUTHED", "WAIT_STEPUP", "AUTHED"}]
      /\ \A j \in Conn : server[j] = "AUTHED" => server'[j] = "AUTHED"
    BY <1>5, <1>6
<1>8. {"finished", "provResponse", "noRight", "stepUp", "success", "netinfoResponse"} \subseteq ToAgent
    BY DEF ToAgent
<1>9. CASE UNCHANGED <<toAgent, server>>
    BY <1>3, <1>4, <1>7, <1>9 DEF TypeOK
<1>10. ASSUME NEW n \in {"finished", "provResponse", "noRight", "stepUp"}, Reply(k, n)
       PROVE  /\ toAgent' \in [Conn -> Seq(ToAgent)]
              /\ \A j \in Conn : j # k => toAgent'[j] = toAgent[j]
              /\ Has(toAgent'[k], S) => Has(toAgent[k], S)
    <2>1. n \in ToAgent /\ n \notin S
        BY <1>8
    <2>2. QED
        BY <1>10, <2>1, ReplyFacts
<1>11. ASSUME NEW n \in S, Reply(k, n)
       PROVE  /\ toAgent' \in [Conn -> Seq(ToAgent)]
              /\ \A j \in Conn : j # k => toAgent'[j] = toAgent[j]
    <2>1. n \in ToAgent
        BY <1>8
    <2>2. QED
        BY <1>11, <2>1, ReplyFacts
<1>12. CASE /\ Reply(k, "success") /\ server' = [server EXCEPT ![k] = "AUTHED"]
    BY <1>3, <1>4, <1>6, <1>7, <1>11, <1>12
<1>13. CASE m = "netinfoRequest" /\ Reply(k, "netinfoResponse") /\ UNCHANGED server
    BY <1>3, <1>4, <1>7, <1>11, <1>13
<1>14. QED
    BY <1>3, <1>4, <1>5, <1>7, <1>9, <1>10, <1>12, <1>13

-----------------------------------------------------------------------------
(* A connecting thread works on a connection that was made. *)
LEMMA ThreadOnConn ==
    ASSUME Shape, NEW t \in Thread, pc[t] \in {"registered", "made", "marked", "stored"}
    PROVE  mine[t] \in Conn
BY DEF Shape, ThreadInv, Connecting

LEMMA AttachMessages ==
    ASSUME TypeOK, Shape, NEW t \in Thread, Attach(t)
    PROVE  /\ toSwitch' \in [Conn -> Seq(ToSwitch)]
           /\ \A j \in Conn : conn[j] # "open" => toSwitch'[j] = toSwitch[j]
           /\ \A j \in Conn : Has(toSwitch'[j], {"netinfoRequest"}) => Has(toSwitch[j], {"netinfoRequest"})
<1>1. mine[t] \in Conn /\ conn[mine[t]] = "open" /\ Send(mine[t], "hello")
    BY ThreadOnConn DEF Attach
<1>2. "hello" \in ToSwitch /\ "hello" \notin {"netinfoRequest"}
    BY DEF ToSwitch
<1>3. /\ toSwitch' \in [Conn -> Seq(ToSwitch)]
      /\ \A j \in Conn : j # mine[t] => toSwitch'[j] = toSwitch[j]
      /\ Has(toSwitch'[mine[t]], {"netinfoRequest"}) => Has(toSwitch[mine[t]], {"netinfoRequest"})
    BY <1>1, <1>2, SendFacts
<1>4. QED
    BY <1>1, <1>3

LEMMA NextType == ASSUME TypeOK, Shape, [Next]_vars PROVE TypeOK'
<1>0. MaxConn \in Nat \ {0} /\ Conn = 1 .. MaxConn
    BY AgentAssumption DEF Conn
<1>1. ASSUME NEW t \in Thread, NEW k \in Conn, Connect(t, k) PROVE TypeOK'
    BY <1>0, <1>1 DEF Connect, TypeOK, Defined, sessionVars
<1>2. ASSUME NEW t \in Thread, Attach(t) PROVE TypeOK'
    BY <1>2, AttachMessages DEF Attach, TypeOK, Defined, sessionVars, switchVars
<1>3. ASSUME NEW t \in Thread, MarkState(t) \/ StoreNetc(t) PROVE TypeOK'
    <2>1. CASE MarkState(t)
        BY <2>1 DEF MarkState, TypeOK, Defined, connVars, switchVars
    <2>2. CASE StoreNetc(t)
        <3>1. netc' \in 0 .. MaxConn
            BY <2>2 DEF StoreNetc, TypeOK
        <3>2. pc' \in [Thread -> {"none", "sleep", "registered", "made", "marked", "stored"}]
            BY <2>2 DEF StoreNetc, TypeOK
        <3>3. QED
            BY <2>2, <3>1, <3>2 DEF StoreNetc, TypeOK, Defined, connVars, switchVars
    <2>3. QED
        BY <1>3, <2>1, <2>2
<1>4. ASSUME NEW t \in Thread, StoreExt(t) PROVE TypeOK'
    BY <1>4 DEF StoreExt, AfterConnect, TypeOK, Defined, sessionVars, switchVars
<1>5. ASSUME UNCHANGED <<sessionVars, threadVars, connVars, toSwitch, toAgent, switchVars>>,
             undef' \in BOOLEAN
      PROVE  TypeOK'
    BY <1>5 DEF TypeOK, sessionVars, threadVars, connVars, switchVars
<1>6. ASSUME NEW k \in Conn, Lost(k) PROVE TypeOK'
    <2>1. <<>> \in Seq(ToAgent)
        OBVIOUS
    <2>2. state' \in {state, "DOWN"} /\ pc' \in [Thread -> {"none", "sleep", "registered", "made", "marked", "stored"}]
        BY <1>6 DEF Lost, StateAfterLoss, Respawn, TypeOK
    <2>3. QED
        BY <1>6, <2>1, <2>2 DEF Lost, TypeOK, Defined, switchVars
<1>7. ASSUME NEW k \in Conn, Input(k) PROVE TypeOK'
    <2>1. /\ state' \in {state, "WAIT_ANSWER", "AUTHED"}
          /\ passport' \in {passport, TRUE} /\ ipConf' \in {ipConf, TRUE}
        BY <1>7 DEF Input, OnSecure, Register, OpProvResponse, AfterProvision, OpAuthResponse,
                    OpNetinfoResponse
    <2>2. toSwitch' \in [Conn -> Seq(ToSwitch)] /\ toAgent' \in [Conn -> Seq(ToAgent)]
        BY <1>7, InputMessages
    <2>3. UNCHANGED <<netc, writable, threadVars, connVars, switchVars, undef>>
        BY <1>7 DEF Input, Defined
    <2>4. QED
        BY <2>1, <2>2, <2>3 DEF TypeOK, threadVars, connVars, switchVars
<1>8. ASSUME NEW k \in Conn, Serve(k) PROVE TypeOK'
    <2>1. UNCHANGED <<sessionVars, threadVars, connVars, willing, undef>>
        BY <1>8 DEF Serve, Defined
    <2>2. QED
        BY <1>8, <2>1, ServeMessages DEF TypeOK, sessionVars, threadVars, connVars
<1>9. ASSUME NEW k \in Conn, Break(k) PROVE TypeOK'
    BY <1>9 DEF Break, TypeOK, Defined, sessionVars, threadVars, switchVars
<1>10. ASSUME NEW t \in Thread, UseFreed(t) \/ ListMoved(t) PROVE TypeOK'
    BY <1>5, <1>10 DEF UseFreed, ListMoved
<1>11. ASSUME NEW k \in Conn, LoopUndefined(k) PROVE TypeOK'
    BY <1>5, <1>11 DEF LoopUndefined
<1>12. CASE UNCHANGED vars
    BY <1>5, <1>12 DEF vars, TypeOK
<1>13. QED
    BY <1>1, <1>2, <1>3, <1>4, <1>6, <1>7, <1>8, <1>9, <1>10, <1>11, <1>12
       DEF Next, ThreadStep, LoopStep

-----------------------------------------------------------------------------
LEMMA ConnectMessages ==
    ASSUME TypeOK, Shape, Messages, NEW t \in Thread, NEW k \in Conn, Connect(t, k)
    PROVE  Messages'
<1>1. /\ pc[t] = "sleep" /\ conn[k] = "none"
      /\ conn' = [conn EXCEPT ![k] = "open"] /\ server' = [server EXCEPT ![k] = "NOT_AUTHED"]
      /\ UNCHANGED <<state, netc, toSwitch, toAgent>>
    BY DEF Connect, sessionVars
<1>2. state # "AUTHED"
    BY <1>1, Exclusive
<1>3. toSwitch[k] = <<>> /\ toAgent[k] = <<>>
    BY <1>1 DEF Messages, Fresh
<1>4. AfterSuccess'
    <2>1. server'[k] = "NOT_AUTHED" /\ \A j \in Conn : j # k => server'[j] = server[j]
        BY <1>1 DEF TypeOK
    <2>2. ~Has(toSwitch'[k], {"netinfoRequest"}) /\ ~Has(toAgent'[k], {"success", "netinfoResponse"})
        BY <1>1, <1>3, HasEmpty
    <2>3. QED
        BY <1>1, <2>1, <2>2 DEF Messages, AfterSuccess
<1>5. QED
    BY <1>1, <1>2, <1>4 DEF Messages, Fresh, AuthedBySwitch, TypeOK

LEMMA LostMessages ==
    ASSUME TypeOK, Messages, NEW k \in Conn, Lost(k)
    PROVE  Messages'
<1>1. /\ conn[k] = "open" /\ conn' = [conn EXCEPT ![k] = "freed"]
      /\ toAgent' = [toAgent EXCEPT ![k] = <<>>]
      /\ UNCHANGED <<netc, toSwitch, server>> /\ state' \in {state, "DOWN"}
    BY DEF Lost, StateAfterLoss, switchVars
<1>2. toAgent'[k] = <<>> /\ \A j \in Conn : j # k => toAgent'[j] = toAgent[j]
    BY <1>1 DEF TypeOK
<1>3. AfterSuccess'
    BY <1>1, <1>2, HasEmpty DEF Messages, AfterSuccess
<1>4. QED
    BY <1>1, <1>2, <1>3 DEF Messages, Fresh, AuthedBySwitch, TypeOK

LEMMA InputKeeps ==
    ASSUME TypeOK, Shape, Messages, NEW k \in Conn, Input(k)
    PROVE  Messages'
<1> DEFINE m == Head(toAgent[k])
<1>1. ext[k] /\ conn[k] = "open" /\ netc = k /\ UNCHANGED <<netc, conn, server>>
    BY DEF Input, Shape, Handed, connVars, switchVars
<1>2. Fresh'
    BY <1>1, InputMessages DEF Messages, Fresh
<1>3. m \in {"success", "netinfoResponse"} => server[k] = "AUTHED"
    BY InputMessages DEF Messages, AfterSuccess
<1>4. AfterSuccess'
    BY <1>1, <1>3, InputMessages DEF Messages, AfterSuccess
<1>5. state' = "AUTHED" => state = "AUTHED" \/ m = "netinfoResponse"
    BY DEF Input, OnSecure, Register, OpProvResponse, AfterProvision, OpAuthResponse,
           OpNetinfoResponse
<1>6. AuthedBySwitch'
    BY <1>1, <1>3, <1>5 DEF Messages, AuthedBySwitch
<1>7. QED
    BY <1>2, <1>4, <1>6 DEF Messages

LEMMA ServeKeeps ==
    ASSUME TypeOK, Shape, Messages, NEW k \in Conn, Serve(k)
    PROVE  Messages'
<1>1. conn[k] = "open" /\ UNCHANGED <<state, netc, conn>>
    BY DEF Serve, sessionVars, connVars
<1>2. Fresh'
    BY <1>1, ServeMessages DEF Messages, Fresh
<1>3. AfterSuccess'
    BY ServeMessages DEF Messages, AfterSuccess
<1>4. state = "AUTHED" => netc \in Conn
    BY AgentAssumption DEF Shape, StateInv, TypeOK, Conn
<1>5. AuthedBySwitch'
    BY <1>1, <1>4, ServeMessages DEF Messages, AuthedBySwitch
<1>6. QED
    BY <1>2, <1>3, <1>5 DEF Messages

LEMMA NextMessages == ASSUME TypeOK, Shape, Messages, [Next]_vars PROVE Messages'
<1>1. ASSUME UNCHANGED <<conn, server, toSwitch, toAgent>>,
             state' = "AUTHED" => state = "AUTHED" /\ UNCHANGED netc
      PROVE  Messages'
    BY <1>1 DEF Messages, Fresh, AfterSuccess, AuthedBySwitch
<1>2. ASSUME NEW t \in Thread, Attach(t) PROVE Messages'
    <2>1. UNCHANGED <<state, netc, conn, toAgent, server>>
        BY <1>2 DEF Attach, sessionVars, switchVars
    <2>2. Fresh' /\ AfterSuccess'
        BY <1>2, <2>1, AttachMessages DEF Messages, Fresh, AfterSuccess
    <2>3. QED
        BY <2>1, <2>2 DEF Messages, AuthedBySwitch
<1>3. ASSUME NEW t \in Thread, MarkState(t) PROVE Messages'
    BY <1>1, <1>3 DEF MarkState, connVars, switchVars
<1>4. ASSUME NEW t \in Thread, StoreNetc(t) PROVE Messages'
    <2>1. state # "AUTHED"
        BY <1>4, Exclusive DEF StoreNetc
    <2>2. QED
        BY <1>1, <1>4, <2>1 DEF StoreNetc, connVars, switchVars
<1>5. ASSUME NEW t \in Thread, StoreExt(t) \/ UseFreed(t) \/ ListMoved(t) PROVE Messages'
    BY <1>1, <1>5 DEF StoreExt, UseFreed, ListMoved, sessionVars, connVars, switchVars
<1>6. ASSUME NEW k \in Conn, LoopUndefined(k) \/ Break(k) PROVE Messages'
    BY <1>1, <1>6 DEF LoopUndefined, Break, sessionVars, connVars, switchVars
<1>7. CASE UNCHANGED vars
    BY <1>1, <1>7 DEF vars, sessionVars, connVars, switchVars
<1>8. QED
    BY <1>2, <1>3, <1>4, <1>5, <1>6, <1>7, ConnectMessages, LostMessages, InputKeeps, ServeKeeps
       DEF Next, ThreadStep, LoopStep

LEMMA NextInv == IInv /\ [Next]_vars => IInv'
BY NextType, NextShape, NextMessages DEF IInv

-----------------------------------------------------------------------------
(* Every variable keeps its type. *)
THEOREM TypeCorrect == Spec => []TypeOK
<1>1. IInv => TypeOK
    BY DEF IInv
<1>2. QED
    BY InitInv, NextInv, <1>1, PTL DEF Spec

(* The agent makes one connection at a time, whatever the loop thread loses while
   a thread is between two of its assignments. *)
THEOREM SingleConnection == Spec => []OneConnection
<1>1. IInv => OneConnection
    <2> SUFFICES ASSUME IInv PROVE OneConnection
        OBVIOUS
    <2>1. ASSUME NEW k \in Conn, NEW l \in Conn, conn[k] = "open", conn[l] = "open"
          PROVE  k = l
        <3>1. CASE ext[k] /\ ext[l]
            BY <3>1 DEF IInv, Shape, Handed
        <3>2. CASE ~ext[k]
            <4>1. PICK t \in Thread : Connecting(t) /\ mine[t] = k
                BY <2>1, <3>2 DEF IInv, Shape, Owned
            <4>2. QED
                BY <2>1, <4>1, Exclusive DEF IInv, Connecting
        <3>3. CASE ~ext[l]
            <4>1. PICK t \in Thread : Connecting(t) /\ mine[t] = l
                BY <2>1, <3>3 DEF IInv, Shape, Owned
            <4>2. QED
                BY <2>1, <4>1, Exclusive DEF IInv, Connecting
        <3>4. QED
            BY <3>1, <3>2, <3>3
    <2>2. QED
        BY <2>1 DEF OneConnection, IInv, Shape, OneThread
<1>2. QED
    BY InitInv, NextInv, <1>1, PTL DEF Spec

(* The connection the session holds is live whenever the loop may use it. *)
THEOREM SessionConnectionLive == Spec => []NetcLive
<1>1. IInv => NetcLive
    <2>1. IInv /\ netc # 0 => netc \in Conn
        BY AgentAssumption DEF IInv, TypeOK, Conn
    <2>2. QED
        BY <2>1 DEF IInv, Shape, StateInv, Handed, NetcLive
<1>2. QED
    BY InitInv, NextInv, <1>1, PTL DEF Spec

(* The agent is never left without a thread or a connection that will start one. *)
THEOREM AlwaysRetries == Spec => []NeverStranded
<1>1. IInv => NeverStranded
    BY DEF IInv, Shape
<1>2. QED
    BY InitInv, NextInv, <1>1, PTL DEF Spec

(* The agent is authenticated only over a connection that the switch has
   authenticated. *)
THEOREM AuthenticatedBoth == Spec => []AuthedBySwitch
<1>1. IInv => AuthedBySwitch
    BY DEF IInv, Messages
<1>2. QED
    BY InitInv, NextInv, <1>1, PTL DEF Spec
=============================================================================
