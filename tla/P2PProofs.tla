----------------------------- MODULE P2PProofs -----------------------------
(* Proofs about the agent's peer-to-peer links, for any number of requests and
   addresses. *)
EXTENDS P2P, TLAPS

(* What a request holds: session and connection live and die together unless TLS
   could not be started; while they live the connection's callbacks reach the
   session, and a thread that still tries ports, or a socket that the loop serves,
   has them; a socket is served only after the rendezvous, and TLS is not started,
   nor the session authenticated, before net_p2p_on_connect. *)
Shape ==
    \A p \in Attempt :
        /\ \/ session[p] = netc[p]
           \/ /\ tls[p] = "failed" /\ session[p] = "live"
              /\ netc[p] = "freed" /\ thread[p] = "ended"
        /\ thread[p] \in {"none", "rendezvous", "met"} => tls[p] = "noinit" /\ ~authed[p]
        /\ netc[p] = "live" => hasSession[p] /\ notify[p]
        /\ netc[p] = "none" => thread[p] = "none"
        /\ thread[p] = "rendezvous" => netc[p] = "live"
        /\ listed[p] => netc[p] \in {"live", "freed"} /\ thread[p] \notin {"none", "rendezvous"}
        /\ listed[p] /\ netc[p] = "freed" => tls[p] = "failed"

IInv == TypeOK /\ Shape /\ TableLive

LEMMA InitInv == Init => IInv
<1> SUFFICES ASSUME Init PROVE IInv
    OBVIOUS
<1>1. TypeOK
    <2>1. 0 \in 0 .. Ports - 1
        BY P2PAssumption
    <2>2. port \in [Attempt -> 0 .. Ports - 1]
        BY <2>1 DEF Init
    <2>3. QED
        BY <2>2 DEF Init, TypeOK
<1>2. Shape
    <2> SUFFICES ASSUME NEW p \in Attempt
                 PROVE  /\ session[p] = "none" /\ netc[p] = "none" /\ thread[p] = "none"
                        /\ tls[p] = "noinit" /\ authed[p] = FALSE /\ listed[p] = FALSE
        BY Zenon DEF Shape
    <2>1. QED
        BY DEF Init
<1>3. TableLive
    BY DEF Init, TableLive
<1>4. QED
    BY <1>1, <1>2, <1>3 DEF IInv

-----------------------------------------------------------------------------
(* What losing a connection does: the request's session and connection are freed,
   and no other's; the table forgets it. *)
LEMMA Disconnection ==
    ASSUME IInv, NEW p \in Attempt, netc[p] = "live", Disconnected(p)
    PROVE  /\ session' = [session EXCEPT ![p] = "freed"]
           /\ netc' = [netc EXCEPT ![p] = "freed"]
           /\ listed' = [listed EXCEPT ![p] = FALSE]
           /\ notify' \in [Attempt -> BOOLEAN]
           /\ \A q \in Attempt : q # p => notify'[q] = notify[q]
           /\ table' \in [Mac -> Attempt \cup {None}]
           /\ \A m \in Mac : table'[m] # p /\ (table'[m] = table[m] \/ (table[m] = p /\ table'[m] = None))
<1>1. notify[p] /\ mac[p] \in Mac
    BY DEF IInv, Shape, TypeOK
<1>2. Released(p) = {p}
    BY DEF Released, InTable
<1>3. session' = [session EXCEPT ![p] = "freed"]
    BY <1>1, <1>2 DEF Disconnected, IInv, TypeOK
<1>4. notify' \in [Attempt -> BOOLEAN] /\ \A q \in Attempt : q # p => notify'[q] = notify[q]
    BY <1>1, <1>2 DEF Disconnected, IInv, TypeOK
<1>5. table' = TableAfter(p)
    BY <1>1 DEF Disconnected
<1>6. table' \in [Mac -> Attempt \cup {None}]
    BY <1>1, <1>5 DEF TableAfter, IInv, TypeOK
<1>7. ASSUME NEW m \in Mac
      PROVE  table'[m] # p /\ (table'[m] = table[m] \/ (table[m] = p /\ table'[m] = None))
    <2>1. table[m] = p => m = mac[p]
        BY <1>1, P2PAssumption DEF IInv, TableLive
    <2>2. CASE InTable(p)
        BY <1>1, <1>5, <2>1, <2>2, P2PAssumption DEF TableAfter, InTable, Found, IInv, TypeOK
    <2>3. CASE ~InTable(p)
        BY <1>1, <1>5, <2>1, <2>3 DEF TableAfter, InTable, Found
    <2>4. QED
        BY <2>2, <2>3
<1>8. QED
    BY <1>3, <1>4, <1>6, <1>7 DEF Disconnected

LEMMA LossInv ==
    ASSUME IInv, NEW p \in Attempt, netc[p] = "live", Disconnected(p),
           thread' = thread \/ thread' = [thread EXCEPT ![p] = "ended"],
           thread'[p] # "rendezvous",
           UNCHANGED <<mac, side, authed, sessNetc, hasSession, tls, port, broken, peer, undef>>
    PROVE  IInv'
<1> session' = [session EXCEPT ![p] = "freed"] /\ netc' = [netc EXCEPT ![p] = "freed"]
    /\ listed' = [listed EXCEPT ![p] = FALSE] /\ notify' \in [Attempt -> BOOLEAN]
    /\ table' \in [Mac -> Attempt \cup {None}]
    BY Disconnection
<1>0. \A q \in Attempt : q # p => notify'[q] = notify[q]
    BY Disconnection
<1>t. \A m \in Mac : table'[m] # p /\ (table'[m] = table[m] \/ (table[m] = p /\ table'[m] = None))
    BY Disconnection
<1>n. thread'[p] \in {thread[p], "ended"} /\ \A q \in Attempt : q # p => thread'[q] = thread[q]
    BY DEF IInv, TypeOK
<1>1. TypeOK'
    BY DEF IInv, TypeOK
<1>2. Shape'
    BY <1>0, <1>n DEF IInv, TypeOK, Shape
<1>3. TableLive'
    <2> SUFFICES ASSUME NEW m \in Mac, table'[m] # None
                 PROVE  LET q == table'[m] IN
                        /\ session'[q] = "live" /\ authed'[q] /\ sessNetc'[q] /\ mac'[q] = m
                        /\ netc'[q] = "live"
        BY DEF TableLive
    <2>1. table'[m] = table[m] /\ table[m] # p /\ table[m] \in Attempt
        BY <1>t DEF IInv, TypeOK
    <2>2. QED
        BY <2>1 DEF IInv, TypeOK, TableLive
<1>4. QED
    BY <1>1, <1>2, <1>3 DEF IInv

-----------------------------------------------------------------------------
LEMMA OpP2pRequestInv ==
    ASSUME IInv, NEW p \in Attempt, OpP2pRequest(p)
    PROVE  IInv'
BY DEF IInv, TypeOK, Shape, TableLive, OpP2pRequest, Defined, wireVars

LEMMA OnSecureInv ==
    ASSUME IInv, NEW p \in Attempt, OnSecure(p)
    PROVE  IInv'
<1>1. mac[p] \in Mac /\ netc[p] = "live"
    BY DEF OnSecure, IInv, TypeOK, Shape
<1>2. TypeOK'
    BY <1>1 DEF IInv, TypeOK, OnSecure, Defined, TableAfterInsert, threadVars
<1>3. Shape'
    BY DEF IInv, TypeOK, Shape, OnSecure, Defined, threadVars
<1>4. TableLive'
    <2>1. ASSUME NEW m \in Mac
          PROVE  table'[m] = table[m] \/ (m = mac[p] /\ table'[m] = p)
        BY <1>1, <2>1 DEF OnSecure, TableAfterInsert, Found, IInv, TypeOK
    <2>2. QED
        BY <1>1, <2>1, P2PAssumption
        DEF OnSecure, TableLive, IInv, TypeOK, threadVars
<1>5. QED
    BY <1>2, <1>3, <1>4 DEF IInv

(* The steps of the threads, of the loop and of the network that touch neither the
   table nor what is freed. *)
LEMMA OtherStepsInv ==
    ASSUME IInv, NEW p \in Attempt,
           \/ TryNextPort(p) \/ Register(p) \/ StartTls(p) \/ SecureFailed(p) \/ OnConnect(p)
           \/ HandshakeLost(p) \/ PeerSends(p) \/ Break(p)
    PROVE  IInv'
<1>1. CASE TryNextPort(p)
    BY <1>1, P2PAssumption
    DEF IInv, TypeOK, Shape, TableLive, TryNextPort, PortLeft, Defined, sessionVars, netcVars,
        wireVars
<1>2. CASE Register(p)
    BY <1>2 DEF IInv, TypeOK, Shape, TableLive, Register, Defined, sessionVars, netcVars
<1>3. CASE StartTls(p)
    BY <1>3 DEF IInv, TypeOK, Shape, TableLive, StartTls, Defined, sessionVars, wireVars
<1>4. CASE OnConnect(p)
    BY <1>4 DEF IInv, TypeOK, Shape, TableLive, OnConnect, Defined, netcVars, wireVars
<1>5. CASE HandshakeLost(p)
    BY <1>5 DEF IInv, TypeOK, Shape, TableLive, HandshakeLost, Defined, sessionVars, netcVars,
                threadVars
<1>6. CASE PeerSends(p)
    BY <1>6 DEF IInv, TypeOK, Shape, TableLive, PeerSends, Defined, sessionVars, netcVars,
                threadVars
<1>7. CASE Break(p)
    BY <1>7 DEF IInv, TypeOK, Shape, TableLive, Break, Defined, sessionVars, netcVars, threadVars
<1>8. CASE SecureFailed(p)
    <2>1. TypeOK' /\ Shape'
        BY <1>8 DEF IInv, TypeOK, Shape, SecureFailed, Defined, sessionVars, wireVars
    <2>2. \A m \in Mac : table[m] # p
        BY <1>8, P2PAssumption DEF IInv, Shape, TableLive, SecureFailed
    <2>3. TableLive'
        BY <1>8, <2>2 DEF IInv, TypeOK, TableLive, SecureFailed, sessionVars
    <2>4. QED
        BY <2>1, <2>3 DEF IInv
<1>9. QED
    BY <1>1, <1>2, <1>3, <1>4, <1>5, <1>6, <1>7, <1>8

LEMMA UnchangedInv ==
    ASSUME IInv, undef' \in BOOLEAN,
           UNCHANGED <<sessionVars, netcVars, threadVars, wireVars, table>>
    PROVE  IInv'
BY DEF IInv, TypeOK, Shape, TableLive, sessionVars, netcVars, threadVars, wireVars

(* A failed rendezvous and a lost connection disconnect a live connection. *)
LEMMA LossSteps ==
    ASSUME IInv, NEW p \in Attempt, RendezvousFailed(p) \/ Lost(p)
    PROVE  IInv' /\ netc[p] = "live" /\ Disconnected(p)
<1>1. netc[p] = "live" /\ Disconnected(p)
    BY DEF IInv, Shape, RendezvousFailed, Lost
<1>2. thread' = thread \/ thread' = [thread EXCEPT ![p] = "ended"]
    BY DEF RendezvousFailed, Lost, threadVars
<1>3. thread'[p] # "rendezvous"
    BY DEF RendezvousFailed, Lost, threadVars, IInv, TypeOK, Shape
<1>4. UNCHANGED <<mac, side, authed, sessNetc, hasSession, tls, port, broken, peer, undef>>
    BY DEF RendezvousFailed, Lost, Defined, threadVars
<1>5. QED
    BY <1>1, <1>2, <1>3, <1>4, LossInv

LEMMA NextInv == IInv /\ [Next]_vars => IInv'
<1> SUFFICES ASSUME IInv, [Next]_vars
             PROVE  IInv'
    OBVIOUS
<1>1. CASE UNCHANGED vars
    BY <1>1, UnchangedInv DEF vars, IInv, TypeOK
<1>2. ASSUME NEW p \in Attempt,
             OnSecureUndefined(p) \/ ThreadUsesFreed(p) \/ LoopUsesFreed(p) \/ SendUndefined(p)
      PROVE  IInv'
    BY <1>2, UnchangedInv DEF OnSecureUndefined, ThreadUsesFreed, LoopUsesFreed, SendUndefined,
                                 Crash
<1>3. QED
    BY <1>1, <1>2, OpP2pRequestInv, OnSecureInv, OtherStepsInv, LossSteps
    DEF Next, ThreadStep, LoopStep

-----------------------------------------------------------------------------
(* The inductive invariant. *)
THEOREM Inductive == Spec => []IInv
BY InitInv, NextInv, PTL DEF Spec

(* The types. *)
THEOREM TypeCorrect == Spec => []TypeOK
BY Inductive, PTL DEF IInv

(* The table that tunnel_in looks up leads to live, authenticated sessions with
   a live connection. *)
THEOREM TablesLive == Spec => []TableLive
BY Inductive, PTL DEF IInv

(* A callback that follows netc->ext_ptr finds a session that was not freed. *)
THEOREM SessionsOutlive == Spec => []ConnectionHasSession
<1>1. IInv => ConnectionHasSession
    BY DEF IInv, Shape, ConnectionHasSession
<1>2. QED
    BY <1>1, Inductive, PTL

(* p2p_on_disconnect frees the session of the connection, in the table or not; only
   net_p2p_on_connect, when TLS cannot be started, frees a connection alone. *)
THEOREM NoLeaks == Spec => []NothingLeaks
<1>1. IInv => NothingLeaks
    BY P2PAssumption DEF IInv, Shape, TableLive, NothingLeaks
<1>2. QED
    BY <1>1, Inductive, PTL

(* An address stays with its connection until that is lost. *)
THEOREM AddressesKept == Spec => AddressKept
<1> DEFINE Kept == \A m \in Mac : table[m] # None /\ table'[m] # table[m]
                        => netc'[table[m]] = "freed" /\ session'[table[m]] = "freed"
<1>1. ASSUME IInv, Next PROVE Kept
    <2>1. PICK p \in Attempt :
              OpP2pRequest(p) \/ ThreadStep(p) \/ LoopStep(p) \/ SendUndefined(p)
              \/ PeerSends(p) \/ Break(p)
        BY <1>1 DEF Next
    <2>2. CASE RendezvousFailed(p) \/ Lost(p)
        <3>1. netc[p] = "live" /\ Disconnected(p)
            BY <1>1, <2>2, LossSteps
        <3>2. QED
            BY <1>1, <3>1, Disconnection DEF IInv, TypeOK
    <2>3. CASE OnSecure(p)
        BY <1>1, <2>3 DEF OnSecure, TableAfterInsert, Found, IInv, TypeOK
    <2>4. CASE ~(RendezvousFailed(p) \/ Lost(p) \/ OnSecure(p))
        <3>1. table' = table
            BY <2>1, <2>4 DEF ThreadStep, LoopStep, OpP2pRequest, TryNextPort, Register, StartTls,
                SecureFailed, OnConnect, ThreadUsesFreed, LoopUsesFreed, HandshakeLost,
                OnSecureUndefined, SendUndefined, PeerSends, Break, Crash
        <3>2. QED
            BY <3>1
    <2>5. QED
        BY <2>2, <2>3, <2>4
<1>2. ASSUME IInv, [Next]_vars PROVE [Kept]_vars
    BY <1>1, <1>2
<1>3. QED
    BY <1>2, Inductive, PTL DEF Spec, AddressKept
=============================================================================
