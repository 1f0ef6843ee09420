---------------------------- MODULE SwitchProofs ----------------------------
(***************************************************************************)
(* For any number of sessions, networks, nodes and addresses: the tables   *)
(* of nvswitch stay consistent (SwitchInv is inductive), frames stay in    *)
(* their network, and, within the capacity of the bitpool, ids are unique. *)
(***************************************************************************)
EXTENDS SwitchProps, TLAPS, WellFoundedInduction, FiniteSetTheorems

(* A non-empty set of naturals has a least element. *)
LEMMA LeastExists ==
    ASSUME NEW S \in SUBSET Nat, S # {}
    PROVE  \E b \in S : \A c \in S : b <= c
<1> DEFINE R == {ss \in Nat \X Nat : ss[1] < ss[2]}
<1>1. IsWellFoundedOn(R, Nat)
    BY NatLessThanWellFounded DEF OpToRel
<1> HIDE DEF R
<1>2. PICK b \in S : \A c \in S : ~ (<<c, b>> \in R)
    BY <1>1, WFMin
<1>3. ASSUME NEW c \in S
      PROVE  b <= c
    <2>1. ~ (<<c, b>> \in R)
        BY <1>2
    <2>2. b \in Nat /\ c \in Nat
        OBVIOUS
    <2>3. QED
        BY <2>1, <2>2 DEF R
<1>4. QED
    BY <1>3

(* bitpool_allocate_bit returns a free bit when there is one. *)
LEMMA FirstZeroIsFree ==
    ASSUME NEW v, FreeBits(v) # {}
    PROVE  FirstZero(v) \in FreeBits(v) /\ FirstZero(v) \in Bit
<1>1. FreeBits(v) \in SUBSET Nat
    BY ConstantsAssumption DEF FreeBits, Bit
<1>2. \E b \in FreeBits(v) : \A c \in FreeBits(v) : b <= c
    BY <1>1, LeastExists
<1>3. QED
    BY <1>2 DEF FirstZero, FreeBits

(* The id of a joining session is never 0, full pool or not. *)
LEMMA NewIdRange ==
    ASSUME NEW v
    PROVE  NewId(v) \in 1 .. MaxNode
<1>1. CASE FreeBits(v) = {}
    BY <1>1, ConstantsAssumption DEF NewId
<1>2. CASE FreeBits(v) # {}
    BY <1>2, FirstZeroIsFree, ConstantsAssumption DEF NewId, Bit
<1>3. QED
    BY <1>1, <1>2

(* active_node stays a uint32_t. *)
LEMMA ModRange ==
    ASSUME NEW x \in Int
    PROVE  x % Word \in 0 .. Word - 1
BY ConstantsAssumption

(* The empty tables satisfy the invariant. *)
LEMMA InitInv == Init => SwitchInv
<1> SUFFICES ASSUME Init PROVE SwitchInv
    OBVIOUS
<1>1. TypeOK
    <2>1. /\ secured \in [Session -> BOOLEAN]
          /\ status \in [Node -> BOOLEAN]
          /\ undef \in BOOLEAN
          /\ matched \in BOOLEAN
        BY Zenon DEF Init
    <2>2. /\ active \in [Network -> 0 .. Word - 1]
          /\ id \in [Session -> 0 .. MaxNode]
        BY ConstantsAssumption DEF Init
    <2>3. QED
        BY <2>1, <2>2 DEF Init, TypeOK, State
<1>2. SessionShape /\ ThreadShape
    BY DEF Init, SessionShape, ThreadShape
<1>3. AbsentShape
    BY DEF Init, AbsentShape
<1>4. ListSound /\ MacOwnership /\ CtableKeyed
    BY DEF Init, ListSound, MacOwnership, CtableKeyed, Up
<1>5. OnlineHasSession
    BY DEF Init, OnlineHasSession
<1>6. QED
    BY <1>1, <1>2, <1>3, <1>4, <1>5 DEF SwitchInv

(* A new session is blank. *)
LEMMA ConnectInv ==
    ASSUME SwitchInv, NEW s \in Session, Connect(s)
    PROVE  SwitchInv'
<1> USE DEF SwitchInv
<1>1. /\ state[s] = "FREE"
      /\ state' = [state EXCEPT ![s] = "NOT_AUTHED"]
      /\ UNCHANGED <<vnet, cert, secured, id, next, prev, macs>>
      /\ UNCHANGED <<netst, atable, ctable, ftable, head, bits, active, links>>
      /\ UNCHANGED <<status, undef, busy, stage, matched>>
      /\ stage = "idle" /\ busy = Null
    BY DEF Connect, Defined, Idle, netVars, thread, ThreadShape
<1>2. TypeOK'
    BY <1>1 DEF TypeOK, State
<1>3. SessionShape' /\ ThreadShape'
    BY <1>1 DEF SessionShape, ThreadShape, TypeOK
<1>4. AbsentShape'
    BY <1>1 DEF AbsentShape
<1>5. ListSound'
    BY <1>1 DEF ListSound, Up, Joined
<1>6. MacOwnership'
    BY <1>1 DEF MacOwnership, Up, Joined
<1>7. CtableKeyed'
    BY <1>1 DEF CtableKeyed, Up
<1>8. OnlineHasSession'
    BY <1>1 DEF OnlineHasSession, TypeOK
<1>9. QED
    BY <1>2, <1>3, <1>4, <1>5, <1>6, <1>7, <1>8

(* authRequest names a node in a session that has no network, and enters it in the
   connection table. *)
LEMMA AuthRequestInv ==
    ASSUME SwitchInv, NEW s \in Session, NEW n \in Node, AuthRequest(s, n)
    PROVE  SwitchInv'
<1> USE DEF SwitchInv
<1> DEFINE v == NodeNet[n]
           u == ClaimedUuid(n)
<1>1. /\ state[s] = "NOT_AUTHED"
      /\ cert' = [cert EXCEPT ![s] = n]
      /\ UNCHANGED <<state, secured, id, next, prev, macs>>
      /\ UNCHANGED <<netst, atable, ftable, head, bits, active, links>>
      /\ UNCHANGED <<status, undef, matched>>
      /\ stage = "idle" /\ busy = Null
    BY DEF AuthRequest, Defined, ThreadShape
<1>2. v \in Network /\ u \in Uuid /\ (u \in Node => u = n /\ n \in V1Node)
    BY ConstantsAssumption DEF ClaimedUuid, Uuid
<1>3. vnet[s] = Null /\ id[s] = 0 /\ ~secured[s]
    BY <1>1, ConstantsAssumption DEF SessionShape
<1>4. CASE Up(v) /\ ctable' = [ctable EXCEPT ![v][u] = IF @ = Null THEN s ELSE @]
           /\ vnet' = [vnet EXCEPT ![s] = v] /\ busy' = s /\ stage' = "claimed"
    <2> HIDE DEF v, u
    <2>1. TypeOK'
        BY <1>1, <1>2, <1>4 DEF TypeOK, State
    <2>2. SessionShape'
        BY <1>1, <1>2, <1>3, <1>4, ConstantsAssumption DEF SessionShape, TypeOK, Up
    <2>3. ThreadShape'
        BY <1>1, <1>2, <1>3, <1>4, ConstantsAssumption DEF ThreadShape, TypeOK
    <2>4. AbsentShape'
        BY <1>1, <1>2, <1>4 DEF AbsentShape, Up, TypeOK
    <2>5. ListSound'
        BY <1>1, <1>3, <1>4 DEF ListSound, Up, Joined, TypeOK
    <2>6. MacOwnership'
        BY <1>1, <1>3, <1>4 DEF MacOwnership, Up, Joined, TypeOK
    <2>7. CtableKeyed'
        BY <1>1, <1>2, <1>3, <1>4, ConstantsAssumption DEF CtableKeyed, Up, TypeOK, Uuid
    <2>8. OnlineHasSession'
        BY <1>1, <1>3 DEF OnlineHasSession, TypeOK
    <2>9. QED
        BY <2>1, <2>2, <2>3, <2>4, <2>5, <2>6, <2>7, <2>8
<1>5. CASE UNCHANGED <<ctable, vnet, busy, stage>>
    <2> HIDE DEF v, u
    <2>1. TypeOK'
        BY <1>1, <1>5 DEF TypeOK
    <2>2. SessionShape'
        BY <1>1, <1>3, <1>5 DEF SessionShape, TypeOK
    <2>3. ThreadShape'
        BY <1>1, <1>5 DEF ThreadShape
    <2>4. AbsentShape' /\ ListSound' /\ MacOwnership'
        BY <1>1, <1>5 DEF AbsentShape, ListSound, MacOwnership, Up, Joined
    <2>5. CtableKeyed'
        BY <1>1, <1>3, <1>5, ConstantsAssumption DEF CtableKeyed, Up, TypeOK, Uuid
    <2>6. OnlineHasSession'
        BY <1>1, <1>3 DEF OnlineHasSession, TypeOK
    <2>7. QED
        BY <2>1, <2>2, <2>3, <2>4, <2>5, <2>6
<1>6. QED
    BY <1>4, <1>5 DEF AuthRequest, thread

(* The end of authRequest: whatever the state was, the session waits. *)
LEMMA StepUpInv ==
    ASSUME SwitchInv, NEW s \in Session, StepUp(s)
    PROVE  SwitchInv'
<1> USE DEF SwitchInv
<1>1. /\ state' = [state EXCEPT ![s] = "WAIT_STEPUP"]
      /\ UNCHANGED <<vnet, cert, secured, id, next, prev, macs>>
      /\ UNCHANGED <<netst, atable, ctable, ftable, head, bits, active, links>>
      /\ UNCHANGED <<status, undef, matched>>
      /\ stage' = "idle" /\ busy' = Null
      /\ vnet[s] \in Network /\ id[s] = 0
    BY DEF StepUp, Defined, netVars, ThreadShape
<1>2. TypeOK'
    BY <1>1 DEF TypeOK, State
<1>3. SessionShape' /\ ThreadShape'
    BY <1>1, ConstantsAssumption DEF SessionShape, ThreadShape, TypeOK, StepUp
<1>4. AbsentShape' /\ ListSound' /\ MacOwnership' /\ CtableKeyed'
    BY <1>1 DEF AbsentShape, ListSound, MacOwnership, CtableKeyed, Up, Joined
<1>5. OnlineHasSession'
    BY <1>1 DEF OnlineHasSession, TypeOK
<1>6. QED
    BY <1>2, <1>3, <1>4, <1>5

(* on_secure replaces node_info: only a certificate that was named keeps the
   connection table right. *)
LEMMA OnSecureInv ==
    ASSUME SwitchInv, NEW s \in Session, NEW n \in Node, OnSecure(s, n)
    PROVE  SwitchInv'
<1> USE DEF SwitchInv
<1>1. /\ state[s] = "WAIT_STEPUP"
      /\ secured' = [secured EXCEPT ![s] = TRUE]
      /\ cert' = [cert EXCEPT ![s] = n]
      /\ matched' = (matched /\ n = cert[s])
      /\ stage = "idle" /\ busy = Null /\ busy' = s /\ stage' = "tested"
      /\ UNCHANGED <<state, vnet, id, next, prev, macs>>
      /\ UNCHANGED <<netst, atable, ctable, ftable, head, bits, active, links>>
      /\ UNCHANGED <<status, undef>>
    BY DEF OnSecure, Defined, InStepUp, netVars, ThreadShape
<1>2. vnet[s] \in Network /\ id[s] = 0
    BY <1>1 DEF SessionShape
<1>3. TypeOK'
    <2>1. matched' \in BOOLEAN /\ secured' \in [Session -> BOOLEAN]
        BY <1>1, Zenon DEF TypeOK
    <2>2. QED
        BY <1>1, <2>1 DEF TypeOK
<1>4. SessionShape'
    BY <1>1, <1>2, ConstantsAssumption DEF SessionShape, TypeOK
<1>5. ThreadShape'
    BY <1>1, <1>2, ConstantsAssumption DEF ThreadShape, TypeOK
<1>6. AbsentShape' /\ ListSound' /\ MacOwnership'
    BY <1>1 DEF AbsentShape, ListSound, MacOwnership, Up, Joined
<1>7. CtableKeyed'
    <2>1. matched' => matched /\ n = cert[s]
        BY <1>1, Zenon
    <2>2. matched' => cert' = cert
        BY <1>1, <2>1 DEF TypeOK
    <2>3. QED
        BY <1>1, <2>1, <2>2 DEF CtableKeyed, Up
<1>8. OnlineHasSession'
    BY <1>1, <1>2 DEF OnlineHasSession, TypeOK
<1>9. QED
    BY <1>3, <1>4, <1>5, <1>6, <1>7, <1>8

(* A certificate without a name leaves no node_info. *)
LEMMA OnSecureNamelessInv ==
    ASSUME SwitchInv, NEW s \in Session, OnSecureNameless(s)
    PROVE  SwitchInv'
<1> USE DEF SwitchInv
<1>1. /\ state[s] = "WAIT_STEPUP"
      /\ secured' = [secured EXCEPT ![s] = TRUE]
      /\ cert' = [cert EXCEPT ![s] = Null]
      /\ ~matched'
      /\ matched' \in BOOLEAN
      /\ stage = "idle" /\ busy = Null
      /\ UNCHANGED <<state, vnet, id, next, prev, macs>>
      /\ UNCHANGED <<netst, atable, ctable, ftable, head, bits, active, links>>
      /\ UNCHANGED <<busy, stage, status, undef>>
    BY DEF OnSecureNameless, Defined, InStepUp, netVars, thread, ThreadShape
<1>2. id[s] = 0
    BY <1>1 DEF SessionShape
<1>3. TypeOK'
    <2>1. secured' \in [Session -> BOOLEAN]
        BY <1>1, Zenon DEF TypeOK
    <2>2. QED
        BY <1>1, <2>1 DEF TypeOK
<1>4. SessionShape' /\ ThreadShape'
    BY <1>1, <1>2 DEF SessionShape, ThreadShape, TypeOK
<1>5. AbsentShape' /\ ListSound' /\ MacOwnership' /\ CtableKeyed'
    BY <1>1 DEF AbsentShape, ListSound, MacOwnership, CtableKeyed, Up, Joined
<1>6. OnlineHasSession'
    BY <1>1, <1>2 DEF OnlineHasSession, TypeOK
<1>7. QED
    BY <1>3, <1>4, <1>5, <1>6

(* The lookup only moves the switch thread. *)
LEMMA LookUpInv ==
    ASSUME SwitchInv, NEW s \in Session, LookUp(s)
    PROVE  SwitchInv'
<1> USE DEF SwitchInv
<1>1. /\ UNCHANGED <<state, vnet, cert, secured, id, next, prev, macs>>
      /\ UNCHANGED <<netst, atable, ctable, ftable, head, bits, active, links>>
      /\ UNCHANGED <<status, undef, matched>>
      /\ stage = "tested" /\ busy = s
      /\ \/ stage' = "known" /\ busy' = s
         \/ stage' = "idle" /\ busy' = Null
    BY DEF LookUp, Defined, sessVars, netVars
<1>2. TypeOK'
    BY <1>1 DEF TypeOK
<1>3. SessionShape'
    BY <1>1 DEF SessionShape, ThreadShape
<1>4. ThreadShape'
    BY <1>1, ConstantsAssumption DEF ThreadShape
<1>5. QED
    BY <1>1, <1>2, <1>3, <1>4 DEF AbsentShape, ListSound, MacOwnership, CtableKeyed,
                                  OnlineHasSession, Up, Joined

(* The end of on_secure: the session is put before the head, with an id. *)
LEMMA AdmitInv ==
    ASSUME SwitchInv, NEW s \in Session, Admit(s)
    PROVE  SwitchInv'
<1> USE DEF SwitchInv
<1> DEFINE v == vnet[s]
           i == NewId(v)
<1>1. /\ Up(v)
      /\ state' = [state EXCEPT ![s] = "AUTHED"]
      /\ AddSession(s, v)
      /\ status' = [status EXCEPT ![cert[s]] = TRUE]
      /\ stage = "known" /\ busy = s /\ stage' = "idle" /\ busy' = Null
      /\ UNCHANGED <<vnet, cert, secured, macs>>
      /\ UNCHANGED <<netst, atable, ctable, ftable, links, undef, matched>>
    BY DEF Admit, Defined
<1>2. /\ v \in Network /\ cert[s] \in Node /\ secured[s] /\ id[s] = 0
      /\ next[s] = Null /\ prev[s] = Null /\ macs[s] = {}
    BY <1>1 DEF SessionShape, ThreadShape
<1>3. /\ next' = [next EXCEPT ![s] = head[v]]
      /\ prev' = IF head[v] = Null THEN prev ELSE [prev EXCEPT ![head[v]] = s]
      /\ head' = [head EXCEPT ![v] = s]
      /\ id' = [id EXCEPT ![s] = i]
      /\ bits' = [bits EXCEPT ![v] = BitsAfterAdd(v)]
      /\ active' = [active EXCEPT ![v] = (@ + 1) % Word]
    BY <1>1 DEF AddSession
<1>4. i \in 1 .. MaxNode /\ i # 0 /\ i \in 0 .. MaxNode
    BY NewIdRange, ConstantsAssumption
<1>5. BitsAfterAdd(v) \in SUBSET Bit
    BY <1>2, FirstZeroIsFree DEF BitsAfterAdd, TypeOK
<1>6. (active[v] + 1) % Word \in 0 .. Word - 1
    BY <1>2, ModRange, ConstantsAssumption DEF TypeOK
<1> HIDE DEF v, i
<1>7. TypeOK'
    BY <1>1, <1>2, <1>3, <1>4, <1>5, <1>6 DEF TypeOK, State
<1>8. SessionShape'
    BY <1>1, <1>2, <1>3, <1>4 DEF SessionShape, ListSound, Joined, TypeOK, v
<1>9. ThreadShape'
    BY <1>1 DEF ThreadShape
<1>10. AbsentShape'
    BY <1>1, <1>2, <1>3 DEF AbsentShape, TypeOK, Up
<1>11. ListSound'
    BY <1>1, <1>2, <1>3, <1>4, ConstantsAssumption DEF ListSound, Up, Joined, TypeOK, v
<1>12. MacOwnership'
    BY <1>1, <1>2, <1>3, <1>4 DEF MacOwnership, Up, Joined, TypeOK
<1>13. CtableKeyed'
    BY <1>1 DEF CtableKeyed, Up
<1>14. OnlineHasSession'
    BY <1>1, <1>2, <1>3, <1>4 DEF OnlineHasSession, TypeOK
<1>15. QED
    BY <1>7, <1>8, <1>9, <1>10, <1>11, <1>12, <1>13, <1>14

(* forward_ethernet learns an address nobody had. *)
LEMMA ForwardInv ==
    ASSUME SwitchInv, NEW s \in Session, NEW src \in Mac, NEW dst \in Mac \cup {Broadcast},
           Forward(s, src, dst)
    PROVE  SwitchInv'
<1> USE DEF SwitchInv
<1> DEFINE v == vnet[s]
           o == Owner(s, src)
           t == Target(s, src, dst)
<1>1. /\ state[s] = "AUTHED"
      /\ Up(v)
      /\ ftable' = [ftable EXCEPT ![v] = Learned(s, src)]
      /\ macs' = IF ftable[v][src] = Null THEN [macs EXCEPT ![s] = @ \cup {src}] ELSE macs
      /\ links' = IF t # Null /\ t # o
                  THEN [links EXCEPT ![v] = @ \cup {{id[o], id[t]}}] ELSE links
      /\ UNCHANGED <<state, vnet, cert, secured, id, next, prev>>
      /\ UNCHANGED <<netst, atable, ctable, head, bits, active, status, undef>>
      /\ UNCHANGED <<busy, stage, matched>>
    BY DEF Forward, Defined, Idle, thread
<1>2. v \in Network /\ id[s] # 0 /\ Joined(s, v)
    BY <1>1 DEF SessionShape, Joined
<1>3. /\ Learned(s, src) \in [Mac -> Session \cup {Null}]
      /\ \A m \in Mac : Learned(s, src)[m] # Null =>
            Learned(s, src)[m] \in Session /\ Joined(Learned(s, src)[m], v)
    BY <1>1, <1>2 DEF Learned, TypeOK, MacOwnership
<1>4. Learned(s, src)[src] # Null
    BY <1>2, ConstantsAssumption DEF Learned, TypeOK
<1>5. id[o] \in 1 .. MaxNode
    BY <1>3, <1>4 DEF Owner, Joined, TypeOK
<1>6. t # Null => id[t] \in 1 .. MaxNode
    BY <1>3 DEF Target, Joined, TypeOK
<1> HIDE DEF v, o, t
<1>7. links' \in [Network -> SUBSET SUBSET (1 .. MaxNode)]
    <2> DEFINE pair == {id[o], id[t]}
    <2>1. t # Null => pair \in SUBSET (1 .. MaxNode)
        BY <1>5, <1>6
    <2> HIDE DEF pair
    <2>2. links \in [Network -> SUBSET SUBSET (1 .. MaxNode)]
        BY DEF TypeOK
    <2>3. CASE t # Null /\ t # o
        <3>1. links' = [links EXCEPT ![v] = links[v] \cup {pair}]
            BY <1>1, <2>3 DEF pair
        <3>2. links[v] \cup {pair} \in SUBSET SUBSET (1 .. MaxNode)
            BY <1>2, <2>1, <2>2, <2>3
        <3>3. QED
            BY <2>2, <3>1, <3>2
    <2>4. CASE ~ (t # Null /\ t # o)
        BY <1>1, <2>2, <2>4
    <2>5. QED
        BY <2>3, <2>4
<1>8. TypeOK'
    BY <1>1, <1>2, <1>3, <1>7 DEF TypeOK
<1>9. SessionShape' /\ ThreadShape'
    BY <1>1, <1>2 DEF SessionShape, ThreadShape, TypeOK
<1>10. AbsentShape'
    BY <1>1, <1>2 DEF AbsentShape, TypeOK, Up
<1>11. ListSound' /\ CtableKeyed' /\ OnlineHasSession'
    BY <1>1 DEF ListSound, CtableKeyed, OnlineHasSession, Up, Joined
<1>12. MacOwnership'
    BY <1>1, <1>2, ConstantsAssumption DEF MacOwnership, Learned, Up, Joined, TypeOK, v
<1>13. QED
    BY <1>8, <1>9, <1>10, <1>11, <1>12

(* What session_free leaves: a blank object, every other one untouched but for
   its links. *)
FreedTypes ==
    /\ state'   \in [Session -> State]
    /\ vnet'    \in [Session -> Network \cup {Null}]
    /\ cert'    \in [Session -> Node \cup {Null}]
    /\ secured' \in [Session -> BOOLEAN]
    /\ id'      \in [Session -> 0 .. MaxNode]
    /\ next'    \in [Session -> Session \cup {Null}]
    /\ prev'    \in [Session -> Session \cup {Null}]
    /\ macs'    \in [Session -> SUBSET Mac]

Freed(s, nx, pv) ==
    /\ state'[s] = "FREE" /\ vnet'[s] = Null /\ cert'[s] = Null
    /\ ~secured'[s] /\ id'[s] = 0 /\ macs'[s] = {}
    /\ next'[s] = Null /\ prev'[s] = Null
    /\ \A t \in Session \ {s} :
          /\ state'[t] = state[t] /\ vnet'[t] = vnet[t] /\ cert'[t] = cert[t]
          /\ secured'[t] = secured[t] /\ id'[t] = id[t] /\ macs'[t] = macs[t]
          /\ next'[t] = nx[t] /\ prev'[t] = pv[t]

(* session_free keeps the types. *)
LEMMA FreeSession ==
    ASSUME SwitchInv, NEW s \in Session,
           NEW nx \in [Session -> Session \cup {Null}],
           NEW pv \in [Session -> Session \cup {Null}],
           Free(s, nx, pv)
    PROVE  FreedTypes /\ Freed(s, nx, pv)
<1> USE DEF SwitchInv, TypeOK
<1>1. FreedTypes
    <2>1. secured' \in [Session -> BOOLEAN]
        BY Zenon DEF Free
    <2>2. id' \in [Session -> 0 .. MaxNode]
        BY ConstantsAssumption DEF Free
    <2>3. QED
        BY <2>1, <2>2 DEF Free, FreedTypes, State
<1>2. Freed(s, nx, pv)
    BY DEF Free, Freed
<1>3. QED
    BY <1>1, <1>2

(* The uuid on_disconnect removes is the node's own once the session is secured. *)
LEMMA NodeUuidInUuid ==
    ASSUME SwitchInv, NEW s \in Session, cert[s] \in Node
    PROVE  /\ NodeUuid(s) \in Uuid
           /\ secured[s] => NodeUuid(s) = cert[s]
           /\ cert[s] \in V1Node => NodeUuid(s) = cert[s]
BY ConstantsAssumption DEF NodeUuid, ClaimedUuid, Uuid

(* The status of the node that leaves is withdrawn. *)
LEMMA StatusAfter ==
    ASSUME SwitchInv, NEW s \in Session, cert[s] \in Node
    PROVE  /\ StatusAfterDisconnect(s) \in [Node -> BOOLEAN]
           /\ \A n \in Node : StatusAfterDisconnect(s)[n] =>
                 status[n] /\ n # NodeUuid(s)
<1>1. status \in [Node -> BOOLEAN]
    BY DEF SwitchInv, TypeOK
<1>2. QED
    BY <1>1, Zenon DEF StatusAfterDisconnect

(* on_disconnect before authRequest. *)
LEMMA DisconnectNotAuthedInv ==
    ASSUME SwitchInv, NEW s \in Session, DisconnectNotAuthed(s)
    PROVE  SwitchInv'
<1> USE DEF SwitchInv
<1>1. /\ state[s] = "NOT_AUTHED"
      /\ Free(s, next, prev)
      /\ UNCHANGED <<netst, atable, ctable, ftable, head, bits, active, links>>
      /\ UNCHANGED <<status, undef, busy, stage, matched>>
      /\ stage = "idle" /\ busy = Null
    BY DEF DisconnectNotAuthed, Defined, Idle, netVars, thread, ThreadShape
<1>2. vnet[s] = Null /\ id[s] = 0 /\ macs[s] = {}
    BY <1>1, ConstantsAssumption DEF SessionShape
<1>3. next \in [Session -> Session \cup {Null}] /\ prev \in [Session -> Session \cup {Null}]
    BY DEF TypeOK
<1>3a. FreedTypes /\ Freed(s, next, prev)
    BY <1>1, <1>3, FreeSession
<1>4. TypeOK'
    BY <1>1, <1>3, <1>3a DEF FreedTypes, Freed, TypeOK
<1>5. SessionShape' /\ ThreadShape'
    BY <1>1, <1>3, <1>3a DEF Freed, SessionShape, ThreadShape
<1>6. AbsentShape'
    BY <1>1 DEF AbsentShape
<1>7. ListSound'
    BY <1>1, <1>2, <1>3, <1>3a DEF Freed, ListSound, Up, Joined, TypeOK
<1>8. MacOwnership'
    BY <1>1, <1>2, <1>3, <1>3a DEF Freed, MacOwnership, Up, Joined, TypeOK
<1>9. CtableKeyed'
    BY <1>1, <1>2, <1>3, <1>3a, ConstantsAssumption DEF Freed, CtableKeyed, Up, TypeOK
<1>10. OnlineHasSession'
    <2>1. \A t \in Session : t # s =>
             id'[t] = id[t] /\ cert'[t] = cert[t] /\ state'[t] = state[t]
        BY <1>3a DEF Freed
    <2>2. QED
        BY <1>1, <1>2, <2>1 DEF OnlineHasSession
<1>11. QED
    BY <1>4, <1>5, <1>6, <1>7, <1>8, <1>9, <1>10

(* on_disconnect after the network was deleted. *)
LEMMA DisconnectNoNetworkInv ==
    ASSUME SwitchInv, NEW s \in Session, DisconnectNoNetwork(s)
    PROVE  SwitchInv'
<1> USE DEF SwitchInv
<1>1. /\ state[s] \in {"WAIT_STEPUP", "AUTHED", "PURGE"}
      /\ vnet[s] = Null
      /\ status' = StatusAfterDisconnect(s)
      /\ Free(s, next, prev)
      /\ UNCHANGED <<netst, atable, ctable, ftable, head, bits, active, links, undef>>
      /\ UNCHANGED <<busy, stage, matched>>
      /\ stage = "idle" /\ busy = Null
    BY DEF DisconnectNoNetwork, Defined, Idle, netVars, thread, ThreadShape
<1>2. cert[s] \in Node
    BY DEF DisconnectNoNetwork, TypeOK
<1>3. next \in [Session -> Session \cup {Null}] /\ prev \in [Session -> Session \cup {Null}]
    BY DEF TypeOK
<1>3a. FreedTypes /\ Freed(s, next, prev)
    BY <1>1, <1>3, FreeSession
<1>4. TypeOK'
    BY <1>1, <1>2, <1>3, <1>3a, StatusAfter DEF FreedTypes, Freed, TypeOK
<1>5. SessionShape' /\ ThreadShape'
    BY <1>1, <1>3, <1>3a DEF Freed, SessionShape, ThreadShape
<1>6. AbsentShape'
    BY <1>1 DEF AbsentShape
<1>7. ListSound'
    <2>1. \A t \in Session, v \in Network : Joined(t, v)' <=> t # s /\ Joined(t, v)
        BY <1>1, <1>3a, ConstantsAssumption DEF Freed, Joined, TypeOK
    <2>2. ~ \E v \in Network : Joined(s, v)
        BY <1>1, ConstantsAssumption DEF Joined
    <2>3. \A t \in Session : t # s => next'[t] = next[t] /\ prev'[t] = prev[t]
        BY <1>3a DEF Freed
    <2>4. QED
        BY <1>1, <1>3, <2>1, <2>2, <2>3 DEF ListSound, Up, TypeOK
<1>8. MacOwnership'
    <2>1. \A t \in Session, v \in Network : Joined(t, v)' <=> t # s /\ Joined(t, v)
        BY <1>1, <1>3a, ConstantsAssumption DEF Freed, Joined, TypeOK
    <2>2. ~ \E v \in Network : Joined(s, v)
        BY <1>1, ConstantsAssumption DEF Joined
    <2>3. \A t \in Session : t # s => macs'[t] = macs[t]
        BY <1>3a DEF Freed
    <2>4. QED
        BY <1>1, <1>3, <2>1, <2>2, <2>3 DEF MacOwnership, Up, TypeOK
<1>9. CtableKeyed'
    BY <1>1, <1>3, <1>3a, ConstantsAssumption DEF Freed, CtableKeyed, Up, TypeOK
<1>10. OnlineHasSession'
    <2>1. \A n \in Node : status'[n] => status[n] /\ n # NodeUuid(s)
        BY <1>1, <1>2, StatusAfter
    <2>2. secured[s] => NodeUuid(s) = cert[s]
        BY <1>2, NodeUuidInUuid
    <2>3. QED
        BY <1>3a, <2>1, <2>2 DEF Freed, OnlineHasSession, SessionShape
<1>11. QED
    BY <1>4, <1>5, <1>6, <1>7, <1>8, <1>9, <1>10

(* on_disconnect of a session with a network: the neighbours are relinked, the
   addresses and the uuid are forgotten. *)
LEMMA DisconnectMemberInv ==
    ASSUME SwitchInv, NEW s \in Session, DisconnectMember(s)
    PROVE  SwitchInv'
<1> USE DEF SwitchInv
<1> DEFINE v == vnet[s]
           nx == NextAfterDel(s)
           pv == PrevAfterDel(s)
<1>1. /\ state[s] \in {"WAIT_STEPUP", "AUTHED", "PURGE"}
      /\ v # Null
      /\ Up(v)
      /\ links'  = [links EXCEPT ![v] = IF id[s] = 0 THEN @ ELSE Disjoin(@, id[s])]
      /\ ftable' = [ftable EXCEPT ![v] = FtableAfterDel(s, v)]
      /\ ctable' = [ctable EXCEPT ![v] = CtableAfterDel(s, v)]
      /\ head'   = [head EXCEPT ![v] = HeadAfterDel(s, v)]
      /\ bits'   = [bits EXCEPT ![v] = BitsAfterDel(s, v)]
      /\ active' = [active EXCEPT ![v] = (@ - 1) % Word]
      /\ status' = StatusAfterDisconnect(s)
      /\ Free(s, nx, pv)
      /\ UNCHANGED <<netst, atable, undef>>
      /\ UNCHANGED <<busy, stage, matched>>
      /\ stage = "idle" /\ busy = Null
    BY DEF DisconnectMember, Defined, Idle, thread, ThreadShape
<1>2. v \in Network /\ cert[s] \in Node
    BY <1>1 DEF DisconnectMember, TypeOK
<1>3. /\ nx \in [Session -> Session \cup {Null}]
      /\ pv \in [Session -> Session \cup {Null}]
    BY DEF NextAfterDel, PrevAfterDel, TypeOK
<1>3a. FreedTypes /\ Freed(s, nx, pv)
    BY <1>1, <1>3, FreeSession
<1>4. /\ FtableAfterDel(s, v) \in [Mac -> Session \cup {Null}]
      /\ CtableAfterDel(s, v) \in [Uuid -> Session \cup {Null}]
      /\ HeadAfterDel(s, v) \in Session \cup {Null}
      /\ BitsAfterDel(s, v) \in SUBSET Bit
      /\ Disjoin(links[v], id[s]) \in SUBSET SUBSET (1 .. MaxNode)
    <2>1. FtableAfterDel(s, v) \in [Mac -> Session \cup {Null}]
        BY <1>2 DEF FtableAfterDel, TypeOK
    <2>2. CtableAfterDel(s, v) \in [Uuid -> Session \cup {Null}]
        BY <1>2 DEF CtableAfterDel, TypeOK
    <2>3. HeadAfterDel(s, v) \in Session \cup {Null}
        BY <1>2 DEF HeadAfterDel, TypeOK
    <2>4. BitsAfterDel(s, v) \in SUBSET Bit
        BY <1>2 DEF BitsAfterDel, TypeOK
    <2>5. links[v] \in SUBSET SUBSET (1 .. MaxNode)
        BY <1>2 DEF TypeOK
    <2>6. Disjoin(links[v], id[s]) \in SUBSET SUBSET (1 .. MaxNode)
        BY <2>5, Zenon DEF Disjoin
    <2>7. QED
        BY <2>1, <2>2, <2>3, <2>4, <2>6
<1>5. (active[v] - 1) % Word \in 0 .. Word - 1
    BY <1>2, ModRange, ConstantsAssumption DEF TypeOK
<1>6. NodeUuid(s) \in Uuid /\ (secured[s] \/ cert[s] \in V1Node => NodeUuid(s) = cert[s])
    BY <1>2, NodeUuidInUuid
<1>7. TypeOK'
    BY <1>1, <1>2, <1>3, <1>4, <1>5, <1>3a, StatusAfter DEF FreedTypes, Freed, TypeOK
<1>8. SessionShape'
    <2>1. ASSUME NEW t \in Session \ {s}, id[t] = 0
          PROVE  nx[t] = Null /\ pv[t] = Null
        BY <1>1, <1>2, <2>1, ConstantsAssumption
           DEF NextAfterDel, PrevAfterDel, SessionShape, ListSound, Joined, TypeOK
    <2>2. QED
        BY <1>1, <1>3, <2>1, <1>3a DEF Freed, SessionShape
<1>8a. ThreadShape'
    BY <1>1 DEF ThreadShape
<1>9. AbsentShape'
    BY <1>1, <1>2 DEF AbsentShape, TypeOK, Up
<1>10. \A w \in Network, t \in Session : Joined(t, w)' <=> t # s /\ Joined(t, w)
    BY <1>3a, ConstantsAssumption DEF Freed, Joined
<1>11. /\ \A w \in Network : head'[w] = IF w = v THEN HeadAfterDel(s, v) ELSE head[w]
       /\ \A w \in Network : Up(w)' <=> Up(w)
    BY <1>1, <1>2 DEF TypeOK, Up
<1>12. ListSound'
    <2>1. CASE id[s] = 0
        <3>1. next[s] = Null /\ prev[s] = Null
            BY <2>1 DEF SessionShape
        <3>2. nx = next /\ pv = prev /\ HeadAfterDel(s, v) = Null
            BY <3>1 DEF NextAfterDel, PrevAfterDel, HeadAfterDel
        <3> HIDE DEF nx, pv, v
        <3>3. ~ Joined(s, v) /\ \A w \in Network : ~ Joined(s, w)
            BY <2>1 DEF Joined
        <3>4. QED
            BY <1>3a, <1>10, <1>11, <3>2, <3>3 DEF ListSound, Freed, TypeOK
    <2>2. CASE id[s] # 0
        <3>1. Joined(s, v) /\ \A w \in Network : Joined(s, w) => w = v
            BY <2>2 DEF Joined
        <3>2. /\ \A t \in Session : nx[t] = IF t = prev[s] THEN next[s] ELSE next[t]
              /\ \A t \in Session : pv[t] = IF t = next[s] THEN prev[s] ELSE prev[t]
              /\ HeadAfterDel(s, v) = IF prev[s] = Null THEN next[s] ELSE head[v]
            BY ConstantsAssumption DEF NextAfterDel, PrevAfterDel, HeadAfterDel, TypeOK
        <3>3. /\ \A t \in Session : next[t] \in Session \cup {Null} /\ prev[t] \in Session \cup {Null}
              /\ \A w \in Network : head[w] \in Session \cup {Null}
            BY DEF TypeOK
        <3> HIDE DEF nx, pv, v
        <3>4. /\ next[s] # Null => Joined(next[s], v) /\ prev[next[s]] = s
              /\ prev[s] # Null => Joined(prev[s], v) /\ next[prev[s]] = s
            BY <1>1, <1>2, <3>1 DEF ListSound
        <3>5. \A x \in Session, w \in Network : Joined(x, w) /\ Joined(x, v) => w = v
            BY DEF Joined
        <3>6. \A t \in Session \ {s} : next'[t] = nx[t] /\ prev'[t] = pv[t]
            BY <1>3a DEF Freed
        <3>7. SUFFICES ASSUME NEW w \in Network, Up(w)
                       PROVE  (/\ head[w] # Null => Joined(head[w], w) /\ prev[head[w]] = Null
                               /\ \A t \in Session : Joined(t, w) =>
                                     /\ next[t] # Null => Joined(next[t], w) /\ prev[next[t]] = t
                                     /\ prev[t] # Null => Joined(prev[t], w) /\ next[prev[t]] = t)'
            BY <1>11 DEF ListSound
        <3>8. /\ head[w] # Null => Joined(head[w], w) /\ prev[head[w]] = Null
              /\ \A t \in Session : Joined(t, w) =>
                    /\ next[t] # Null => Joined(next[t], w) /\ prev[next[t]] = t
                    /\ prev[t] # Null => Joined(prev[t], w) /\ next[prev[t]] = t
            BY <3>7 DEF ListSound
        <3>9. ASSUME NEW x \in Session, x # s, Joined(x, w)
              PROVE  Joined(x, w)'
            BY <1>10, <3>9
        <3>10. (head[w] # Null => Joined(head[w], w) /\ prev[head[w]] = Null)'
            <4> SUFFICES ASSUME head'[w] # Null
                         PROVE  \E x \in Session : /\ x = head'[w] /\ x # s
                                                   /\ Joined(x, w) /\ prev'[x] = Null
                BY <3>9 DEF Joined
            <4>1. CASE w # v
                BY <1>11, <3>2, <3>3, <3>4, <3>5, <3>6, <3>8, <3>1, <4>1, ConstantsAssumption
            <4>2. CASE w = v /\ prev[s] = Null
                BY <1>11, <3>2, <3>3, <3>4, <3>6, <4>2, ConstantsAssumption
            <4>3. CASE w = v /\ prev[s] # Null
                BY <1>11, <3>2, <3>3, <3>4, <3>6, <3>8, <4>3, ConstantsAssumption
            <4>4. QED
                BY <4>1, <4>2, <4>3
        <3>11. ASSUME NEW t \in Session, Joined(t, w)', next'[t] # Null
               PROVE  (Joined(next[t], w) /\ prev[next[t]] = t)'
            <4>1. t # s /\ Joined(t, w) /\ next'[t] = nx[t]
                BY <1>10, <3>6, <3>11
            <4> SUFFICES \E x \in Session : /\ x = next'[t] /\ x # s
                                            /\ Joined(x, w) /\ prev'[x] = t
                BY <3>9 DEF Joined
            <4>2. CASE t # prev[s]
                BY <3>1, <3>2, <3>3, <3>4, <3>5, <3>6, <3>8, <3>11, <4>1, <4>2, ConstantsAssumption
            <4>3. CASE t = prev[s]
                BY <3>1, <3>2, <3>3, <3>4, <3>5, <3>6, <3>8, <3>11, <4>1, <4>3, ConstantsAssumption
            <4>4. QED
                BY <4>2, <4>3
        <3>12. ASSUME NEW t \in Session, Joined(t, w)', prev'[t] # Null
               PROVE  (Joined(prev[t], w) /\ next[prev[t]] = t)'
            <4>1. t # s /\ Joined(t, w) /\ prev'[t] = pv[t]
                BY <1>10, <3>6, <3>12
            <4> SUFFICES \E x \in Session : /\ x = prev'[t] /\ x # s
                                            /\ Joined(x, w) /\ next'[x] = t
                BY <3>9 DEF Joined
            <4>2. CASE t # next[s]
                BY <3>1, <3>2, <3>3, <3>4, <3>5, <3>6, <3>8, <3>12, <4>1, <4>2, ConstantsAssumption
            <4>3. CASE t = next[s]
                BY <3>1, <3>2, <3>3, <3>4, <3>5, <3>6, <3>8, <3>12, <4>1, <4>3, ConstantsAssumption
            <4>4. QED
                BY <4>2, <4>3
        <3>13. QED
            BY <3>10, <3>11, <3>12
    <2>3. QED
        BY <2>1, <2>2
<1>13. MacOwnership'
    <2> HIDE DEF nx, pv
    <2>1. /\ ftable'[v] = FtableAfterDel(s, v)
          /\ \A w \in Network \ {v} : ftable'[w] = ftable[w]
        BY <1>1, <1>2 DEF TypeOK
    <2>2. \A m \in Mac : FtableAfterDel(s, v)[m] = IF m \in macs[s] THEN Null ELSE ftable[v][m]
        BY DEF FtableAfterDel
    <2>3. macs'[s] = {} /\ \A t \in Session \ {s} : macs'[t] = macs[t]
        BY <1>3a DEF Freed
    <2>4. id[s] = 0 => macs[s] = {}
        BY DEF SessionShape
    <2>5. SUFFICES ASSUME NEW w \in Network, Up(w), NEW m \in Mac, NEW t \in Session
                   PROVE  ftable'[w][m] = t <=> Joined(t, w)' /\ m \in macs'[t]
        BY <1>11 DEF MacOwnership
    <2>6. \A r \in Session : ftable[w][m] = r <=> Joined(r, w) /\ m \in macs[r]
        BY <2>5 DEF MacOwnership
    <2>7. CASE w # v
        BY <1>10, <2>1, <2>3, <2>6, <2>7 DEF Joined
    <2>8. CASE w = v /\ t = s
        BY <1>10, <2>1, <2>2, <2>6, <2>8, ConstantsAssumption DEF Joined
    <2>9. CASE w = v /\ t # s
        BY <1>2, <1>10, <2>1, <2>2, <2>3, <2>4, <2>6, <2>9, ConstantsAssumption DEF Joined
    <2>10. QED
        BY <2>7, <2>8, <2>9
<1>14. CtableKeyed'
    <2> HIDE DEF nx, pv
    <2>1. QED
        BY <1>1, <1>2, <1>3, <1>6, <1>3a, ConstantsAssumption
           DEF Freed, CtableKeyed, CtableAfterDel, Up, TypeOK, Uuid
<1>15. OnlineHasSession'
    <2> HIDE DEF nx, pv
    <2>1. \A n \in Node : status'[n] => status[n] /\ n # NodeUuid(s)
        BY <1>1, <1>2, StatusAfter
    <2>2. QED
        BY <1>3a, <1>6, <2>1 DEF Freed, OnlineHasSession, SessionShape
<1>16. QED
    BY <1>7, <1>8, <1>8a, <1>9, <1>12, <1>13, <1>14, <1>15

(* A walk of session_list stays inside the network: the sessions that joined it
   hold the head and are closed under next. *)
LEMMA ListOfJoined ==
    ASSUME TypeOK, ListSound, NEW v \in Network, Up(v), NEW t \in ListOf(v)
    PROVE  t \in Session /\ Joined(t, v)
<1> DEFINE C == {x \in Session : Joined(x, v)}
<1>1. C \in SUBSET Session
    OBVIOUS
<1>2. head[v] # Null => head[v] \in C
    BY DEF ListSound, TypeOK
<1>3. Closed(C)
    BY DEF Closed, ListSound, TypeOK
<1> HIDE DEF C
<1>4. t \in C
    BY <1>1, <1>2, <1>3 DEF ListOf
<1>5. QED
    BY <1>4 DEF C

(* An absent network holds nothing. *)
LEMMA CtlAddNetworkInv ==
    ASSUME SwitchInv, NEW v \in Network, CtlAddNetwork(v)
    PROVE  SwitchInv'
<1> USE DEF SwitchInv
<1>1. /\ netst[v] = "absent"
      /\ netst' = [netst EXCEPT ![v] = "up"]
      /\ UNCHANGED <<state, vnet, cert, secured, id, next, prev, macs>>
      /\ UNCHANGED <<atable, ctable, ftable, head, bits, active, links, status, undef>>
      /\ UNCHANGED <<busy, stage, matched>>
    BY DEF CtlAddNetwork, Defined, sessVars, thread
<1>2. \A s \in Session : ~ Joined(s, v)
    BY <1>1, ConstantsAssumption DEF SessionShape, Joined
<1>3. /\ head[v] = Null
      /\ \A u \in Uuid : ctable[v][u] = Null
      /\ \A m \in Mac : ftable[v][m] = Null
    BY <1>1 DEF AbsentShape
<1>4. TypeOK'
    BY <1>1 DEF TypeOK
<1>5. SessionShape' /\ ThreadShape'
    BY <1>1 DEF SessionShape, ThreadShape, TypeOK
<1>6. AbsentShape'
    BY <1>1 DEF AbsentShape, TypeOK
<1>7. ListSound'
    BY <1>1, <1>2, <1>3 DEF ListSound, TypeOK, Up, Joined
<1>8. MacOwnership'
    BY <1>1, <1>2, <1>3, ConstantsAssumption DEF MacOwnership, TypeOK, Up, Joined
<1>9. CtableKeyed'
    BY <1>1, <1>3 DEF CtableKeyed, TypeOK, Up, Uuid
<1>10. OnlineHasSession'
    BY <1>1 DEF OnlineHasSession
<1>11. QED
    BY <1>4, <1>5, <1>6, <1>7, <1>8, <1>9, <1>10

(* The access table is free to change. *)
LEMMA CtlAddNodeInv ==
    ASSUME SwitchInv, NEW n \in Node, CtlAddNode(n)
    PROVE  SwitchInv'
<1> USE DEF SwitchInv
<1>1. /\ atable' = [atable EXCEPT ![NodeNet[n]] = @ \cup {n}]
      /\ UNCHANGED <<state, vnet, cert, secured, id, next, prev, macs>>
      /\ UNCHANGED <<netst, ctable, ftable, head, bits, active, links, status, undef>>
      /\ UNCHANGED <<busy, stage, matched>>
    BY DEF CtlAddNode, Defined, sessVars, thread
<1>2. TypeOK'
    BY <1>1, ConstantsAssumption DEF TypeOK
<1>3. QED
    BY <1>1, <1>2 DEF SessionShape, ThreadShape, AbsentShape, ListSound, MacOwnership,
                      CtableKeyed, OnlineHasSession, Up, Joined

(* del_node marks an allocated session, or ends what C defines. *)
LEMMA CtlDelNodeInv ==
    ASSUME SwitchInv, NEW n \in Node, CtlDelNode(n)
    PROVE  SwitchInv'
<1> USE DEF SwitchInv
<1> DEFINE v == NodeNet[n]
           c == ctable[v][n]
<1>1. /\ Up(v)
      /\ atable' = [atable EXCEPT ![v] = @ \ {n}]
      /\ UNCHANGED <<vnet, cert, secured, id, next, prev, macs>>
      /\ UNCHANGED <<netst, ctable, ftable, head, bits, active, links, status>>
      /\ UNCHANGED <<busy, stage, matched>>
    BY DEF CtlDelNode, thread
<1>2. undef' \in BOOLEAN
    BY DEF CtlDelNode, TypeOK
<1>3. UNCHANGED state \/ (c \in Session /\ state[c] # "FREE" /\ state' = [state EXCEPT ![c] = "PURGE"])
    <2>1. n \in Uuid /\ v \in Network
        BY ConstantsAssumption DEF Uuid
    <2>2. c \in Session \cup {Null}
        BY <2>1 DEF TypeOK
    <2>3. QED
        BY <2>2 DEF CtlDelNode, Live
<1> HIDE DEF v, c
<1>4. TypeOK'
    BY <1>1, <1>2, <1>3 DEF TypeOK, State
<1>5. SessionShape'
    BY <1>1, <1>3 DEF SessionShape, TypeOK
<1>6. ThreadShape'
    BY <1>1, <1>3 DEF ThreadShape, TypeOK
<1>7. AbsentShape' /\ ListSound' /\ MacOwnership' /\ CtableKeyed'
    BY <1>1 DEF AbsentShape, ListSound, MacOwnership, CtableKeyed, Up, Joined
<1>8. OnlineHasSession'
    BY <1>1, <1>3 DEF OnlineHasSession, TypeOK
<1>9. QED
    BY <1>4, <1>5, <1>6, <1>7, <1>8

(* del_network detaches exactly sessions that joined it. *)
LEMMA CtlDelNetworkInv ==
    ASSUME SwitchInv, NEW v \in Network, CtlDelNetwork(v)
    PROVE  SwitchInv'
<1> USE DEF SwitchInv
<1> DEFINE L == ListOf(v)
<1>1. /\ Up(v)
      /\ netst' = [netst EXCEPT ![v] = "freed"]
      /\ state' = [s \in Session |-> IF s \in L THEN "PURGE" ELSE state[s]]
      /\ vnet' = [s \in Session |-> IF s \in L THEN Null ELSE vnet[s]]
      /\ atable' = [atable EXCEPT ![v] = {}]
      /\ ctable' = [ctable EXCEPT ![v] = [u \in Uuid |-> Null]]
      /\ ftable' = [ftable EXCEPT ![v] = [m \in Mac |-> Null]]
      /\ head' = [head EXCEPT ![v] = Null]
      /\ bits' = [bits EXCEPT ![v] = {}]
      /\ active' = [active EXCEPT ![v] = 0]
      /\ links' = [links EXCEPT ![v] = {}]
      /\ UNCHANGED <<cert, secured, id, next, prev, macs, status, undef>>
      /\ UNCHANGED <<busy, stage, matched>>
    BY DEF CtlDelNetwork, Defined, thread
<1>2. \A s \in L : s \in Session /\ vnet[s] = v /\ id[s] # 0
    BY <1>1, ListOfJoined DEF Joined
<1>3. \A s \in L : state[s] \in {"AUTHED", "PURGE"} /\ cert[s] \in Node
    BY <1>2 DEF SessionShape, TypeOK, State
<1> HIDE DEF L
<1>4. 0 \in 0 .. Word - 1
    BY ConstantsAssumption
<1>5. TypeOK'
    BY <1>1, <1>2, <1>4 DEF TypeOK, State
<1>6. SessionShape'
    BY <1>1, <1>2, <1>3, ConstantsAssumption DEF SessionShape, TypeOK
<1>6a. ThreadShape'
    BY <1>1, <1>2, ConstantsAssumption DEF ThreadShape, TypeOK
<1>7. AbsentShape'
    BY <1>1 DEF AbsentShape, TypeOK
<1>8. ListSound'
    BY <1>1, <1>2, ConstantsAssumption DEF ListSound, Up, Joined, TypeOK
<1>9. MacOwnership'
    BY <1>1, <1>2, ConstantsAssumption DEF MacOwnership, Up, Joined, TypeOK
<1>10. CtableKeyed'
    BY <1>1, <1>2, ConstantsAssumption DEF CtableKeyed, Up, TypeOK
<1>11. OnlineHasSession'
    BY <1>1, <1>3 DEF OnlineHasSession, TypeOK
<1>12. QED
    BY <1>5, <1>6, <1>6a, <1>7, <1>8, <1>9, <1>10, <1>11

(* A step that changes nothing but undef. *)
LEMMA UnchangedInv ==
    ASSUME SwitchInv, UNCHANGED <<sessVars, netVars, thread, status, matched>>, undef' \in BOOLEAN
    PROVE  SwitchInv'
<1>1. /\ UNCHANGED <<state, vnet, cert, secured, id, next, prev, macs>>
      /\ UNCHANGED <<netst, atable, ctable, ftable, head, bits, active, links, status>>
      /\ UNCHANGED <<busy, stage, matched>>
    BY DEF sessVars, netVars, thread
<1>2. TypeOK'
    BY <1>1 DEF SwitchInv, TypeOK
<1>3. QED
    BY <1>1, <1>2 DEF SwitchInv, SessionShape, ThreadShape, AbsentShape, ListSound,
                      MacOwnership, CtableKeyed, OnlineHasSession, Up, Joined

(* SwitchInv is inductive. *)
LEMMA StepInv == SwitchInv /\ [Next]_vars => SwitchInv'
<1> SUFFICES ASSUME SwitchInv, [Next]_vars PROVE SwitchInv'
    OBVIOUS
<1>1. ASSUME NEW s \in Session, SwitchStep(s) PROVE SwitchInv'
    <2>1. ASSUME Undefined(s) PROVE SwitchInv'
        BY <2>1, UnchangedInv DEF Undefined
    <2>2. QED
        BY <1>1, <2>1, ConnectInv, AuthRequestInv, StepUpInv, OnSecureInv,
           OnSecureNamelessInv, LookUpInv, AdmitInv, ForwardInv,
           DisconnectNotAuthedInv, DisconnectNoNetworkInv, DisconnectMemberInv
           DEF SwitchStep, Disconnect
<1>2. CASE ControlStep
    BY <1>2, CtlAddNetworkInv, CtlDelNetworkInv, CtlAddNodeInv, CtlDelNodeInv DEF ControlStep
<1>3. CASE UNCHANGED vars
    BY <1>3, UnchangedInv DEF vars, SwitchInv, TypeOK
<1>4. QED
    BY <1>1, <1>2, <1>3 DEF Next

(* The tables of the switch thread and of the control thread stay consistent in
   every state, for any number of sessions, networks and nodes. *)
THEOREM Invariant == Spec => []SwitchInv
<1>1. Init => SwitchInv
    BY InitInv
<1>2. SwitchInv /\ [Next]_vars => SwitchInv'
    BY StepInv
<1>3. QED
    BY <1>1, <1>2, PTL DEF Spec

(* Type correctness of every reachable state. *)
THEOREM TypeCorrect == Spec => []TypeOK
BY Invariant, PTL DEF SwitchInv

(* vnetwork_add_session and vnetwork_del_session keep the lists sound. *)
THEOREM ListsSound == Spec => []ListSound
BY Invariant, PTL DEF SwitchInv

(* The forwarding table and the address lists of the sessions agree. *)
THEOREM MacsOwned == Spec => []MacOwnership
BY Invariant, PTL DEF SwitchInv

(* Every node reported online has a session. *)
THEOREM OnlineSessions == Spec => []OnlineHasSession
BY Invariant, PTL DEF SwitchInv

(* While agents present the certificates they named, the connection table leads to
   allocated sessions of the network whose agent named that node. *)
THEOREM CtableSound == Spec => []CtableLive
<1>1. SwitchInv => CtableLive
    BY DEF SwitchInv, CtableKeyed, CtableLive
<1>2. QED
    BY <1>1, Invariant, PTL

(* forward_ethernet never sends a frame outside the network of its sender. *)
THEOREM FramesIsolated == Spec => []FrameIsolation
<1>1. ASSUME SwitchInv PROVE FrameIsolation
    <2> SUFFICES ASSUME NEW s \in Session, NEW src \in Mac, NEW dst \in Mac \cup {Broadcast},
                        state[s] = "AUTHED", Up(vnet[s]),
                        NEW t \in Recipients(s, src, dst)
                 PROVE  Live(t) /\ Joined(t, vnet[s])
        BY DEF FrameIsolation
    <2> DEFINE v == vnet[s]
    <2>1. v \in Network /\ Joined(s, v)
        BY <1>1 DEF SwitchInv, SessionShape, Joined
    <2>2. ASSUME NEW x \in Session, Joined(x, v) PROVE Live(x)
        BY <1>1, <2>2 DEF SwitchInv, SessionShape, Joined, Live
    <2>3. \A m \in Mac : Learned(s, src)[m] # Null =>
              Learned(s, src)[m] \in Session /\ Joined(Learned(s, src)[m], v)
        BY <1>1, <2>1 DEF SwitchInv, TypeOK, MacOwnership, Learned
    <2>4. CASE Target(s, src, dst) = Null
        <3>1. t \in ListOf(v)
            BY <2>4 DEF Recipients
        <3>2. QED
            BY <1>1, <2>1, <2>2, <3>1, ListOfJoined DEF SwitchInv
    <2>5. CASE Target(s, src, dst) # Null
        <3>1. t = Target(s, src, dst)
            BY <2>5 DEF Recipients
        <3>2. t \in Session /\ Joined(t, v)
            BY <2>3, <2>5, <3>1 DEF Target
        <3>3. QED
            BY <2>2, <3>2
    <2>6. QED
        BY <2>4, <2>5
<1>2. SwitchInv => FrameIsolation
    BY <1>1
<1>3. QED
    BY <1>2, Invariant, PTL

-----------------------------------------------------------------------------
(* What a step does to the state of one session. *)
StateStep(t) ==
    \/ state'[t] = state[t]
    \/ state[t] = "FREE" /\ state'[t] = "NOT_AUTHED"
    \/ stage = "claimed" /\ busy = t /\ state'[t] = "WAIT_STEPUP"
    \/ stage = "known" /\ busy = t /\ secured[t] /\ state'[t] = "AUTHED"
    \/ state'[t] = "PURGE"
    \/ stage = "idle" /\ state'[t] = "FREE"

(* What a step does to the switch thread: it takes up only a session whose state it
   tested, and reaches "known" only past the lookup. *)
ThreadStep ==
    \/ UNCHANGED <<busy, stage>>
    \/ busy' = Null /\ stage' = "idle"
    \/ /\ busy' \in Session /\ state[busy'] \in {"NOT_AUTHED", "WAIT_STEPUP"}
       /\ stage' \in {"claimed", "tested"}
    \/ /\ busy' = busy /\ cert[busy] \in atable[vnet[busy]]
       /\ UNCHANGED <<cert, vnet>>

(* Every step moves a session along StateStep and the thread along ThreadStep. *)
LEMMA StateSteps ==
    ASSUME SwitchInv, [Next]_vars, NEW t \in Session
    PROVE  StateStep(t) /\ ThreadStep
<1>1. TypeOK /\ ThreadShape /\ Null \notin Session
    BY ConstantsAssumption DEF SwitchInv
<1>2. CASE UNCHANGED <<state, busy, stage>>
    BY <1>2 DEF StateStep, ThreadStep
<1>3. ASSUME NEW s \in Session, SwitchStep(s)
      PROVE  StateStep(t) /\ ThreadStep
    <2>1. CASE Connect(s)
        BY <1>1, <2>1 DEF Connect, Idle, thread, StateStep, ThreadStep, TypeOK
    <2>2. ASSUME NEW n \in Node, AuthRequest(s, n)
          PROVE  StateStep(t) /\ ThreadStep
        BY <2>2 DEF AuthRequest, thread, StateStep, ThreadStep
    <2>3. CASE StepUp(s)
        BY <1>1, <2>3 DEF StepUp, StateStep, ThreadStep, TypeOK
    <2>4. ASSUME NEW n \in Node, OnSecure(s, n)
          PROVE  StateStep(t) /\ ThreadStep
        BY <2>4 DEF OnSecure, InStepUp, StateStep, ThreadStep
    <2>5. CASE OnSecureNameless(s)
        BY <1>2, <2>5 DEF OnSecureNameless, thread
    <2>6. CASE LookUp(s)
        BY <2>6 DEF LookUp, Known, sessVars, StateStep, ThreadStep
    <2>7. CASE Admit(s)
        <3>1. secured[s]
            BY <1>1, <2>7 DEF Admit, ThreadShape
        <3>2. QED
            BY <1>1, <2>7, <3>1 DEF Admit, StateStep, ThreadStep, TypeOK
    <2>8. ASSUME NEW src \in Mac, NEW dst \in Mac \cup {Broadcast}, Forward(s, src, dst)
          PROVE  StateStep(t) /\ ThreadStep
        BY <1>2, <2>8 DEF Forward, Idle, thread
    <2>9. CASE Disconnect(s)
        BY <1>1, <2>9 DEF Disconnect, DisconnectNotAuthed, DisconnectNoNetwork,
                          DisconnectMember, Free, Idle, thread, StateStep, ThreadStep, TypeOK
    <2>10. CASE Undefined(s)
        BY <1>2, <2>10 DEF Undefined, sessVars, thread
    <2>11. QED
        BY <1>3, <2>1, <2>2, <2>3, <2>4, <2>5, <2>6, <2>7, <2>8, <2>9, <2>10 DEF SwitchStep
<1>4. CASE ControlStep
    <2>1. ASSUME NEW v \in Network, CtlAddNetwork(v) \/ CtlDelNetwork(v)
          PROVE  StateStep(t) /\ ThreadStep
        BY <1>1, <2>1 DEF CtlAddNetwork, CtlDelNetwork, sessVars, thread, StateStep,
                          ThreadStep, TypeOK
    <2>2. ASSUME NEW n \in Node, CtlAddNode(n) \/ CtlDelNode(n)
          PROVE  StateStep(t) /\ ThreadStep
        BY <1>1, <2>2 DEF CtlAddNode, CtlDelNode, sessVars, thread, StateStep,
                          ThreadStep, TypeOK
    <2>3. QED
        BY <1>4, <2>1, <2>2 DEF ControlStep
<1>5. QED
    BY <1>2, <1>3, <1>4 DEF Next, vars, sessVars, thread

(* on_secure is the only way to AUTHED, and asks the access table first. *)
THEOREM Admitted == Spec => Admission
<1>1. ASSUME SwitchInv, [Next]_vars
      PROVE  [/\ \A s \in Session : state'[s] = "AUTHED" /\ state[s] # "AUTHED" =>
                    busy = s /\ stage = "known" /\ secured[s]
              /\ stage' = "known" /\ stage # "known" =>
                    /\ busy' = busy
                    /\ cert[busy] \in atable[vnet[busy]]
                    /\ <<cert', vnet'>> = <<cert, vnet>>]_vars
    <2>1. \A s \in Session : state'[s] = "AUTHED" /\ state[s] # "AUTHED" =>
              busy = s /\ stage = "known" /\ secured[s]
        BY <1>1, StateSteps DEF StateStep
    <2>2. CASE \E s \in Session : TRUE
        BY <1>1, <2>1, <2>2, StateSteps DEF ThreadStep
    <2>3. CASE ~ \E s \in Session : TRUE
        <3>1. UNCHANGED stage \/ UNCHANGED vars
            BY <1>1, <2>3 DEF Next, ControlStep, CtlAddNetwork, CtlDelNetwork, CtlAddNode,
                              CtlDelNode, thread, vars
        <3>2. QED
            BY <2>1, <3>1
    <2>4. QED
        BY <2>2, <2>3
<1>2. QED
    BY <1>1, Invariant, PTL DEF Spec, Admission

(* No handler starts to work for a session that del_node or del_network marked, and
   only a handler that had already tested its state overwrites the mark. *)
THEOREM PurgeFinal == Spec => PurgeIsFinal
<1>1. ASSUME SwitchInv, [Next]_vars
      PROVE  [\A s \in Session : state[s] = "PURGE" =>
                 /\ busy # s => state'[s] \in {"PURGE", "FREE"} /\ busy' # s
                 /\ busy = s => state'[s] # "FREE"]_vars
    <2> SUFFICES ASSUME NEW s \in Session, state[s] = "PURGE"
                 PROVE  /\ busy # s => state'[s] \in {"PURGE", "FREE"} /\ busy' # s
                        /\ busy = s => state'[s] # "FREE"
        OBVIOUS
    <2>1. StateStep(s) /\ ThreadStep
        BY <1>1, StateSteps
    <2>2. busy = s => stage # "idle"
        BY <1>1, ConstantsAssumption DEF SwitchInv, ThreadShape
    <2>3. QED
        BY <2>1, <2>2, ConstantsAssumption DEF StateStep, ThreadStep
<1>2. QED
    BY <1>1, Invariant, PTL DEF Spec, PurgeIsFinal

-----------------------------------------------------------------------------
(* Joined pairs name sessions that are still there.  Each step either keeps the
   sessions of a network and their ids, or removes one whose pairs it removed. *)
LinksOf(v) ==
    \A l \in links[v] : \E s, t \in Session :
        s # t /\ Joined(s, v) /\ Joined(t, v) /\ l = {id[s], id[t]}

(* If the sessions of a network keep their ids and no pair is added, its pairs
   still name its sessions. *)
LEMMA LinksKept ==
    ASSUME NEW v \in Network, LinksOf(v), links'[v] \subseteq links[v],
           \A s \in Session : Joined(s, v) => vnet'[s] = vnet[s] /\ id'[s] = id[s]
    PROVE  LinksOf(v)'
<1> SUFFICES ASSUME NEW l \in links'[v]
             PROVE  \E s, t \in Session : /\ s # t /\ l = {id'[s], id'[t]}
                                          /\ vnet'[s] = v /\ id'[s] # 0
                                          /\ vnet'[t] = v /\ id'[t] # 0
    BY DEF LinksOf, Joined
<1>1. PICK s \in Session, t \in Session :
          s # t /\ Joined(s, v) /\ Joined(t, v) /\ l = {id[s], id[t]}
    BY DEF LinksOf
<1>2. QED
    BY <1>1 DEF Joined

(* forward_ethernet joins the owner of the source and the target, both members. *)
LEMMA LinksForward ==
    ASSUME SwitchInv, LinksLive, NEW s \in Session, NEW src \in Mac,
           NEW dst \in Mac \cup {Broadcast}, Forward(s, src, dst)
    PROVE  LinksLive'
<1> DEFINE v == vnet[s]
           o == Owner(s, src)
           t == Target(s, src, dst)
<1>1. /\ state[s] = "AUTHED" /\ Up(v)
      /\ links' = IF t # Null /\ t # o
                  THEN [links EXCEPT ![v] = @ \cup {{id[o], id[t]}}] ELSE links
      /\ UNCHANGED <<vnet, id, netst>>
    BY DEF Forward
<1>2. v \in Network /\ Joined(s, v)
    BY <1>1 DEF SwitchInv, SessionShape, Joined
<1>3. \A m \in Mac : Learned(s, src)[m] # Null =>
          Learned(s, src)[m] \in Session /\ Joined(Learned(s, src)[m], v)
    BY <1>1, <1>2 DEF SwitchInv, TypeOK, MacOwnership, Learned
<1>4. o \in Session /\ Joined(o, v)
    <2>1. Learned(s, src)[src] # Null
        BY <1>2, ConstantsAssumption DEF Learned, SwitchInv, TypeOK
    <2>2. QED
        BY <1>3, <2>1 DEF Owner
<1>5. t # Null => t \in Session /\ Joined(t, v)
    BY <1>3 DEF Target
<1> HIDE DEF v, o, t
<1>6. SUFFICES ASSUME NEW w \in Network, Up(w), NEW l \in links'[w]
               PROVE  \E x, y \in Session :
                          x # y /\ Joined(x, w) /\ Joined(y, w) /\ l = {id[x], id[y]}
    BY <1>1 DEF LinksLive, Up, Joined
<1>7. CASE l \in links[w]
    BY <1>6, <1>7 DEF LinksLive
<1>8. CASE l \notin links[w]
    <2>1. t # Null /\ t # o /\ w = v /\ l = {id[o], id[t]}
        BY <1>1, <1>2, <1>6, <1>8 DEF SwitchInv, TypeOK
    <2>2. QED
        BY <1>4, <1>5, <2>1
<1>9. QED
    BY <1>7, <1>8

(* linkst_disjoin removed every pair of the id that is released. *)
LEMMA LinksDisconnect ==
    ASSUME SwitchInv, LinksLive, NEW s \in Session, DisconnectMember(s)
    PROVE  LinksLive'
<1> DEFINE v == vnet[s]
<1>1. /\ v # Null /\ Up(v)
      /\ links' = [links EXCEPT ![v] = IF id[s] = 0 THEN @ ELSE Disjoin(@, id[s])]
      /\ vnet' = [vnet EXCEPT ![s] = Null]
      /\ id' = [id EXCEPT ![s] = 0]
      /\ UNCHANGED netst
    BY DEF DisconnectMember, Free
<1>2. v \in Network
    BY <1>1 DEF SwitchInv, TypeOK
<1>3. SUFFICES ASSUME NEW w \in Network, Up(w), NEW l \in links'[w]
               PROVE  (\E x, y \in Session :
                          x # y /\ Joined(x, w) /\ Joined(y, w) /\ l = {id[x], id[y]})'
    BY <1>1 DEF LinksLive, Up
<1>4. l \in links[w] /\ (w = v /\ id[s] # 0 => id[s] \notin l)
    BY <1>1, <1>2 DEF Disjoin, SwitchInv, TypeOK
<1>5. PICK x \in Session, y \in Session :
          x # y /\ Joined(x, w) /\ Joined(y, w) /\ l = {id[x], id[y]}
    BY <1>3, <1>4 DEF LinksLive
<1>6. x # s /\ y # s
    BY <1>4, <1>5 DEF Joined
<1>7. Joined(x, w)' /\ Joined(y, w)' /\ l = {id'[x], id'[y]}
    BY <1>1, <1>5, <1>6 DEF Joined, SwitchInv, TypeOK
<1>8. QED
    BY <1>5, <1>7

(* A step that keeps the sessions of the networks that stay up, and adds no
   pair, keeps the property. *)
LEMMA LinksStay ==
    ASSUME LinksLive,
           \A v \in Network : Up(v)' =>
               \/ links'[v] = {}
               \/ /\ Up(v) /\ links'[v] \subseteq links[v]
                  /\ \A s \in Session : Joined(s, v) => vnet'[s] = vnet[s] /\ id'[s] = id[s]
    PROVE  LinksLive'
<1>1. ASSUME NEW v \in Network, Up(v)' PROVE LinksOf(v)'
    <2>1. CASE links'[v] = {}
        BY <2>1 DEF LinksOf
    <2>2. CASE links'[v] # {}
        BY <1>1, <2>2, LinksKept DEF LinksLive, LinksOf
    <2>3. QED
        BY <2>1, <2>2
<1>2. QED
    BY <1>1 DEF LinksLive, LinksOf

(* LinksLive is preserved by every step. *)
LEMMA LinksStep ==
    ASSUME SwitchInv, LinksLive, [Next]_vars
    PROVE  LinksLive'
<1> USE DEF SwitchInv
<1>1. CASE UNCHANGED <<vnet, id, netst, links>>
    BY <1>1, LinksStay DEF Up
<1>2. ASSUME NEW s \in Session, SwitchStep(s)
      PROVE  LinksLive'
    <2>1. CASE Connect(s)
        BY <1>1, <2>1 DEF Connect, netVars
    <2>2. ASSUME NEW n \in Node, AuthRequest(s, n)
          PROVE  LinksLive'
        <3>1. /\ UNCHANGED <<id, netst, links>> /\ id[s] = 0
              /\ UNCHANGED vnet \/ vnet' = [vnet EXCEPT ![s] = NodeNet[n]]
            BY <2>2 DEF AuthRequest, SessionShape
        <3>2. QED
            BY <3>1, LinksStay DEF Up, Joined, TypeOK
    <2>3. CASE Admit(s)
        <3>1. /\ UNCHANGED <<vnet, netst, links>> /\ id[s] = 0
              /\ id' = [id EXCEPT ![s] = NewId(vnet[s])]
            BY <2>3 DEF Admit, AddSession, ThreadShape
        <3>2. QED
            BY <3>1, LinksStay DEF Up, Joined, TypeOK
    <2>3a. ASSUME NEW n \in Node, OnSecure(s, n)
           PROVE  LinksLive'
        BY <1>1, <2>3a DEF OnSecure, netVars
    <2>3b. CASE StepUp(s) \/ OnSecureNameless(s) \/ LookUp(s)
        BY <1>1, <2>3b DEF StepUp, OnSecureNameless, LookUp, sessVars, netVars
    <2>4. ASSUME NEW src \in Mac, NEW dst \in Mac \cup {Broadcast}, Forward(s, src, dst)
          PROVE  LinksLive'
        BY <2>4, LinksForward
    <2>5. CASE DisconnectNotAuthed(s) \/ DisconnectNoNetwork(s)
        <3>1. vnet[s] = Null
            BY <2>5, ConstantsAssumption
               DEF DisconnectNotAuthed, DisconnectNoNetwork, SessionShape, ThreadShape, Idle
        <3>2. /\ UNCHANGED <<netst, links>>
              /\ vnet' = [vnet EXCEPT ![s] = Null]
              /\ id' = [id EXCEPT ![s] = 0]
            BY <2>5 DEF DisconnectNotAuthed, DisconnectNoNetwork, Free, netVars
        <3>3. QED
            BY <3>1, <3>2, LinksStay, ConstantsAssumption DEF Up, Joined, TypeOK
    <2>6. CASE DisconnectMember(s)
        BY <2>6, LinksDisconnect
    <2>7. CASE Undefined(s)
        BY <1>1, <2>7 DEF Undefined, sessVars, netVars
    <2>8. QED
        BY <1>2, <2>1, <2>2, <2>3, <2>3a, <2>3b, <2>4, <2>5, <2>6, <2>7
           DEF SwitchStep, Disconnect
<1>3. CASE ControlStep
    <2>1. ASSUME NEW v \in Network, CtlAddNetwork(v)
          PROVE  LinksLive'
        <3>1. links[v] = {} /\ netst' = [netst EXCEPT ![v] = "up"] /\ UNCHANGED <<vnet, id, links>>
            BY <2>1 DEF CtlAddNetwork, sessVars, AbsentShape
        <3>2. QED
            BY <3>1, LinksStay DEF Up, TypeOK
    <2>2. ASSUME NEW v \in Network, CtlDelNetwork(v)
          PROVE  LinksLive'
        <3>1. /\ netst' = [netst EXCEPT ![v] = "freed"] /\ links' = [links EXCEPT ![v] = {}]
              /\ vnet' = [s \in Session |-> IF s \in ListOf(v) THEN Null ELSE vnet[s]]
              /\ UNCHANGED id /\ Up(v)
            BY <2>2 DEF CtlDelNetwork
        <3>2. \A s \in ListOf(v) : vnet[s] = v
            BY <3>1, ListOfJoined DEF Joined
        <3>3. QED
            BY <3>1, <3>2, LinksStay DEF Up, Joined, TypeOK
    <2>3. ASSUME NEW n \in Node, CtlAddNode(n) \/ CtlDelNode(n)
          PROVE  LinksLive'
        BY <1>1, <2>3 DEF CtlAddNode, CtlDelNode, sessVars
    <2>4. QED
        BY <1>3, <2>1, <2>2, <2>3 DEF ControlStep
<1>4. QED
    BY <1>1, <1>2, <1>3 DEF Next, vars, sessVars, netVars

(* linkst_disjoin runs before the id goes back to the pool, so a joined pair
   always names two sessions of the network. *)
THEOREM LinksAreLive == Spec => []LinksLive
<1>1. Init => SwitchInv /\ LinksLive
    BY InitInv DEF Init, LinksLive, Up
<1>2. (SwitchInv /\ LinksLive) /\ [Next]_vars => (SwitchInv /\ LinksLive)'
    BY StepInv, LinksStep
<1>3. QED
    BY <1>1, <1>2, PTL DEF Spec

-----------------------------------------------------------------------------
(* Within the capacity of the bitpool, which on_secure does not check. *)
Capacity == IsFiniteSet(Session) /\ Cardinality(Session) <= MaxNode

Members(v) == {t \in Session : Joined(t, v)}

(* A session that is not in the network yet finds a free bit. *)
LEMMA RoomForOne ==
    ASSUME Capacity, TypeOK, NEW v \in Network, NEW s \in Session, ~ Joined(s, v),
           bits[v] = {id[t] - 1 : t \in Members(v)}
    PROVE  FreeBits(v) # {}
<1> SUFFICES ASSUME FreeBits(v) = {} PROVE FALSE
    OBVIOUS
<1> DEFINE S == Session \ {s}
           f == [t \in S |-> IF Joined(t, v) THEN id[t] - 1 ELSE 0]
<1>1. IsFiniteSet(S) /\ Cardinality(S) < MaxNode
    <2>1. IsFiniteSet(S) /\ Cardinality(S) = Cardinality(Session) - 1
        BY FS_RemoveElement DEF Capacity
    <2>2. Cardinality(Session) \in Nat
        BY FS_CardinalityType DEF Capacity
    <2>3. QED
        BY <2>1, <2>2, ConstantsAssumption DEF Capacity
<1>2. f \in Surjection(S, Bit)
    <2>1. f \in [S -> Bit]
        <3>1. \A t \in S : id[t] \in 0 .. MaxNode
            BY DEF TypeOK
        <3>2. \A t \in S : (IF Joined(t, v) THEN id[t] - 1 ELSE 0) \in Bit
            BY <3>1, ConstantsAssumption DEF Joined, Bit
        <3>3. QED
            BY <3>2
    <2>2. ASSUME NEW b \in Bit PROVE \E t \in S : f[t] = b
        <3>1. b \in bits[v]
            BY DEF FreeBits
        <3>2. PICK t \in Members(v) : b = id[t] - 1
            BY <3>1
        <3>3. t \in S /\ Joined(t, v)
            BY <3>2 DEF Members
        <3>4. QED
            BY <3>2, <3>3
    <2> HIDE DEF f
    <2>3. QED
        BY <2>1, <2>2 DEF Surjection
<1>3. Cardinality(Bit) <= Cardinality(S)
    BY <1>1, <1>2, FS_Surjection
<1>4. Cardinality(Bit) = MaxNode
    <2>1. Cardinality(Bit) = IF 0 > MaxNode - 1 THEN 0 ELSE (MaxNode - 1) - 0 + 1
        BY FS_Interval, ConstantsAssumption DEF Bit
    <2>2. QED
        BY <2>1, ConstantsAssumption
<1>5. Cardinality(S) \in Nat
    BY <1>1, FS_CardinalityType
<1>6. QED
    BY <1>1, <1>3, <1>4, <1>5, ConstantsAssumption

(* The sessions of a network are untouched: so is the exactness of its pool. *)
IdsOf(v) ==
    /\ bits[v] = {id[t] - 1 : t \in Members(v)}
    /\ \A s, t \in Session : Joined(s, v) /\ Joined(t, v) /\ id[s] = id[t] => s = t

(* If the sessions of a network and their ids stay, its pool stays exact. *)
LEMMA IdsKept ==
    ASSUME NEW v \in Network, IdsOf(v), bits'[v] = bits[v],
           \A t \in Session : Joined(t, v)' <=> Joined(t, v),
           \A t \in Session : Joined(t, v) => id'[t] = id[t]
    PROVE  IdsOf(v)'
<1>1. Members(v)' = Members(v)
    BY DEF Members
<1>2. \A t \in Members(v) : id'[t] - 1 = id[t] - 1
    BY DEF Members
<1>3. {id'[t] - 1 : t \in Members(v)} = {id[t] - 1 : t \in Members(v)}
    BY <1>2
<1>4. bits'[v] = {id'[t] - 1 : t \in Members(v)'}
    BY <1>1, <1>3 DEF IdsOf
<1>5. \A s, t \in Session : Joined(s, v)' /\ Joined(t, v)' /\ id'[s] = id'[t] => s = t
    BY DEF IdsOf
<1>6. QED
    BY <1>4, <1>5 DEF IdsOf

(* A step that keeps sessions, ids and pools keeps IdsExact. *)
LEMMA IdsStay ==
    ASSUME IdsExact,
           \A v \in Network : Up(v)' =>
               /\ Up(v) /\ bits'[v] = bits[v]
               /\ \A t \in Session : Joined(t, v)' <=> Joined(t, v)
               /\ \A t \in Session : Joined(t, v) => id'[t] = id[t]
    PROVE  IdsExact'
<1>1. ASSUME NEW v \in Network, Up(v)' PROVE IdsOf(v)'
    BY <1>1, IdsKept DEF IdsExact, IdsOf, Members
<1>2. QED
    BY <1>1 DEF IdsExact, IdsOf, Members

(* The new id is the first free one. *)
LEMMA IdsAdmit ==
    ASSUME Capacity, SwitchInv, IdsExact, NEW s \in Session, Admit(s),
           NEW v, v = vnet[s]
    PROVE  IdsExact'
<1> USE DEF SwitchInv
<1> DEFINE b == FirstZero(v)
<1>1. Up(v) /\ UNCHANGED <<vnet, netst>>
    BY DEF Admit
<1>2. v \in Network /\ id[s] = 0
    BY DEF Admit, ThreadShape
<1>4. CASE AddSession(s, v)
    <2>1. bits[v] = {id[t] - 1 : t \in Members(v)} /\ IdsOf(v)
        BY <1>1, <1>2 DEF IdsExact, IdsOf, Members
    <2>2. ~ Joined(s, v)
        BY <1>2 DEF Joined
    <2>3. b \in FreeBits(v) /\ b \in Bit
        BY <1>2, <2>1, <2>2, RoomForOne, FirstZeroIsFree
    <2>4. id' = [id EXCEPT ![s] = b + 1] /\ bits' = [bits EXCEPT ![v] = @ \cup {b}]
        BY <1>4, <2>3 DEF AddSession, NewId, BitsAfterAdd
    <2>5. b \notin bits[v] /\ b \in Nat
        BY <2>3, ConstantsAssumption DEF FreeBits, Bit
    <2> HIDE DEF b
    <2>6. id'[s] = b + 1 /\ \A t \in Session \ {s} : id'[t] = id[t]
        BY <2>4 DEF TypeOK
    <2>7. \A t \in Session : Joined(t, v)' <=> t = s \/ Joined(t, v)
        BY <1>1, <2>2, <2>5, <2>6 DEF Joined
    <2>8. bits'[v] = {id'[t] - 1 : t \in Members(v)'}
        <3>1. Members(v)' = Members(v) \cup {s}
            BY <2>7 DEF Members
        <3>2. {id'[t] - 1 : t \in Members(v)} = {id[t] - 1 : t \in Members(v)}
            BY <2>2, <2>6 DEF Members
        <3>3. id'[s] - 1 = b
            BY <2>5, <2>6
        <3>4. bits'[v] = bits[v] \cup {b}
            BY <1>2, <2>4 DEF TypeOK
        <3>5. {id'[t] - 1 : t \in Members(v) \cup {s}}
                  = {id'[t] - 1 : t \in Members(v)} \cup {id'[s] - 1}
            OBVIOUS
        <3>6. QED
            BY <2>1, <3>1, <3>2, <3>3, <3>4, <3>5
    <2>9. ASSUME NEW t \in Session, Joined(t, v) PROVE id[t] # b + 1
        <3>1. id[t] - 1 \in bits[v]
            BY <2>1, <2>9 DEF Members
        <3>2. QED
            BY <2>5, <3>1
    <2>10. ASSUME NEW x \in Session, NEW y \in Session,
                  Joined(x, v)', Joined(y, v)', id'[x] = id'[y]
           PROVE  x = y
        BY <2>1, <2>6, <2>7, <2>9, <2>10 DEF IdsOf
    <2>11. IdsOf(v)'
        BY <2>8, <2>10 DEF IdsOf
    <2>12. ASSUME NEW w \in Network, w # v, Up(w)' PROVE IdsOf(w)'
        <3>1. IdsOf(w) /\ bits'[w] = bits[w]
            BY <1>1, <2>4, <2>12 DEF IdsExact, IdsOf, Members, Up, TypeOK
        <3>2. \A t \in Session : Joined(t, w) => t # s
            BY <1>2, <2>12 DEF Joined
        <3>3. \A t \in Session : Joined(t, w)' <=> Joined(t, w)
            BY <1>1, <2>6, <2>12, <3>2 DEF Joined
        <3>4. QED
            BY <2>6, <3>1, <3>2, <3>3, IdsKept
    <2>13. QED
        BY <2>11, <2>12 DEF IdsExact, IdsOf, Members
<1>5. QED
    BY <1>4 DEF Admit

(* The released bit is the leaving session's own. *)
LEMMA IdsDisconnect ==
    ASSUME SwitchInv, IdsExact, NEW s \in Session, DisconnectMember(s),
           NEW v, v = vnet[s]
    PROVE  IdsExact'
<1> USE DEF SwitchInv
<1>1. /\ v # Null /\ Up(v)
      /\ bits' = [bits EXCEPT ![v] = BitsAfterDel(s, v)]
      /\ vnet' = [vnet EXCEPT ![s] = Null]
      /\ id' = [id EXCEPT ![s] = 0]
      /\ UNCHANGED netst
    BY DEF DisconnectMember, Free
<1>2. v \in Network
    BY <1>1 DEF TypeOK
<1>3. \A w \in Network, t \in Session : Joined(t, w)' <=> t # s /\ Joined(t, w)
    BY <1>1, ConstantsAssumption DEF Joined, TypeOK
<1>4. \A t \in Session \ {s} : id'[t] = id[t]
    BY <1>1 DEF TypeOK
<1>5. \A w \in Network : Joined(s, w) => w = v
    BY DEF Joined
<1>6. bits'[v] = BitsAfterDel(s, v) /\ \A w \in Network \ {v} : bits'[w] = bits[w]
    BY <1>1, <1>2 DEF TypeOK
<1>7. IdsOf(v)
    BY <1>1, <1>2 DEF IdsExact, IdsOf, Members
<1>8. CASE ~ Joined(s, v)
    <2>1. id[s] = 0
        BY <1>8 DEF Joined
    <2>2. bits'[v] = bits[v]
        BY <1>6, <2>1 DEF BitsAfterDel
    <2>3. ASSUME NEW w \in Network, Up(w)' PROVE IdsOf(w)'
        <3>1. IdsOf(w) /\ bits'[w] = bits[w]
            BY <1>1, <1>6, <2>2, <2>3 DEF IdsExact, IdsOf, Members, Up
        <3>2. \A t \in Session : Joined(t, w) => t # s
            BY <1>5, <1>8
        <3>3. QED
            BY <1>3, <1>4, <3>1, <3>2, IdsKept
    <2>4. QED
        BY <2>3 DEF IdsExact, IdsOf, Members
<1>9. CASE Joined(s, v)
    <2>1. id[s] # 0 /\ bits'[v] = bits[v] \ {id[s] - 1}
        BY <1>6, <1>9 DEF Joined, BitsAfterDel
    <2>2. \A t \in Session : id[t] \in Nat
        BY ConstantsAssumption DEF TypeOK
    <2>3. Members(v)' = Members(v) \ {s}
        BY <1>2, <1>3 DEF Members
    <2>4. {id'[t] - 1 : t \in Members(v) \ {s}} = {id[t] - 1 : t \in Members(v) \ {s}}
        BY <1>4 DEF Members
    <2>5. \A t \in Members(v) \ {s} : id[t] - 1 # id[s] - 1
        BY <1>7, <1>9, <2>2 DEF IdsOf, Members
    <2>6. {id[t] - 1 : t \in Members(v)} \ {id[s] - 1} = {id[t] - 1 : t \in Members(v) \ {s}}
        BY <2>5
    <2>7. bits'[v] = {id'[t] - 1 : t \in Members(v)'}
        BY <1>7, <2>1, <2>3, <2>4, <2>6 DEF IdsOf
    <2>8. ASSUME NEW x \in Session, NEW y \in Session,
                 Joined(x, v)', Joined(y, v)', id'[x] = id'[y]
          PROVE  x = y
        BY <1>2, <1>3, <1>4, <1>7, <2>8 DEF IdsOf
    <2>9. IdsOf(v)'
        BY <2>7, <2>8 DEF IdsOf
    <2>10. ASSUME NEW w \in Network, w # v, Up(w)' PROVE IdsOf(w)'
        <3>1. IdsOf(w) /\ bits'[w] = bits[w]
            BY <1>1, <1>6, <2>10 DEF IdsExact, IdsOf, Members, Up
        <3>2. \A t \in Session : Joined(t, w) => t # s
            BY <1>5, <2>10
        <3>3. QED
            BY <1>3, <1>4, <3>1, <3>2, IdsKept
    <2>11. QED
        BY <2>9, <2>10 DEF IdsExact, IdsOf, Members
<1>10. QED
    BY <1>8, <1>9

(* IdsExact is preserved by every step. *)
LEMMA IdsStep ==
    ASSUME Capacity, SwitchInv, IdsExact, [Next]_vars
    PROVE  IdsExact'
<1> USE DEF SwitchInv
<1>1. CASE UNCHANGED <<vnet, id, netst, bits>>
    BY <1>1, IdsStay DEF Up, Joined
<1>2. ASSUME NEW s \in Session, SwitchStep(s)
      PROVE  IdsExact'
    <2>1. CASE Connect(s)
        BY <1>1, <2>1 DEF Connect, netVars
    <2>2. ASSUME NEW n \in Node, AuthRequest(s, n)
          PROVE  IdsExact'
        <3>1. /\ UNCHANGED <<id, netst, bits>> /\ id[s] = 0
              /\ UNCHANGED vnet \/ vnet' = [vnet EXCEPT ![s] = NodeNet[n]]
            BY <2>2 DEF AuthRequest, SessionShape
        <3>2. QED
            BY <3>1, IdsStay DEF Up, Joined, TypeOK
    <2>3. ASSUME NEW src \in Mac, NEW dst \in Mac \cup {Broadcast}, Forward(s, src, dst)
          PROVE  IdsExact'
        BY <1>1, <2>3 DEF Forward
    <2>4. CASE DisconnectNotAuthed(s) \/ DisconnectNoNetwork(s)
        <3>1. vnet[s] = Null
            BY <2>4, ConstantsAssumption
               DEF DisconnectNotAuthed, DisconnectNoNetwork, SessionShape, ThreadShape, Idle
        <3>2. /\ UNCHANGED <<netst, bits>>
              /\ vnet' = [vnet EXCEPT ![s] = Null]
              /\ id' = [id EXCEPT ![s] = 0]
            BY <2>4 DEF DisconnectNotAuthed, DisconnectNoNetwork, Free, netVars
        <3>3. QED
            BY <3>1, <3>2, IdsStay, ConstantsAssumption DEF Up, Joined, TypeOK
    <2>5. CASE Undefined(s)
        BY <1>1, <2>5 DEF Undefined, sessVars, netVars
    <2>5a. ASSUME NEW n \in Node, OnSecure(s, n)
           PROVE  IdsExact'
        BY <1>1, <2>5a DEF OnSecure, netVars
    <2>5b. CASE StepUp(s) \/ OnSecureNameless(s) \/ LookUp(s)
        BY <1>1, <2>5b DEF StepUp, OnSecureNameless, LookUp, sessVars, netVars
    <2>6. QED
        BY <1>2, <2>1, <2>2, <2>3, <2>4, <2>5, <2>5a, <2>5b, IdsAdmit, IdsDisconnect
           DEF SwitchStep, Disconnect
<1>3. CASE ControlStep
    <2>1. ASSUME NEW v \in Network, CtlAddNetwork(v)
          PROVE  IdsExact'
        <3>1. /\ netst[v] = "absent" /\ bits[v] = {}
              /\ netst' = [netst EXCEPT ![v] = "up"] /\ UNCHANGED <<vnet, id, bits>>
            BY <2>1 DEF CtlAddNetwork, sessVars, AbsentShape
        <3>2. Members(v) = {}
            BY <3>1, ConstantsAssumption DEF Members, Joined, SessionShape
        <3>3. IdsOf(v)
            BY <3>1, <3>2 DEF IdsOf, Members
        <3>4. ASSUME NEW w \in Network, Up(w)' PROVE IdsOf(w)
            BY <3>1, <3>3, <3>4 DEF IdsExact, IdsOf, Members, Up, TypeOK
        <3>5. QED
            BY <3>1, <3>4 DEF IdsExact, IdsOf, Members, Joined
    <2>2. ASSUME NEW v \in Network, CtlDelNetwork(v)
          PROVE  IdsExact'
        <3>1. /\ netst' = [netst EXCEPT ![v] = "freed"] /\ bits' = [bits EXCEPT ![v] = {}]
              /\ vnet' = [s \in Session |-> IF s \in ListOf(v) THEN Null ELSE vnet[s]]
              /\ UNCHANGED id /\ Up(v)
            BY <2>2 DEF CtlDelNetwork
        <3>2. \A s \in ListOf(v) : vnet[s] = v
            BY <3>1, ListOfJoined DEF Joined
        <3>3. QED
            BY <3>1, <3>2, IdsStay, ConstantsAssumption DEF Up, Joined, TypeOK
    <2>3. ASSUME NEW n \in Node, CtlAddNode(n) \/ CtlDelNode(n)
          PROVE  IdsExact'
        BY <1>1, <2>3 DEF CtlAddNode, CtlDelNode, sessVars
    <2>4. QED
        BY <1>3, <2>1, <2>2, <2>3 DEF ControlStep
<1>4. QED
    BY <1>1, <1>2, <1>3 DEF Next, vars, sessVars, netVars

(* As long as a network cannot have more sessions than its pool has bits, ids
   are unique and the pool holds exactly the ids in use, whatever is refused,
   purged or dropped in the middle of the step-up. *)
THEOREM IdsAreExact == ASSUME Capacity PROVE Spec => []IdsExact
<1>1. Init => SwitchInv /\ IdsExact
    BY InitInv DEF Init, IdsExact, Up
<1>2. (SwitchInv /\ IdsExact) /\ [Next]_vars => (SwitchInv /\ IdsExact)'
    BY StepInv, IdsStep
<1>3. QED
    BY <1>1, <1>2, PTL DEF Spec
=============================================================================
