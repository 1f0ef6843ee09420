------------------------------- MODULE Switch -------------------------------
(***************************************************************************)
(* The core of nvswitch: the sessions of the connected agents and the      *)
(* virtual networks they join (nvswitch/src/switch.c, request.c,           *)
(* vnetwork.c, session.c), together with the messages of the control       *)
(* thread that change the same tables (nvswitch/src/control.c).            *)
(*                                                                         *)
(* A session is a heap object.  session_new() takes any object that is not *)
(* allocated ("FREE" here) and session_free() gives it back, so a pointer  *)
(* kept in a table after the session is freed may later name somebody      *)
(* else's session, exactly as a reused address does.                       *)
(*                                                                         *)
(* The two threads share all of this without a lock.  The handlers that    *)
(* test a session's state and write it later, authRequest and on_secure,   *)
(* are split where a message of the controller can fall between; busy and  *)
(* stage say how far the switch thread is.                                 *)
(*                                                                         *)
(* Undefined behaviour (a freed object is read, or freed twice) sets undef *)
(* and ends the behaviour: nothing is promised from there on.              *)
(***************************************************************************)
EXTENDS Integers, FiniteSets

CONSTANTS
    Session,        \* struct session objects, one per accepted connection
    Network,        \* virtual networks (uuids, never reused by the controller)
    Node,           \* provisioned nodes: the certificates agents name and present
    Mac,            \* unicast source addresses of the frames
    Broadcast,      \* the broadcast or a multicast destination
    NodeNet,        \* [Node -> Network], the network that issued the certificate
    V1Node,         \* nodes with a version 1 certificate (uuid in the CN)
    EmptyUuid,      \* node_info->uuid as cn2node_info leaves it for "nva2-" names
    MaxNode,        \* MAX_NODE, the size of the bitpool and of the tables
    Word,           \* 2^32 in the code: active_node is a uint32_t
    Null            \* the NULL pointer

ASSUME ConstantsAssumption ==
    /\ Null \notin Session \cup Network \cup Node \cup {EmptyUuid}
    /\ EmptyUuid \notin Node
    /\ Broadcast \notin Mac
    /\ NodeNet \in [Node -> Network]
    /\ V1Node \subseteq Node
    /\ MaxNode \in Nat \ {0}
    /\ Word \in Nat \ {0}

Uuid  == Node \cup {EmptyUuid}
Bit   == 0 .. MaxNode - 1
State == {"FREE", "NOT_AUTHED", "WAIT_STEPUP", "AUTHED", "PURGE"}

VARIABLES
    (* struct session *)
    state,          \* session->state, or "FREE": not allocated
    vnet,           \* session->vnetwork
    cert,           \* the node of session->node_info, Null when that is NULL or freed
    secured,        \* node_info was replaced from the peer certificate
    id,             \* session->id, 0 until it joins a network
    next, prev,     \* links of vnetwork->session_list
    macs,           \* session->mac_list
    (* struct vnetwork *)
    netst,          \* "absent", "up" (in the trees) or "freed"
    atable,         \* access table: the nodes that may connect
    ctable,         \* connection table: uuid -> session
    ftable,         \* forwarding table: mac -> session
    head,           \* session_list
    bits,           \* bitpool: the allocated bits
    active,         \* active_node
    links,          \* linkst: joined pairs of session ids
    (* the switch thread inside a handler *)
    busy,           \* the session whose handler is running
    stage,          \* "claimed" in authRequest; "tested", "known" in on_secure
    (* what the controller was last told, and the end of defined behaviour *)
    status,         \* last update-node-status written for a node
    undef,
    (* history *)
    matched         \* every certificate presented was the one its agent had named

sessVars == <<state, vnet, cert, secured, id, next, prev, macs>>
netVars  == <<netst, atable, ctable, ftable, head, bits, active, links>>
thread   == <<busy, stage>>
vars     == <<sessVars, netVars, thread, status, undef, matched>>

TypeOK ==
    /\ state   \in [Session -> State]
    /\ vnet    \in [Session -> Network \cup {Null}]
    /\ cert    \in [Session -> Node \cup {Null}]
    /\ secured \in [Session -> BOOLEAN]
    /\ id      \in [Session -> 0 .. MaxNode]
    /\ next    \in [Session -> Session \cup {Null}]
    /\ prev    \in [Session -> Session \cup {Null}]
    /\ macs    \in [Session -> SUBSET Mac]
    /\ netst   \in [Network -> {"absent", "up", "freed"}]
    /\ atable  \in [Network -> SUBSET Node]
    /\ ctable  \in [Network -> [Uuid -> Session \cup {Null}]]
    /\ ftable  \in [Network -> [Mac -> Session \cup {Null}]]
    /\ head    \in [Network -> Session \cup {Null}]
    /\ bits    \in [Network -> SUBSET Bit]
    /\ active  \in [Network -> 0 .. Word - 1]
    /\ links   \in [Network -> SUBSET SUBSET (1 .. MaxNode)]
    /\ busy    \in Session \cup {Null}
    /\ stage   \in {"idle", "claimed", "tested", "known"}
    /\ status  \in [Node -> BOOLEAN]
    /\ undef   \in BOOLEAN
    /\ matched \in BOOLEAN

Init ==
    /\ state   = [s \in Session |-> "FREE"]
    /\ vnet    = [s \in Session |-> Null]
    /\ cert    = [s \in Session |-> Null]
    /\ secured = [s \in Session |-> FALSE]
    /\ id      = [s \in Session |-> 0]
    /\ next    = [s \in Session |-> Null]
    /\ prev    = [s \in Session |-> Null]
    /\ macs    = [s \in Session |-> {}]
    /\ netst   = [v \in Network |-> "absent"]
    /\ atable  = [v \in Network |-> {}]
    /\ ctable  = [v \in Network |-> [u \in Uuid |-> Null]]
    /\ ftable  = [v \in Network |-> [m \in Mac |-> Null]]
    /\ head    = [v \in Network |-> Null]
    /\ bits    = [v \in Network |-> {}]
    /\ active  = [v \in Network |-> 0]
    /\ links   = [v \in Network |-> {}]
    /\ status  = [n \in Node |-> FALSE]
    /\ undef   = FALSE
    /\ busy    = Null
    /\ stage   = "idle"
    /\ matched = TRUE

-----------------------------------------------------------------------------
(* Helpers *)

\* The program is still inside what C defines, and this step keeps it there
Defined == ~undef /\ UNCHANGED undef

\* Between two callbacks of netbus, and still there after this step
Idle == stage = "idle" /\ UNCHANGED <<thread, matched>>

Up(v)    == netst[v] = "up"
Live(s)  == state[s] # "FREE"

\* s went through vnetwork_add_session(v, s) and v was not deleted under it
Joined(s, v) == vnet[s] = v /\ id[s] # 0

\* cn2node_info: the uuid is in a version 1 name, a version 2 name only holds
\* the network's
ClaimedUuid(n) == IF n \in V1Node THEN n ELSE EmptyUuid

\* session->node_info->uuid.  (Slip: the claimed uuid is never replaced.)
NodeUuid_Stale(s) == ClaimedUuid(cert[s])
NodeUuid(s) == IF secured[s] THEN cert[s] ELSE ClaimedUuid(cert[s])

\* The sessions a walk of session_list visits: the least set that holds the
\* head and is closed under next.
Closed(C) == \A s \in C : next[s] # Null => next[s] \in C
ListOf(v) == {s \in Session :
                \A C \in SUBSET Session :
                    (head[v] # Null => head[v] \in C) /\ Closed(C) => s \in C}

\* bitpool_allocate_bit: the first zero bit, if any
FreeBits(v)  == Bit \ bits[v]
FirstZero(v) == CHOOSE b \in FreeBits(v) : \A c \in FreeBits(v) : b <= c

\* session->id after vnetwork_add_session: on a full pool the failure is ignored
\* and the zero of calloc is incremented all the same.  (Slip: incremented twice.)
NewId_OffByOne(v) == IF FreeBits(v) = {} THEN 1 ELSE FirstZero(v) + 2
NewId(v) == IF FreeBits(v) = {} THEN 1 ELSE FirstZero(v) + 1
BitsAfterAdd(v) == IF FreeBits(v) = {} THEN bits[v] ELSE bits[v] \cup {FirstZero(v)}

\* bitpool_release_bit(id - 1): for an id of 0 the bit is 2^32 - 1, refused.
\* (Slip: the bit is never released.)
BitsAfterDel_Leak(s, v) == bits[v]
BitsAfterDel(s, v) == IF id[s] = 0 THEN bits[v] ELSE bits[v] \ {id[s] - 1}

-----------------------------------------------------------------------------
(* The switch thread: callbacks of netbus *)

\* on_connect: the lower layers accepted a connection
Connect(s) ==
    /\ Defined /\ Idle
    /\ state[s] = "FREE"
    /\ state' = [state EXCEPT ![s] = "NOT_AUTHED"]
    /\ UNCHANGED <<vnet, cert, secured, id, next, prev, macs, netVars, status>>

\* authRequest up to ctable_insert: node_info comes from the name the agent gives.
\* When the network is unknown the answer is noRight and the session stays
\* NOT_AUTHED; otherwise it enters the connection table, where an entry that is
\* already there is kept.
AuthRequest(s, n) ==
    LET v == NodeNet[n]
        u == ClaimedUuid(n)
    IN  /\ Defined
        /\ stage = "idle"
        /\ state[s] = "NOT_AUTHED"
        /\ cert' = [cert EXCEPT ![s] = n]
        /\ \/ /\ Up(v)
              /\ ctable' = [ctable EXCEPT ![v][u] = IF @ = Null THEN s ELSE @]
              /\ vnet' = [vnet EXCEPT ![s] = v]
              /\ busy' = s
              /\ stage' = "claimed"
           \/ /\ ~Up(v)
              /\ UNCHANGED <<ctable, vnet, thread>>
        /\ UNCHANGED <<state, secured, id, next, prev, macs,
                       netst, atable, ftable, head, bits, active, links,
                       status, matched>>

\* The rest of authRequest: secureStepUp is sent, the network's passport is taken,
\* and the state is written without another look at it.
StepUp(s) ==
    /\ Defined
    /\ stage = "claimed" /\ busy = s
    /\ Up(vnet[s])
    /\ state' = [state EXCEPT ![s] = "WAIT_STEPUP"]
    /\ busy' = Null
    /\ stage' = "idle"
    /\ UNCHANGED <<vnet, cert, secured, id, next, prev, macs, netVars, status, matched>>

\* vnetwork_add_session, called by on_secure
AddSession(s, v) ==
    /\ next' = [next EXCEPT ![s] = head[v]]
    /\ prev' = IF head[v] = Null THEN prev ELSE [prev EXCEPT ![head[v]] = s]
    /\ head' = [head EXCEPT ![v] = s]
    /\ id' = [id EXCEPT ![s] = NewId(v)]
    /\ bits' = [bits EXCEPT ![v] = BitsAfterAdd(v)]
    /\ active' = [active EXCEPT ![v] = (@ + 1) % Word]

\* on_secure only acts on a session in the step-up.  (Slip: the state is not
\* tested, so a purge mark set during the handshake is lost.)
InStepUp_NoTest(s) == state[s] \in {"WAIT_STEPUP", "PURGE"}
InStepUp(s) == state[s] = "WAIT_STEPUP"

\* "check if the node's uuid is known".  (Slip: tested against the connection
\* table instead of the access table.)
Known_Ctable(s) == \E u \in Uuid : ctable[vnet[s]][u] = s
Known(s) == cert[s] \in atable[vnet[s]]

\* on_secure up to the new node_info, when the step-up handshake ends: it comes from
\* the peer certificate, which the network's authority issued, and which need not
\* be the one the authRequest named.
OnSecure(s, n) ==
    /\ Defined
    /\ stage = "idle"
    /\ InStepUp(s)
    /\ ~secured[s]
    /\ NodeNet[n] = vnet[s]
    /\ secured' = [secured EXCEPT ![s] = TRUE]
    /\ cert' = [cert EXCEPT ![s] = n]
    /\ matched' = (matched /\ n = cert[s])
    /\ busy' = s
    /\ stage' = "tested"
    /\ UNCHANGED <<state, vnet, id, next, prev, macs, netVars, status>>

\* ... or the certificate has neither a URI nor a common name: on_secure returns
\* with node_info freed.
OnSecureNameless(s) ==
    /\ Defined
    /\ stage = "idle"
    /\ InStepUp(s)
    /\ ~secured[s]
    /\ secured' = [secured EXCEPT ![s] = TRUE]
    /\ cert' = [cert EXCEPT ![s] = Null]
    /\ matched' = FALSE
    /\ UNCHANGED <<state, vnet, id, next, prev, macs, netVars, thread, status>>

\* The lookup in the access table: a node it does not have is answered noRight, and
\* its session is left as it is.
LookUp(s) ==
    /\ Defined
    /\ stage = "tested" /\ busy = s
    /\ Up(vnet[s])
    /\ \/ Known(s) /\ stage' = "known" /\ UNCHANGED busy
       \/ ~Known(s) /\ stage' = "idle" /\ busy' = Null
    /\ UNCHANGED <<sessVars, netVars, status, matched>>

\* The rest of on_secure: the state is written without another look at it.
Admit(s) ==
    LET v == vnet[s]
    IN  /\ Defined
        /\ stage = "known" /\ busy = s
        /\ Up(v)
        /\ state' = [state EXCEPT ![s] = "AUTHED"]
        /\ AddSession(s, v)
        /\ status' = [status EXCEPT ![cert[s]] = TRUE]
        /\ busy' = Null
        /\ stage' = "idle"
        /\ UNCHANGED <<vnet, cert, secured, macs,
                       netst, atable, ctable, ftable, links, matched>>

\* forward_ethernet: learn the source, then forward, flood or drop.  The link
\* that is joined is the one of the session that owns the source address, which
\* need not be the session the frame came from.
\* (Slip: an address that moved is taken over, as most switches do.)
Learned_TakeOver(s, src) == [ftable[vnet[s]] EXCEPT ![src] = s]
Learned(s, src) ==
    IF ftable[vnet[s]][src] = Null
    THEN [ftable[vnet[s]] EXCEPT ![src] = s] ELSE ftable[vnet[s]]

Owner(s, src) == Learned(s, src)[src]

Target(s, src, dst) == IF dst = Broadcast THEN Null ELSE Learned(s, src)[dst]

\* The sessions a frame from s is sent to
Recipients(s, src, dst) ==
    LET t == Target(s, src, dst)
    IN  IF t = Null THEN ListOf(vnet[s])
        ELSE IF t = Owner(s, src) THEN {} ELSE {t}

Forward(s, src, dst) ==
    LET v == vnet[s]
        o == Owner(s, src)
        t == Target(s, src, dst)
    IN  /\ Defined /\ Idle
        /\ state[s] = "AUTHED"
        /\ Up(v)
        /\ ftable' = [ftable EXCEPT ![v] = Learned(s, src)]
        /\ macs' = IF ftable[v][src] = Null THEN [macs EXCEPT ![s] = @ \cup {src}] ELSE macs
        /\ links' = IF t # Null /\ t # o
                    THEN [links EXCEPT ![v] = @ \cup {{id[o], id[t]}}] ELSE links
        /\ UNCHANGED <<state, vnet, cert, secured, id, next, prev,
                       netst, atable, ctable, head, bits, active, status>>

\* linkst_disjoin.  (Slip: the links of the session are kept.)
Disjoin_Kept(L, i) == L
Disjoin(L, i) == {l \in L : i \notin l}

\* session_free: every field of the object is gone
Free(s, nextAfter, prevAfter) ==
    /\ state'   = [state EXCEPT ![s] = "FREE"]
    /\ vnet'    = [vnet EXCEPT ![s] = Null]
    /\ cert'    = [cert EXCEPT ![s] = Null]
    /\ secured' = [secured EXCEPT ![s] = FALSE]
    /\ id'      = [id EXCEPT ![s] = 0]
    /\ macs'    = [macs EXCEPT ![s] = {}]
    /\ next'    = [nextAfter EXCEPT ![s] = Null]
    /\ prev'    = [prevAfter EXCEPT ![s] = Null]

\* vnetwork_del_session: unlink s; without a predecessor s is taken for the head.
\* (Slip: only the forward link is repaired.)
NextAfterDel(s) == IF prev[s] = Null THEN next ELSE [next EXCEPT ![prev[s]] = next[s]]
PrevAfterDel_Kept(s) == prev
PrevAfterDel(s) == IF next[s] = Null THEN prev ELSE [prev EXCEPT ![next[s]] = prev[s]]
HeadAfterDel(s, v) == IF prev[s] = Null THEN next[s] ELSE head[v]

\* on_disconnect erases the addresses of the session's mac_list.  (Slip: none
\* is erased.)
FtableAfterDel_Kept(s, v) == ftable[v]
FtableAfterDel(s, v) == [m \in Mac |-> IF m \in macs[s] THEN Null ELSE ftable[v][m]]

\* ... and the entry of its uuid, whoever it leads to.  (Slip: it is left there.)
CtableAfterDel_Kept(s, v) == ctable[v]
CtableAfterDel(s, v) == [ctable[v] EXCEPT ![NodeUuid(s)] = Null]

\* update_node_status("0", ...): no node has the empty uuid
StatusAfterDisconnect(s) ==
    IF NodeUuid(s) \in Node THEN [status EXCEPT ![NodeUuid(s)] = FALSE] ELSE status

\* on_disconnect of a session that never got past authRequest
DisconnectNotAuthed(s) ==
    /\ Defined /\ Idle
    /\ state[s] = "NOT_AUTHED"
    /\ Free(s, next, prev)
    /\ UNCHANGED <<netVars, status>>

\* on_disconnect of a session whose network was deleted
DisconnectNoNetwork(s) ==
    /\ Defined /\ Idle
    /\ state[s] \in {"WAIT_STEPUP", "AUTHED", "PURGE"}
    /\ cert[s] # Null
    /\ vnet[s] = Null
    /\ status' = StatusAfterDisconnect(s)
    /\ Free(s, next, prev)
    /\ UNCHANGED netVars

\* on_disconnect of a session with a network, listed in it or not
DisconnectMember(s) ==
    LET v == vnet[s]
    IN  /\ Defined /\ Idle
        /\ state[s] \in {"WAIT_STEPUP", "AUTHED", "PURGE"}
        /\ cert[s] # Null
        /\ v # Null
        /\ Up(v)
        /\ links'  = [links EXCEPT ![v] = IF id[s] = 0 THEN @ ELSE Disjoin(@, id[s])]
        /\ ftable' = [ftable EXCEPT ![v] = FtableAfterDel(s, v)]
        /\ ctable' = [ctable EXCEPT ![v] = CtableAfterDel(s, v)]
        /\ head'   = [head EXCEPT ![v] = HeadAfterDel(s, v)]
        /\ bits'   = [bits EXCEPT ![v] = BitsAfterDel(s, v)]
        /\ active' = [active EXCEPT ![v] = (@ - 1) % Word]
        /\ status' = StatusAfterDisconnect(s)
        /\ Free(s, NextAfterDel(s), PrevAfterDel(s))
        /\ UNCHANGED <<netst, atable>>

\* The transport is closed or broken (udtbus_poke_queue), the handshake or the
\* decoding fails (net_on_input), or on_input finds the session marked PURGE.
Disconnect(s) ==
    DisconnectNotAuthed(s) \/ DisconnectNoNetwork(s) \/ DisconnectMember(s)

-----------------------------------------------------------------------------
(* The switch thread: undefined behaviour *)

\* session_terminate: on_disconnect already freed the session it frees again
Terminate(s) == stage = "idle" /\ state[s] \in {"NOT_AUTHED", "WAIT_STEPUP", "AUTHED"}

\* net_send_msg to a broken peer frees that peer's session inside the handler,
\* which goes on using it
SendError(s) == Live(s) /\ (stage = "idle" \/ busy = s)

\* authRequest, on_secure, forward_ethernet or on_disconnect follow session->vnetwork
UseFreedNetwork(s) ==
    /\ vnet[s] # Null
    /\ netst[vnet[s]] = "freed"
    /\ stage = "idle" \/ busy = s

\* on_disconnect reads node_info where there is none: a session marked before its
\* authRequest, or one whose certificate had no name
UseNoNodeInfo(s) == stage = "idle" /\ cert[s] = Null /\ state[s] \in {"WAIT_STEPUP", "PURGE"}

Undefined(s) ==
    /\ ~undef
    /\ Terminate(s) \/ SendError(s) \/ UseFreedNetwork(s) \/ UseNoNodeInfo(s)
    /\ undef' = TRUE
    /\ UNCHANGED <<sessVars, netVars, thread, status, matched>>

-----------------------------------------------------------------------------
(* The control thread: messages from the controller *)

\* listall_network: vnetwork_create.  RB_INSERT keeps the tree as it is when the
\* network is already there, so a network listed again changes nothing.
CtlAddNetwork(v) ==
    /\ Defined
    /\ netst[v] = "absent"
    /\ netst' = [netst EXCEPT ![v] = "up"]
    /\ UNCHANGED <<sessVars, atable, ctable, ftable, head, bits, active, links,
                   thread, status, matched>>

\* listall_node: ctable_insert(vnet->atable, ...)
CtlAddNode(n) ==
    /\ Defined
    /\ Up(NodeNet[n])
    /\ atable' = [atable EXCEPT ![NodeNet[n]] = @ \cup {n}]
    /\ UNCHANGED <<sessVars, netst, ctable, ftable, head, bits, active, links,
                   thread, status, matched>>

\* del_node: forget the node, and mark the session the connection table has for
\* its uuid, which may have been freed
CtlDelNode(n) ==
    LET v == NodeNet[n]
        s == ctable[v][n]
    IN  /\ ~undef
        /\ Up(v)
        /\ atable' = [atable EXCEPT ![v] = @ \ {n}]
        /\ IF s = Null THEN UNCHANGED <<state, undef>>
           ELSE IF Live(s) THEN state' = [state EXCEPT ![s] = "PURGE"] /\ UNCHANGED undef
           ELSE UNCHANGED state /\ undef' = TRUE
        /\ UNCHANGED <<vnet, cert, secured, id, next, prev, macs,
                       netst, ctable, ftable, head, bits, active, links,
                       thread, status, matched>>

\* del_network: vnetwork_disable, mark and detach the listed sessions, free
CtlDelNetwork(v) ==
    /\ Defined
    /\ Up(v)
    /\ netst' = [netst EXCEPT ![v] = "freed"]
    /\ state' = [s \in Session |-> IF s \in ListOf(v) THEN "PURGE" ELSE state[s]]
    /\ vnet' = [s \in Session |-> IF s \in ListOf(v) THEN Null ELSE vnet[s]]
    /\ atable' = [atable EXCEPT ![v] = {}]
    /\ ctable' = [ctable EXCEPT ![v] = [u \in Uuid |-> Null]]
    /\ ftable' = [ftable EXCEPT ![v] = [m \in Mac |-> Null]]
    /\ head' = [head EXCEPT ![v] = Null]
    /\ bits' = [bits EXCEPT ![v] = {}]
    /\ active' = [active EXCEPT ![v] = 0]
    /\ links' = [links EXCEPT ![v] = {}]
    /\ UNCHANGED <<cert, secured, id, next, prev, macs, thread, status, matched>>

-----------------------------------------------------------------------------
SwitchStep(s) ==
    \/ Connect(s)
    \/ \E n \in Node : AuthRequest(s, n) \/ OnSecure(s, n)
    \/ StepUp(s) \/ OnSecureNameless(s) \/ LookUp(s) \/ Admit(s)
    \/ \E src \in Mac, dst \in Mac \cup {Broadcast} : Forward(s, src, dst)
    \/ Disconnect(s)
    \/ Undefined(s)

ControlStep ==
    \/ \E v \in Network : CtlAddNetwork(v) \/ CtlDelNetwork(v)
    \/ \E n \in Node : CtlAddNode(n) \/ CtlDelNode(n)

Next == (\E s \in Session : SwitchStep(s)) \/ ControlStep

Spec == Init /\ [][Next]_vars
=============================================================================
