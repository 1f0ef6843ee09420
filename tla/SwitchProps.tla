---------------------------- MODULE SwitchProps ----------------------------
(***************************************************************************)
(* What the core of nvswitch guarantees, stated over module Switch.        *)
(***************************************************************************)
EXTENDS Switch

(* Session lists.  A walk of session_list, which flooding and del_network do,
   meets only allocated sessions that joined this very network, even after a
   disconnect made the list lose some of them: next and prev stay inverse of
   each other and the head never has a predecessor (vnetwork_add_session,
   vnetwork_del_session). *)
ListSound ==
    \A v \in Network : Up(v) =>
        /\ head[v] # Null => Joined(head[v], v) /\ prev[head[v]] = Null
        /\ \A s \in Session : Joined(s, v) =>
              /\ next[s] # Null => Joined(next[s], v) /\ prev[next[s]] = s
              /\ prev[s] # Null => Joined(prev[s], v) /\ next[prev[s]] = s

(* Isolation.  Whatever frame an authenticated session sends, and whatever was
   learned before, the frame only reaches sessions that joined the same network
   (forward_ethernet: the forwarding table and the list are the network's). *)
FrameIsolation ==
    \A s \in Session, src \in Mac, dst \in Mac \cup {Broadcast} :
        state[s] = "AUTHED" /\ Up(vnet[s]) =>
            \A t \in Recipients(s, src, dst) : Live(t) /\ Joined(t, vnet[s])

(* Address ownership.  The forwarding table maps an address to a session exactly
   when the session's own list of addresses has it, so the erasures of
   on_disconnect leave no entry to a freed session and never remove an entry
   another session relies on. *)
MacOwnership ==
    \A v \in Network : Up(v) =>
        \A m \in Mac, s \in Session :
            ftable[v][m] = s <=> Joined(s, v) /\ m \in macs[s]

(* Identifiers.  Within the capacity of the bitpool two sessions of a network
   never share an id, and the pool holds exactly the ids in use: nothing leaks
   when sessions are refused, purged or dropped in the middle of the step-up. *)
IdsExact ==
    \A v \in Network : Up(v) =>
        /\ bits[v] = {id[s] - 1 : s \in {t \in Session : Joined(t, v)}}
        /\ \A s, t \in Session :
              Joined(s, v) /\ Joined(t, v) /\ id[s] = id[t] => s = t

(* Link states.  A joined pair always names two different sessions that are
   still in the network: an id given to a new session never inherits the peers
   of the session that had it before (linkst_disjoin before the release). *)
LinksLive ==
    \A v \in Network : Up(v) =>
        \A l \in links[v] : \E s, t \in Session :
            s # t /\ Joined(s, v) /\ Joined(t, v) /\ l = {id[s], id[t]}

(* A uuid found in the connection table leads to an allocated session of that
   network whose agent named that node, so del_node marks no session that was freed.
   It rests on agents that present the certificate they named (matched), as agent.c
   does: on_disconnect erases the uuid of the certificate, authRequest enters that
   of the name, and nothing compares the two. *)
CtableLive ==
    matched => \A v \in Network, n \in Node : Up(v) /\ ctable[v][n] # Null =>
        LET s == ctable[v][n] IN vnet[s] = v /\ cert[s] = n

(* A node the controller was told is connected has a connected session: the
   status "1" is always withdrawn by the session that raised it. *)
OnlineHasSession ==
    \A n \in Node : status[n] =>
        \E s \in Session : id[s] # 0 /\ cert[s] = n /\ state[s] \in {"AUTHED", "PURGE"}

(* Admission.  A session becomes authenticated only at the end of a step-up whose
   lookup found the node of the certificate presented in the access table of its
   network; what else the controller does meanwhile, the lookup is of that moment
   and of that network. *)
Admission ==
    [][/\ \A s \in Session : state'[s] = "AUTHED" /\ state[s] # "AUTHED" =>
             busy = s /\ stage = "known" /\ secured[s]
       /\ stage' = "known" /\ stage # "known" =>
             /\ busy' = busy
             /\ cert[busy] \in atable[vnet[busy]]
             /\ <<cert', vnet'>> = <<cert, vnet>>]_vars

(* A purge mark is final.  A session that is marked when a callback starts is not
   worked for: it ends by being freed.  The mark is lost only when it falls into a
   handler of that very session, between the test of its state and the write
   (request.c:47 and 137, switch.c:186 and 228). *)
PurgeIsFinal ==
    [][\A s \in Session : state[s] = "PURGE" =>
          /\ busy # s => state'[s] \in {"PURGE", "FREE"} /\ busy' # s
          /\ busy = s => state'[s] # "FREE"]_vars

-----------------------------------------------------------------------------
(* What the properties above rest on. *)

(* The fields of a session by state: only a session that went through
   vnetwork_add_session has an id, links, addresses and a checked certificate.  A mark
   may fall on a session in any state. *)
SessionShape ==
    \A s \in Session :
        /\ state[s] = "FREE" => vnet[s] = Null /\ cert[s] = Null /\ ~secured[s] /\ id[s] = 0
        /\ state[s] = "NOT_AUTHED" =>
              /\ ~secured[s] /\ id[s] = 0
              /\ vnet[s] # Null => busy = s
        /\ state[s] \in {"WAIT_STEPUP", "AUTHED"} => vnet[s] \in Network
        /\ state[s] = "WAIT_STEPUP" => id[s] = 0
        /\ state[s] = "AUTHED" => id[s] # 0
        /\ id[s] = 0 => next[s] = Null /\ prev[s] = Null /\ macs[s] = {}
        /\ id[s] # 0 => secured[s] /\ cert[s] \in Node
        /\ vnet[s] # Null => netst[vnet[s]] # "absent"

(* How far the switch thread is: the session it works for was tested, and has what
   the rest of the handler needs, whatever its state became since. *)
ThreadShape ==
    /\ stage = "idle" <=> busy = Null
    /\ stage # "idle" =>
          /\ vnet[busy] \in Network /\ cert[busy] \in Node /\ id[busy] = 0
          /\ stage = "claimed" => state[busy] \in {"NOT_AUTHED", "PURGE"}
          /\ stage # "claimed" => state[busy] \in {"WAIT_STEPUP", "PURGE"} /\ secured[busy]

(* A network the controller has not listed yet holds nothing. *)
AbsentShape ==
    \A v \in Network : netst[v] = "absent" =>
        /\ head[v] = Null /\ bits[v] = {} /\ links[v] = {}
        /\ \A u \in Uuid : ctable[v][u] = Null
        /\ \A m \in Mac : ftable[v][m] = Null

(* A node's own uuid is a key of the connection table only when its certificate
   is of version 1, and then leads to a session of that node in that network. *)
CtableKeyed ==
    matched => \A v \in Network, n \in Node : Up(v) /\ ctable[v][n] # Null =>
        /\ n \in V1Node
        /\ ctable[v][n] \in Session
        /\ vnet[ctable[v][n]] = v
        /\ cert[ctable[v][n]] = n

SwitchInv ==
    /\ TypeOK
    /\ SessionShape
    /\ ThreadShape
    /\ AbsentShape
    /\ ListSound
    /\ MacOwnership
    /\ CtableKeyed
    /\ OnlineHasSession

-----------------------------------------------------------------------------
(* What comments of the code say and the code does not do. *)

(* vnetwork.h:43 "all session open in this context" *)
ListComplete ==
    \A s \in Session : state[s] = "AUTHED" /\ Up(vnet[s]) => s \in ListOf(vnet[s])

(* switch.c:312 "If the ventwork is still valid": a session keeps no pointer to
   a network that was freed *)
VnetValid ==
    \A s \in Session : vnet[s] # Null => netst[vnet[s]] # "freed"

(* control.c:97 "if the node is connected, mark it to be purged" *)
DelNodePurges ==
    [][\A n \in Node, s \in Session :
          CtlDelNode(n) /\ state[s] = "AUTHED" /\ cert[s] = n => state'[s] = "PURGE"]_vars
=============================================================================
