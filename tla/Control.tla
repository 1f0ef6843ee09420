------------------------------- MODULE Control -------------------------------
(***************************************************************************)
(* The channel between the control thread of nvswitch (nvswitch/src/       *)
(* control.c) and nvctrler (nvctrler/src/ctrler.c, the switch's half of    *)
(* request.c): how the switch fetches the networks and the nodes when it   *)
(* starts and every time it reconnects, how the controller pushes what     *)
(* changes, and how node statuses travel back through the pipe.            *)
(*                                                                         *)
(* A connection is a pair of FIFO streams of lines.  A line is a sequence  *)
(* of messages: one for every write the control thread read from the pipe  *)
(* at once, so that only a line of one message is a JSON text.  The        *)
(* controller never writes a malformed line, so the switch's json_loadb    *)
(* never fails here.                                                       *)
(*                                                                         *)
(* Undefined behaviour (a freed bufferevent is written to, a pointer that  *)
(* nothing has set is read) sets undef and ends the behaviour.             *)
(*                                                                         *)
(* A statement of the database may fail, a client may delete a network     *)
(* that is not its own, and an attempt to connect may fail at once.        *)
(***************************************************************************)
EXTENDS Integers, Sequences, FiniteSets, SequencesExt

CONSTANTS
    Network, Node,
    NodeNet,        \* [Node -> Network]
    MaxConn,        \* bound: connections the switch makes
    MaxPipe,        \* bound: writes in the pipe and lines not dispatched yet
    MaxFault        \* bound: crashes of the controller, statements and connection
                    \* attempts that fail, and deletions by a client that is not the
                    \* owner, together

ASSUME ControlAssumption ==
    /\ IsFiniteSet(Network) /\ IsFiniteSet(Node)
    /\ NodeNet \in [Node -> Network]
    /\ MaxConn \in Nat \ {0}
    /\ MaxPipe \in Nat
    /\ MaxFault \in Nat

Conn == 1 .. MaxConn
Life == {"unborn", "live", "deleted"}   \* a uuid is never given twice

VARIABLES
    (* nvswitch: the control thread, and the switch thread's writes *)
    cur,        \* bufev_sock: the number of the latest connection
    link,       \* what became of it: "connecting", "up", "timer" (freed, and the
                \* timer armed), or "none" (freed or never made, and no timer)
    inited,     \* cfg->ctrl_initialized
    started,    \* switch_init got past its wait: agents may connect
    nets,       \* the vnetworks created
    nodes,      \* the nodes in the access tables
    pipe,       \* messages written to pipefd[1] and not read yet
    (* the transport *)
    cut,        \* connections broken or closed
    toCtl,      \* lines on their way to the controller
    toSwitch,   \* messages on their way to the switch
    (* nvctrler *)
    peer,       \* its end: "none", "accepted", "ready" (NVSWITCH), "freed"
    inbuf,      \* lines in the input buffer of a bufferevent
    sinfo,      \* switch_sinfo: a connection, or 0 for NULL
    dbNets,     \* the tables of the database
    dbNodes,
    status,     \* node.status
    (* history *)
    faults,     \* how many such mishaps there were
    strayNets,  \* what one of the database and the switch was told of and the
    strayNodes, \* other was not, since the controller got its session
    refused,    \* connections on which a listing was answered by an error
    undef

switchVars == <<cur, link, inited, started, nets, nodes, pipe>>
dbVars     == <<dbNets, dbNodes, status>>
stray      == <<strayNets, strayNodes>>
history    == <<faults, stray, refused>>
vars == <<switchVars, cut, toCtl, toSwitch, peer, inbuf, sinfo, dbVars, history, undef>>

ListNets         == [op |-> "listall-network"]
ListNodes        == [op |-> "listall-node"]
StatusMsg(n, on) == [op |-> "update-node-status", node |-> n, on |-> on]
NetMsg(v, last)  == [op |-> "listall-network", net |-> v, last |-> last, id |-> TRUE]
PushNet(v)       == [op |-> "listall-network", net |-> v, last |-> FALSE, id |-> FALSE]
NodeMsg(n, last) == [op |-> "listall-node", node |-> n, last |-> last]
DelNetMsg(v)     == [op |-> "del-network", net |-> v]
DelNodeMsg(n)    == [op |-> "del-node", node |-> n]
ErrorMsg         == [op |-> "error"]    \* no "networks", no "nodes"

Query == {ListNets, ListNodes} \cup {StatusMsg(n, b) : n \in Node, b \in BOOLEAN}
Line  == Seq(Query) \ {<<>>}
Reply == {NetMsg(v, b) : v \in Network, b \in BOOLEAN} \cup {PushNet(v) : v \in Network}
         \cup {NodeMsg(n, b) : n \in Node, b \in BOOLEAN}
         \cup {DelNetMsg(v) : v \in Network} \cup {DelNodeMsg(n) : n \in Node}
         \cup {ErrorMsg}

TypeOK ==
    /\ cur \in Conn /\ link \in {"connecting", "up", "timer", "none"}
    /\ inited \in BOOLEAN /\ started \in BOOLEAN
    /\ nets \subseteq Network /\ nodes \subseteq Node
    /\ pipe \in Seq(Query) /\ Len(pipe) <= MaxPipe
    /\ cut \subseteq Conn
    /\ toCtl \in [Conn -> Seq(Line)] /\ inbuf \in [Conn -> Seq(Line)]
    /\ toSwitch \in [Conn -> Seq(Reply)]
    /\ peer \in [Conn -> {"none", "accepted", "ready", "freed"}]
    /\ sinfo \in 0 .. MaxConn
    /\ dbNets \in [Network -> Life] /\ dbNodes \in [Node -> Life]
    /\ status \in [Node -> BOOLEAN]
    /\ faults \in 0 .. MaxFault
    /\ strayNets \subseteq Network /\ strayNodes \subseteq Node /\ refused \subseteq Conn
    /\ undef \in BOOLEAN

LiveNets  == {v \in Network : dbNets[v] = "live"}
LiveNodes == {n \in Node : dbNodes[n] = "live"}

\* ctrl_init calls new_peer, and goes on when it fails; the database has any content
Init ==
    /\ cur = 1 /\ inited = FALSE /\ started = FALSE
    /\ \/ link = "connecting" /\ cut = {} /\ faults = 0
       \/ link = "none" /\ cut = {1} /\ faults = 1 /\ MaxFault > 0
    /\ nets = {} /\ nodes = {} /\ pipe = <<>>
    /\ toCtl = [c \in Conn |-> <<>>] /\ inbuf = [c \in Conn |-> <<>>]
    /\ toSwitch = [c \in Conn |-> <<>>]
    /\ peer = [c \in Conn |-> "none"] /\ sinfo = 0
    /\ dbNets \in [Network -> {"unborn", "live"}]
    /\ dbNodes \in [Node -> {"unborn", "live"}]
    /\ \A n \in Node : dbNodes[n] = "live" => dbNets[NodeNet[n]] = "live"
    /\ status = [n \in Node |-> FALSE]
    /\ strayNets = {} /\ strayNodes = {} /\ refused = {}
    /\ undef = FALSE

Defined == ~undef /\ UNCHANGED undef
Fault   == faults < MaxFault /\ faults' = faults + 1

\* bufferevent_write of a line on a connection; what is written to a broken
\* connection is lost
WriteLine(c, line) ==
    toCtl' = IF c \in cut THEN toCtl ELSE [toCtl EXCEPT ![c] = Append(@, line)]

-----------------------------------------------------------------------------
(* nvswitch *)

\* on_event_cb, connected: the lists are fetched again from the start.
\* (Slip: ctrl_initialized is left as it was.)
InitedOnConnect_Kept == inited
InitedOnConnect == FALSE

OnConnected ==
    /\ Defined
    /\ link = "connecting" /\ cur \notin cut /\ peer[cur] = "ready"
    /\ link' = "up"
    /\ inited' = InitedOnConnect
    /\ WriteLine(cur, <<ListNets>>)
    /\ UNCHANGED <<cur, started, nets, nodes, pipe, cut, toSwitch, peer, inbuf, sinfo,
                   dbVars, history>>

\* on_event_cb, end of file or error: the bufferevent is freed, what it had not
\* received is lost, and the timer of one second is armed
OnEof ==
    /\ Defined
    /\ link \in {"connecting", "up"} /\ cur \in cut
    /\ link' = "timer"
    /\ toSwitch' = [toSwitch EXCEPT ![cur] = <<>>]
    /\ UNCHANGED <<cur, inited, started, nets, nodes, pipe, cut, toCtl, peer, inbuf, sinfo,
                   dbVars, history>>

\* on_timeout_cb: new_peer
NewPeer ==
    /\ Defined
    /\ link = "timer" /\ cur < MaxConn
    /\ cur' = cur + 1
    /\ link' = "connecting"
    /\ UNCHANGED <<inited, started, nets, nodes, pipe, cut, toCtl, toSwitch, peer, inbuf,
                   sinfo, dbVars, history>>

\* new_peer fails at once.  Nothing arms the timer again.  Before a bufferevent is
\* made, bufev_sock still is the freed one, and is freed a second time.
NewPeerFails ==
    /\ ~undef /\ link = "timer" /\ Fault
    /\ link' = "none"
    /\ undef' \in BOOLEAN
    /\ UNCHANGED <<cur, inited, started, nets, nodes, pipe, cut, toCtl, toSwitch, peer, inbuf,
                   sinfo, dbVars, stray, refused>>

\* listall_node: only a network the switch knows has an access table.
\* (Slip: the network is not looked up.)
NodesAfterList_NoLookup(n) == nodes \cup {n}
NodesAfterList(n) == IF NodeNet[n] \in nets THEN nodes \cup {n} ELSE nodes

\* del_network frees the vnetwork with its access table.  (Slip: it is kept.)
NodesAfterDelNet_Kept(v) == nodes
NodesAfterDelNet(v) == {n \in nodes : NodeNet[n] # v}

\* on_read_cb and dispatch_op, one line
OnRead ==
    LET m == Head(toSwitch[cur])
    IN  /\ Defined
        /\ link = "up" /\ toSwitch[cur] # <<>>
        /\ toSwitch' = [toSwitch EXCEPT ![cur] = Tail(@)]
        /\ \/ /\ m.op = "listall-network"
              /\ nets' = nets \cup {m.net}
              /\ IF m.last /\ ~inited THEN WriteLine(cur, <<ListNodes>>) ELSE UNCHANGED toCtl
              /\ UNCHANGED <<nodes, inited>>
           \/ /\ m.op = "listall-node"
              /\ nodes' = NodesAfterList(m.node)
              /\ inited' = (inited \/ m.last)
              /\ UNCHANGED <<nets, toCtl>>
           \/ /\ m.op = "del-network"
              /\ nets' = nets \ {m.net}
              /\ nodes' = NodesAfterDelNet(m.net)
              /\ UNCHANGED <<inited, toCtl>>
           \/ /\ m.op = "del-node"
              /\ nodes' = nodes \ {m.node}
              /\ UNCHANGED <<nets, inited, toCtl>>
           \/ /\ m.op = "error"     \* the handlers return -1
              /\ UNCHANGED <<nets, nodes, inited, toCtl>>
        /\ UNCHANGED <<cur, link, started, pipe, cut, peer, inbuf, sinfo, dbVars, history>>

\* listall_network of a pushed network: the message has no "id", and network_id,
\* a local variable that nothing set, is given to vnetwork_create
OnReadNoId ==
    /\ ~undef
    /\ link = "up" /\ toSwitch[cur] # <<>>
    /\ LET m == Head(toSwitch[cur]) IN m.op = "listall-network" /\ ~m.id
    /\ undef' = TRUE
    /\ UNCHANGED <<switchVars, cut, toCtl, toSwitch, peer, inbuf, sinfo, dbVars, history>>

\* switch_init stops waiting for the controller
Start ==
    /\ Defined
    /\ inited /\ ~started
    /\ started' = TRUE
    /\ UNCHANGED <<cur, link, inited, nets, nodes, pipe, cut, toCtl, toSwitch, peer, inbuf,
                   sinfo, dbVars, history>>

\* update_node_status, from on_secure and on_disconnect of the switch thread
WriteStatus(n, on) ==
    /\ Defined
    /\ started /\ Len(pipe) + Len(toCtl[cur]) + Len(inbuf[cur]) < MaxPipe
    /\ on => n \in nodes
    /\ pipe' = Append(pipe, StatusMsg(n, on))
    /\ UNCHANGED <<cur, link, inited, started, nets, nodes, cut, toCtl, toSwitch, peer, inbuf,
                   sinfo, dbVars, history>>

\* pipe_read_cb: whatever the pipe holds, up to the size of the buffer, becomes
\* one line; bufev_sock is written to without a test.
Drained == 1 .. Len(pipe)

PipeRead ==
    /\ Defined
    /\ link \in {"connecting", "up"}
    /\ \E k \in Drained :
          /\ WriteLine(cur, SubSeq(pipe, 1, k))
          /\ pipe' = SubSeq(pipe, k + 1, Len(pipe))
    /\ UNCHANGED <<cur, link, inited, started, nets, nodes, cut, toSwitch, peer, inbuf, sinfo,
                   dbVars, history>>

\* pipe_read_cb while bufev_sock is NULL, or freed and not replaced yet
PipeReadFreed ==
    /\ ~undef
    /\ link \in {"timer", "none"} /\ pipe # <<>>
    /\ undef' = TRUE
    /\ UNCHANGED <<switchVars, cut, toCtl, toSwitch, peer, inbuf, sinfo, dbVars, history>>

-----------------------------------------------------------------------------
(* The transport *)

\* A connection breaks.  Bound: the last one does not.
Cut(c) ==
    /\ Defined
    /\ c <= cur /\ c \notin cut /\ c < MaxConn
    /\ cut' = cut \cup {c}
    /\ UNCHANGED <<switchVars, toCtl, toSwitch, peer, inbuf, sinfo, dbVars, history>>

-----------------------------------------------------------------------------
(* nvctrler *)

\* accept_conn_cb
Accept ==
    /\ Defined
    /\ link = "connecting" /\ peer[cur] = "none" /\ cur \notin cut
    /\ peer' = [peer EXCEPT ![cur] = "accepted"]
    /\ UNCHANGED <<switchVars, cut, toCtl, toSwitch, inbuf, sinfo, dbVars, history>>

\* on_connect_cb: the certificate is the switch's, which will ask for the lists
CtlConnected(c) ==
    /\ Defined
    /\ peer[c] = "accepted" /\ c \notin cut
    /\ peer' = [peer EXCEPT ![c] = "ready"]
    /\ sinfo' = c
    /\ strayNets' = {} /\ strayNodes' = {}
    /\ UNCHANGED <<switchVars, cut, toCtl, toSwitch, inbuf, dbVars, faults, refused>>

\* What the switch is sent; a write to a broken connection is lost.
Send(c, msgs) ==
    toSwitch' = IF c = 0 \/ c \in cut THEN toSwitch ELSE [toSwitch EXCEPT ![c] = @ \o msgs]

\* CB_listall_network, CB_listall_node: one message a row, in the order of the
\* database, the last one a "success".  (Slip: no row is the last one.)
IsLastRow_Never(i, seq) == FALSE
IsLastRow(i, seq) == i = Len(seq)
NetRows(seq)  == [i \in 1 .. Len(seq) |-> NetMsg(seq[i], IsLastRow(i, seq))]
NodeRows(seq) == [i \in 1 .. Len(seq) |-> NodeMsg(seq[i], IsLastRow(i, seq))]

\* dao_update_node_status: no row is updated once the node is deleted
StatusAfterUpdate(m) ==
    [status EXCEPT ![m.node] = IF dbNodes[m.node] = "live" THEN m.on ELSE @]

\* listall_network, listall_node, whose statement may fail: then the answer is an
\* error, and the switch does not ask again
Listing(c, m) ==
    \/ m = ListNets /\ \E rows \in SetToSeqs(LiveNets) : Send(c, NetRows(rows))
    \/ m = ListNodes /\ \E rows \in SetToSeqs(LiveNodes) : Send(c, NodeRows(rows))
ListingFails(c, m) ==
    /\ m \in {ListNets, ListNodes}
    /\ Fault /\ Send(c, <<ErrorMsg>>)
    /\ refused' = refused \cup {c}

\* dispatch_nvswitch on one line; a line of several messages is no JSON text and
\* is dropped
Dispatch(c, line) ==
    IF Len(line) > 1 THEN UNCHANGED <<toSwitch, status, faults, refused>>
    ELSE LET m == Head(line)
         IN  \/ Listing(c, m) /\ UNCHANGED <<status, faults, refused>>
             \/ ListingFails(c, m) /\ UNCHANGED status
             \/ /\ m.op = "update-node-status"
                /\ status' = StatusAfterUpdate(m)
                /\ UNCHANGED <<toSwitch, faults, refused>>

\* on_read_cb: k lines arrive, one line is read; the others stay in the buffer
\* until more arrive
CtlRead(c) ==
    /\ Defined
    /\ peer[c] = "ready"
    /\ \E k \in 1 .. Len(toCtl[c]) :
          LET lines == inbuf[c] \o SubSeq(toCtl[c], 1, k)
          IN  /\ toCtl' = [toCtl EXCEPT ![c] = SubSeq(@, k + 1, Len(@))]
              /\ inbuf' = [inbuf EXCEPT ![c] = Tail(lines)]
              /\ Dispatch(c, Head(lines))
    /\ UNCHANGED <<switchVars, cut, peer, sinfo, dbNets, dbNodes, stray>>

\* on_event_cb: the session is freed with what it had not received; switch_sinfo
\* is reset and every node shown disconnected, whichever connection it was.
\* (Slips: the statuses stay; switch_sinfo stays.)
StatusAfterEof_Kept(c) == status
StatusAfterEof(c) == IF peer[c] = "ready" THEN [n \in Node |-> FALSE] ELSE status
SinfoAfterEof_Kept(c) == sinfo
SinfoAfterEof(c) == IF peer[c] = "ready" THEN 0 ELSE sinfo

CtlEof(c) ==
    /\ Defined
    /\ peer[c] \in {"accepted", "ready"} /\ c \in cut
    /\ peer' = [peer EXCEPT ![c] = "freed"]
    /\ inbuf' = [inbuf EXCEPT ![c] = <<>>]
    /\ toCtl' = [toCtl EXCEPT ![c] = <<>>]
    /\ status' = StatusAfterEof(c)
    /\ sinfo' = SinfoAfterEof(c)
    /\ UNCHANGED <<switchVars, cut, toSwitch, dbNets, dbNodes, history>>

\* add_network, add_node, del_node and del_network for the API: the database first,
\* then the push
ApiOnly == UNCHANGED <<switchVars, cut, toCtl, peer, inbuf, sinfo, refused>>
InStep  == UNCHANGED <<faults, stray>>

AddNetwork(v) ==
    /\ Defined /\ ApiOnly /\ InStep
    /\ dbNets[v] = "unborn"
    /\ dbNets' = [dbNets EXCEPT ![v] = "live"]
    /\ Send(sinfo, <<PushNet(v)>>)
    /\ UNCHANGED <<dbNodes, status>>

\* The addresses of the network are stored after the row, and a failure there ends
\* the handler before the push
AddNode(n) ==
    /\ Defined /\ ApiOnly
    /\ dbNodes[n] = "unborn" /\ dbNets[NodeNet[n]] = "live"
    /\ dbNodes' = [dbNodes EXCEPT ![n] = "live"]
    /\ \/ InStep /\ Send(sinfo, <<NodeMsg(n, FALSE)>>)
       \/ /\ Fault /\ strayNodes' = strayNodes \cup {n}
          /\ UNCHANGED <<strayNets, toSwitch>>
    /\ UNCHANGED <<dbNets, status>>

DropNode(n) ==
    /\ dbNodes' = [dbNodes EXCEPT ![n] = "deleted"]
    /\ status' = [status EXCEPT ![n] = FALSE]

\* dao_del_node does not look at the status of its statement, so that a row it failed
\* to delete is pushed as deleted; dao_fetch_context_ippool may fail in between
DelNode(n) ==
    /\ Defined /\ ApiOnly
    /\ dbNodes[n] = "live"
    /\ \/ InStep /\ DropNode(n) /\ Send(sinfo, <<DelNodeMsg(n)>>)
       \/ /\ Fault /\ strayNodes' = strayNodes \cup {n} /\ UNCHANGED strayNets
          /\ \/ DropNode(n) /\ UNCHANGED toSwitch
             \/ UNCHANGED <<dbNodes, status>> /\ Send(sinfo, <<DelNodeMsg(n)>>)
    /\ UNCHANGED dbNets

DropNodes(v) ==
    /\ dbNodes' = [n \in Node |-> IF NodeNet[n] = v /\ dbNodes[n] = "live"
                                  THEN "deleted" ELSE dbNodes[n]]
    /\ status' = [n \in Node |-> status[n] /\ NodeNet[n] # v]

\* del_network, with the nodes of the network.  Nobody asks who owns the network: for
\* another client the nodes are deleted, the row stays, and the deletion is pushed.
\* The same comes of a statement that fails unnoticed: of the second one, or of the
\* first, for the database deletes no network that has nodes.  A second statement
\* without a result ends the handler before the push.
DelNetwork(v) ==
    /\ Defined /\ ApiOnly
    /\ dbNets[v] = "live"
    /\ \/ /\ InStep /\ DropNodes(v) /\ dbNets' = [dbNets EXCEPT ![v] = "deleted"]
          /\ Send(sinfo, <<DelNetMsg(v)>>)
       \/ /\ Fault /\ strayNets' = strayNets \cup {v} /\ UNCHANGED <<strayNodes, dbNets>>
          /\ DropNodes(v) \/ UNCHANGED <<dbNodes, status>>
          /\ Send(sinfo, <<DelNetMsg(v)>>)
       \/ /\ Fault /\ DropNodes(v) /\ UNCHANGED <<strayNets, dbNets, toSwitch>>
          /\ strayNodes' = strayNodes \cup {n \in LiveNodes : NodeNet[n] = v}

\* The controller dies and ctrler_init runs again: the database stays, but for the
\* statuses (dao_reset_node_state)
StatusAfterRestart == [n \in Node |-> FALSE]

Crash ==
    /\ Defined
    /\ Fault /\ cur < MaxConn
    /\ cut' = cut \cup {c \in Conn : peer[c] # "none"}
    /\ peer' = [c \in Conn |-> IF peer[c] = "none" THEN "none" ELSE "freed"]
    /\ inbuf' = [c \in Conn |-> <<>>]
    /\ toCtl' = [c \in Conn |-> IF peer[c] = "none" THEN toCtl[c] ELSE <<>>]
    /\ sinfo' = 0
    /\ status' = StatusAfterRestart
    /\ UNCHANGED <<switchVars, toSwitch, dbNets, dbNodes, stray, refused>>

-----------------------------------------------------------------------------
SwitchNext ==
    \/ OnConnected \/ OnEof \/ NewPeer \/ NewPeerFails \/ OnRead \/ OnReadNoId \/ Start
    \/ \E n \in Node, on \in BOOLEAN : WriteStatus(n, on)
    \/ PipeRead \/ PipeReadFreed

CtlNext ==
    \/ Accept \/ Crash
    \/ \E c \in Conn : CtlConnected(c) \/ CtlRead(c) \/ CtlEof(c)
    \/ \E v \in Network : AddNetwork(v) \/ DelNetwork(v)
    \/ \E n \in Node : AddNode(n) \/ DelNode(n)

Next == SwitchNext \/ CtlNext \/ \E c \in Conn : Cut(c)

Spec == Init /\ [][Next]_vars

\* libevent runs every callback whose event is ready, and the timer expires; the
\* switch thread polls once a second.  Nothing makes agents, the API or the
\* network act.
Fairness ==
    /\ WF_vars(OnConnected) /\ WF_vars(OnEof) /\ WF_vars(NewPeer) /\ WF_vars(OnRead)
    /\ WF_vars(Start) /\ WF_vars(PipeRead) /\ WF_vars(Accept)
    /\ \A c \in Conn : WF_vars(CtlConnected(c)) /\ WF_vars(CtlRead(c)) /\ WF_vars(CtlEof(c))

FairSpec == Spec /\ Fairness
=============================================================================
