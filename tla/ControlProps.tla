---------------------------- MODULE ControlProps ----------------------------
(***************************************************************************)
(* What the control channel guarantees.                                    *)
(***************************************************************************)
EXTENDS Control

\* Nothing is on its way on the current connection, in either direction
Quiet ==
    /\ link = "up" /\ inited /\ cur \notin cut
    /\ toCtl[cur] = <<>> /\ inbuf[cur] = <<>> /\ toSwitch[cur] = <<>>

\* The networks and nodes that no failure and no stranger's deletion has left half
\* added or half deleted since the controller got this session
SoundNet(v)  == v \notin strayNets
SoundNode(n) == n \notin strayNodes /\ SoundNet(NodeNet[n])

\* The switch has the lists of the controller that pushes to it
Served == Quiet /\ sinfo = cur /\ cur \notin refused

(* Completeness.  Once the lists were fetched and the connection is idle, the
   switch knows every network and every node of the database, as long as the
   controller still has this connection for the switch's: the pushes of add_network
   and add_node and the rows of the lists cannot overtake each other.  Excepted is
   what an operation of the API changed on one side only since the controller accepted
   this connection (SoundNet, SoundNode); whatever had gone wrong before, the lists of
   a new connection make good. *)
SwitchComplete ==
    Served => /\ \A v \in LiveNets : SoundNet(v) => v \in nets
              /\ \A n \in LiveNodes : SoundNode(n) => n \in nodes

(* Exactness.  On the first connection nothing was missed, so the switch knows
   nothing else either. *)
SwitchExact ==
    Served /\ cur = 1 => /\ \A v \in nets : SoundNet(v) => v \in LiveNets
                         /\ \A n \in nodes : SoundNode(n) => n \in LiveNodes

(* An access table only exists with its network (listall_node's lookup,
   del_network's free). *)
NoOrphanNode == \A n \in nodes : NodeNet[n] \in nets

(* switch_sinfo, which the API's handlers write to, is never a freed session. *)
SinfoLive == sinfo # 0 => peer[sinfo] = "ready"

(* Statuses are only shown while a switch is connected: every way to lose the
   switch resets them. *)
NoSwitchNoStatus == (\A c \in Conn : peer[c] # "ready") => \A n \in Node : ~status[n]

(* Progress.  While the database has a network and a node, the switch ends up
   serving agents, however often the connection breaks before; unless its latest
   attempt to connect failed at once, or its latest list was answered by an error: it
   does not try either again. *)
EventuallyStarted ==
    /\ [](LiveNets # {} /\ LiveNodes # {})
    /\ <>[](link # "none" /\ cur \notin refused)
    => <>(started \/ undef)
=============================================================================
