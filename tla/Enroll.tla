------------------------------- MODULE Enroll -------------------------------
(***************************************************************************)
(* The provisioning round trip.  An agent sends the switch its             *)
(* provisioning code; the switch thread stores the session in a table and  *)
(* writes a query to the pipe (query_provisioning); the control thread     *)
(* sends it to nvctrler, which answers with the passport of the node that  *)
(* has the code, and gives the answer to the session of the table          *)
(* (provisioning of nvswitch/src/control.c).                               *)
(*                                                                         *)
(* tracking_id never moves, so the table is one slot.  The two threads     *)
(* share it without a lock: every access to it is a step of its own.       *)
(* The streams between the two processes are as in Control; Other stands   *)
(* for every query that is not a provisioning.                             *)
(*                                                                         *)
(* A session is freed when it disconnects; to send to it afterwards is     *)
(* undefined, sets undef and ends the behaviour.                           *)
(***************************************************************************)
EXTENDS Integers, Sequences

CONSTANTS
    Session, Node,
    NodeOf,     \* [Session -> Node]: the node whose code the agent has
    Known,      \* the nodes whose code the database has
    None,       \* NULL
    MaxOther    \* bound: queries in flight when another status is written

ASSUME EnrollAssumption ==
    /\ NodeOf \in [Session -> Node] /\ Known \subseteq Node
    /\ None \notin Session /\ MaxOther \in Nat

VARIABLES
    (* the switch thread *)
    session,    \* "none", "open", "waiting" (it asked) or "freed"
    writing,    \* the session whose query query_provisioning is about to write
    slot,       \* session_tracking_table[0]
    (* the control thread *)
    pipe,       \* queries written to pipefd[1] and not read yet
    up,         \* the connection to nvctrler
    answering,  \* what provisioning works on, <<>> when the thread is elsewhere
    got,        \* the passports sent to a session, in order
    (* the connection and nvctrler *)
    toCtl,      \* lines on their way to nvctrler
    inbuf,      \* lines in its input buffer
    toSwitch,   \* answers on their way to the switch
    (* history *)
    company,    \* what was in flight together with a session's query
    undef

switchVars == <<session, writing>>
pipeVars   == <<pipe, up>>
wireVars   == <<toCtl, inbuf, toSwitch>>
vars == <<switchVars, slot, pipeVars, answering, got, wireVars, company, undef>>

Query(n) == [op |-> "provisioning", node |-> n]
Other    == [op |-> "other"]
Queries  == {Query(n) : n \in Node} \cup {Other}
Line     == Seq(Queries) \ {<<>>}
Answers  == [node : Node, success : BOOLEAN]

(* Types. *)
TypeOK ==
    /\ session \in [Session -> {"none", "open", "waiting", "freed"}]
    /\ writing \in Session \cup {None} /\ slot \in Session \cup {None}
    /\ pipe \in Seq(Queries) /\ up \in BOOLEAN
    /\ answering = <<>> \/ answering \in [node : Node, session : Session \cup {None},
                                          at : {"read", "cleared"}]
    /\ got \in [Session -> Seq(Node)]
    /\ toCtl \in Seq(Line) /\ inbuf \in Seq(Line) /\ toSwitch \in Seq(Answers)
    /\ company \in [Session -> SUBSET {"query", "other"}]
    /\ undef \in BOOLEAN

Init ==
    /\ session = [s \in Session |-> "none"] /\ writing = None /\ slot = None
    /\ pipe = <<>> /\ up = TRUE /\ answering = <<>>
    /\ got = [s \in Session |-> <<>>]
    /\ toCtl = <<>> /\ inbuf = <<>> /\ toSwitch = <<>>
    /\ company = [s \in Session |-> {}]
    /\ undef = FALSE

Defined == ~undef /\ UNCHANGED undef

Crash ==
    /\ ~undef /\ undef' = TRUE
    /\ UNCHANGED <<switchVars, slot, pipeVars, answering, got, wireVars, company>>

-----------------------------------------------------------------------------
(* The history that the properties refer to: whether another provisioning was in
   flight, and whether anything else was or the connection was down *)

Lines == toCtl \o inbuf \o [i \in 1 .. Len(pipe) |-> <<pipe[i]>>]

InFlight ==
    {IF q = Other THEN "other" ELSE "query" :
        q \in UNION {{l[i] : i \in 1 .. Len(l)} : l \in {Lines[i] : i \in 1 .. Len(Lines)}}}
    \cup (IF toSwitch # <<>> \/ answering # <<>> THEN {"query"} ELSE {})
    \cup (IF up THEN {} ELSE {"other"})

Joins(kind) == [s \in Session |-> IF session[s] = "waiting" THEN company[s] \cup {kind}
                                                            ELSE company[s]]

-----------------------------------------------------------------------------
(* The switch thread *)

Connect(s) ==
    /\ Defined
    /\ session[s] = "none"
    /\ session' = [session EXCEPT ![s] = "open"]
    /\ UNCHANGED <<writing, slot, pipeVars, answering, got, wireVars, company>>

\* query_provisioning up to its write.  (Slip: the query's tid and the index of the
\* table differ by one.)
SlotAfterRequest_Elsewhere(s) == slot
SlotAfterRequest(s) == s

Request(s) ==
    /\ Defined
    /\ session[s] = "open" /\ writing = None
    /\ session' = [session EXCEPT ![s] = "waiting"]
    /\ slot' = SlotAfterRequest(s)
    /\ writing' = s
    /\ company' = [Joins("query") EXCEPT ![s] = InFlight]
    /\ UNCHANGED <<pipeVars, answering, got, wireVars>>

WriteQuery ==
    /\ Defined
    /\ writing # None
    /\ pipe' = Append(pipe, Query(NodeOf[writing]))
    /\ writing' = None
    /\ UNCHANGED <<session, slot, up, answering, got, wireVars, company>>

\* update_node_status for any other session
WriteStatus ==
    /\ Defined
    /\ writing = None /\ Len(Lines) < MaxOther
    /\ pipe' = Append(pipe, Other)
    /\ company' = Joins("other")
    /\ UNCHANGED <<switchVars, slot, up, answering, got, wireVars>>

\* on_disconnect: the table keeps its pointer
Disconnect(s) ==
    /\ Defined
    /\ session[s] \in {"open", "waiting"} /\ writing = None
    /\ session' = [session EXCEPT ![s] = "freed"]
    /\ UNCHANGED <<writing, slot, pipeVars, answering, got, wireVars, company>>

-----------------------------------------------------------------------------
(* The control thread *)

\* pipe_read_cb: what the pipe holds becomes one line.
Drained == 1 .. Len(pipe)

PipeRead ==
    /\ Defined
    /\ up /\ answering = <<>>
    /\ \E k \in Drained :
          /\ toCtl' = Append(toCtl, SubSeq(pipe, 1, k))
          /\ pipe' = SubSeq(pipe, k + 1, Len(pipe))
    /\ UNCHANGED <<switchVars, slot, up, answering, got, inbuf, toSwitch, company>>

\* pipe_read_cb while bufev_sock is freed
PipeReadFreed ==
    /\ ~up /\ pipe # <<>>
    /\ Crash

\* provisioning, the first half: an answer other than success is dropped, with the
\* session still in the table; for a success the session is read from the table
ReadSlot ==
    LET answer == Head(toSwitch)
    IN  /\ Defined
        /\ answering = <<>> /\ toSwitch # <<>>
        /\ toSwitch' = Tail(toSwitch)
        /\ answering' = IF answer.success
                        THEN [node |-> answer.node, session |-> slot, at |-> "read"]
                        ELSE <<>>
        /\ UNCHANGED <<switchVars, slot, pipeVars, got, toCtl, inbuf, company>>

\* session_tracking_table[...] = NULL.  (Slip: the session stays in the table.)
SlotAfterRead_Kept == slot
SlotAfterRead == None

ClearSlot ==
    /\ Defined
    /\ answering # <<>> /\ answering.at = "read"
    /\ slot' = SlotAfterRead
    /\ answering' = [answering EXCEPT !.at = "cleared"]
    /\ UNCHANGED <<switchVars, pipeVars, got, wireVars, company>>

\* if (session) net_send_msg
Deliver ==
    /\ Defined
    /\ answering # <<>> /\ answering.at = "cleared"
    /\ \/ answering.session = None /\ UNCHANGED got
       \/ /\ answering.session # None /\ session[answering.session] # "freed"
          /\ got' = [got EXCEPT ![answering.session] = Append(@, answering.node)]
    /\ answering' = <<>>
    /\ UNCHANGED <<switchVars, slot, pipeVars, wireVars, company>>

DeliverFreed ==
    /\ answering # <<>> /\ answering.at = "cleared"
    /\ answering.session # None /\ session[answering.session] = "freed"
    /\ Crash

-----------------------------------------------------------------------------
(* The connection *)

Cut ==
    /\ Defined
    /\ up /\ answering = <<>>
    /\ up' = FALSE
    /\ toCtl' = <<>> /\ inbuf' = <<>> /\ toSwitch' = <<>>
    /\ company' = Joins("other")
    /\ UNCHANGED <<switchVars, slot, pipe, answering, got>>

\* new_peer and on_event_cb: the lists are asked for again
Reconnect ==
    /\ Defined
    /\ ~up
    /\ up' = TRUE
    /\ toCtl' = <<<<Other>>>>
    /\ company' = Joins("other")
    /\ UNCHANGED <<switchVars, slot, pipe, answering, got, inbuf, toSwitch>>

-----------------------------------------------------------------------------
(* nvctrler *)

\* dao_fetch_node_from_provcode takes the first row that has the code.  (Slip: the
\* statement does not look at the code.)
RowsWithCode_Any(n) == Known
RowsWithCode(n) == Known \cap {n}

\* provisioning of request.c
Answer(n) ==
    IF RowsWithCode(n) = {} THEN {[node |-> n, success |-> FALSE]}
    ELSE {[node |-> m, success |-> TRUE] : m \in RowsWithCode(n)}

\* on_read_cb: k lines arrive, one is read; a line of several queries is no JSON
\* text and is dropped
CtlRead ==
    /\ Defined
    /\ \E k \in 1 .. Len(toCtl) :
          LET lines == inbuf \o SubSeq(toCtl, 1, k)
              line  == Head(lines)
          IN  /\ toCtl' = SubSeq(toCtl, k + 1, Len(toCtl))
              /\ inbuf' = Tail(lines)
              /\ IF Len(line) = 1 /\ Head(line) # Other
                 THEN \E a \in Answer(Head(line).node) : toSwitch' = Append(toSwitch, a)
                 ELSE UNCHANGED toSwitch
    /\ UNCHANGED <<switchVars, slot, pipeVars, answering, got, company>>

-----------------------------------------------------------------------------
ControlStep == PipeRead \/ ReadSlot \/ ClearSlot \/ Deliver

Next ==
    \/ \E s \in Session : Connect(s) \/ Request(s) \/ Disconnect(s)
    \/ WriteQuery \/ WriteStatus
    \/ ControlStep \/ PipeReadFreed \/ DeliverFreed
    \/ Cut \/ Reconnect \/ CtlRead

Spec == Init /\ [][Next]_vars

\* The switch thread ends what it began, and the two event loops serve what is
\* ready.  Agents, statuses and the connection promise nothing.
FairSpec ==
    /\ Spec
    /\ WF_vars(WriteQuery) /\ WF_vars(PipeRead) /\ WF_vars(ReadSlot)
    /\ WF_vars(ClearSlot) /\ WF_vars(Deliver) /\ WF_vars(CtlRead)

-----------------------------------------------------------------------------
(* Properties *)

\* A session is sent at most one passport, whichever threads interleave and
\* whatever answers arrive late: reading the slot and clearing it go together.
OneAnswer == \A s \in Session : Len(got[s]) <= 1

\* An agent is given its own passport as long as no other provisioning was in
\* flight while it waited: statuses, lost connections and lines that were dropped
\* do not mix up who asked.  (With another one in flight the single slot does.)
OwnPassport ==
    \A s \in Session : \A i \in 1 .. Len(got[s]) :
        "query" \notin company[s] => got[s][i] = NodeOf[s]

\* An agent with a code that the database has gets an answer, provided nothing
\* else was in flight: neither thread and neither process forgets the query.
EventuallyAnswered ==
    \A s \in Session : NodeOf[s] \in Known =>
        (session[s] = "waiting"
            ~> got[s] # <<>> \/ company[s] # {} \/ session[s] = "freed" \/ undef)
=============================================================================
