------------------------------- MODULE Agent -------------------------------
(***************************************************************************)
(* The agent (nvagent/src/agent.c): the thread that connects to the        *)
(* switch, the loop thread that runs the callbacks of netbus, and the      *)
(* exchange that provisions and authenticates the agent.  The two threads  *)
(* share the session and the connection without a lock, so the connecting  *)
(* thread is split at each of its assignments; a callback runs in the loop *)
(* thread and is one step.                                                 *)
(*                                                                         *)
(* The switch is what agent.c can see of nvswitch.  The transport keeps    *)
(* the order of messages and may break at any time.  Ethernet frames, the  *)
(* peer-to-peer connections and terminate are left out: no program of the  *)
(* repository sends an agent the messages that terminate is called for.    *)
(*                                                                         *)
(* Undefined behaviour (a freed connection is used, a callback finds no    *)
(* session) sets undef and ends the behaviour.                             *)
(***************************************************************************)
EXTENDS Integers, Sequences, FiniteSets

CONSTANTS
    Thread,     \* threads that can exist at once (model only)
    MaxConn     \* bound: connections made

ASSUME AgentAssumption == MaxConn \in Nat \ {0}

Conn == 1 .. MaxConn

VARIABLES
    (* struct session, and the files of the agent *)
    state,      \* session->state
    netc,       \* session->netc: a connection, freed or not, or 0 for NULL
    passport,   \* session->passport is set
    ipConf,     \* the file with the agent's address exists
    writable,   \* the agent can write its files (constant)
    (* the connecting threads *)
    pc,         \* "none" or where try_to_reconnect is
    mine,       \* retry_netc
    (* connections: the netc_t and its peer_t *)
    conn,       \* "none", "open" (in g_list_socket) or "freed"
    attached,   \* peer->ext_ptr leads to the netc_t
    ext,        \* netc->ext_ptr leads to the session
    broken,     \* the network dropped it, or the switch closed it
    toSwitch, toAgent,  \* messages on their way
    (* the switch *)
    server,     \* the state of its session of the connection
    willing,    \* it knows the network, the node and the code (constant)
    undef

sessionVars == <<state, netc, passport, ipConf, writable>>
threadVars  == <<pc, mine>>
connVars    == <<conn, attached, ext, broken>>
switchVars  == <<server, willing>>
vars == <<sessionVars, threadVars, connVars, toSwitch, toAgent, switchVars, undef>>

ToSwitch == {"hello", "provRequest", "authRequest", "rehello", "netinfoRequest"}
ToAgent  == {"finished", "provResponse", "stepUp", "success", "noRight",
             "netinfoResponse"}

(* Types: the session is in one of the four states of session.h. *)
TypeOK ==
    /\ state \in {"NOT_AUTHED", "WAIT_ANSWER", "AUTHED", "DOWN"}
    /\ netc \in 0 .. MaxConn
    /\ passport \in BOOLEAN /\ ipConf \in BOOLEAN /\ writable \in BOOLEAN
    /\ pc \in [Thread -> {"none", "sleep", "registered", "made", "marked", "stored"}]
    /\ mine \in [Thread -> 0 .. MaxConn]
    /\ conn \in [Conn -> {"none", "open", "freed"}]
    /\ attached \in [Conn -> BOOLEAN] /\ ext \in [Conn -> BOOLEAN]
    /\ broken \in [Conn -> BOOLEAN]
    /\ toSwitch \in [Conn -> Seq(ToSwitch)] /\ toAgent \in [Conn -> Seq(ToAgent)]
    /\ server \in [Conn -> {"none", "NOT_AUTHED", "WAIT_STEPUP", "AUTHED"}]
    /\ willing \in BOOLEAN /\ undef \in BOOLEAN

\* agent_init.  With a provisioning code no passport is loaded; an address may
\* be left by an earlier run, or be missing.
Init ==
    /\ state = "NOT_AUTHED" /\ netc = 0
    /\ passport \in BOOLEAN /\ ipConf \in BOOLEAN /\ writable \in BOOLEAN
    /\ \E t \in Thread : pc = [u \in Thread |-> IF u = t THEN "sleep" ELSE "none"]
    /\ mine = [t \in Thread |-> 0]
    /\ conn = [k \in Conn |-> "none"]
    /\ attached = [k \in Conn |-> FALSE] /\ ext = [k \in Conn |-> FALSE]
    /\ broken = [k \in Conn |-> FALSE]
    /\ toSwitch = [k \in Conn |-> <<>>] /\ toAgent = [k \in Conn |-> <<>>]
    /\ server = [k \in Conn |-> "none"]
    /\ willing \in BOOLEAN
    /\ undef = FALSE

Defined == ~undef /\ UNCHANGED undef

\* net_send_msg; what is sent on a broken connection is lost
Send(k, m) ==
    toSwitch' = IF broken[k] THEN toSwitch ELSE [toSwitch EXCEPT ![k] = Append(@, m)]

-----------------------------------------------------------------------------
(* try_to_reconnect, and net_client which it calls.  A connection that cannot  *)
(* be made leaves the thread asleep.                                           *)

\* udtbus_client: the connection is made and, from here on, served by the loop
Connect(t, k) ==
    /\ Defined
    /\ pc[t] = "sleep"
    /\ conn[k] = "none" /\ \A j \in Conn : j < k => conn[j] # "none"
    /\ conn' = [conn EXCEPT ![k] = "open"]
    /\ server' = [server EXCEPT ![k] = "NOT_AUTHED"]
    /\ mine' = [mine EXCEPT ![t] = k]
    /\ pc' = [pc EXCEPT ![t] = "registered"]
    /\ UNCHANGED <<sessionVars, attached, ext, broken, toSwitch, toAgent, willing>>

\* net_client: peer->ext_ptr, then the first message of the handshake
Attach(t) ==
    /\ Defined
    /\ pc[t] = "registered" /\ conn[mine[t]] = "open"
    /\ attached' = [attached EXCEPT ![mine[t]] = TRUE]
    /\ Send(mine[t], "hello")
    /\ pc' = [pc EXCEPT ![t] = "made"]
    /\ UNCHANGED <<sessionVars, mine, conn, ext, broken, toAgent, switchVars>>

MarkState(t) ==
    /\ Defined
    /\ pc[t] = "made"
    /\ state' = "NOT_AUTHED"
    /\ pc' = [pc EXCEPT ![t] = "marked"]
    /\ UNCHANGED <<netc, passport, ipConf, writable, mine, connVars, toSwitch, toAgent, switchVars>>

StoreNetc(t) ==
    /\ Defined
    /\ pc[t] = "marked"
    /\ netc' = mine[t]
    /\ pc' = [pc EXCEPT ![t] = "stored"]
    /\ UNCHANGED <<state, passport, ipConf, writable, mine, connVars, toSwitch, toAgent, switchVars>>

\* the thread ends once it has a connection.  (Slip: it goes on retrying.)
AfterConnect_Loop == "sleep"
AfterConnect == "none"

StoreExt(t) ==
    /\ Defined
    /\ pc[t] = "stored" /\ conn[mine[t]] = "open"
    /\ ext' = [ext EXCEPT ![mine[t]] = TRUE]
    /\ pc' = [pc EXCEPT ![t] = AfterConnect]
    /\ UNCHANGED <<sessionVars, mine, conn, attached, broken, toSwitch, toAgent, switchVars>>

\* the connection was freed by the loop between two of these steps
UseFreed(t) ==
    /\ ~undef
    /\ pc[t] \in {"registered", "stored"} /\ conn[mine[t]] = "freed"
    /\ undef' = TRUE
    /\ UNCHANGED <<sessionVars, threadVars, connVars, toSwitch, toAgent, switchVars>>

\* udtbus_ion_add moves g_list_socket while the loop walks it
ListMoved(t) ==
    /\ ~undef
    /\ pc[t] = "sleep"
    /\ undef' = TRUE
    /\ UNCHANGED <<sessionVars, threadVars, connVars, toSwitch, toAgent, switchVars>>

ThreadStep(t) ==
    \/ \E k \in Conn : Connect(t, k)
    \/ Attach(t) \/ MarkState(t) \/ StoreNetc(t) \/ StoreExt(t) \/ UseFreed(t)

-----------------------------------------------------------------------------
(* The loop thread *)

\* what on_disconnect leaves in the session.  (Slip: the state is kept.)
StateAfterLoss_Kept == state
StateAfterLoss == "DOWN"

\* pthread_create(try_to_reconnect).  (Slip: only an authenticated session is
\* taken up again.)
Respawn_Authed ==
    IF state = "AUTHED"
    THEN \E t \in Thread : pc[t] = "none" /\ pc' = [pc EXCEPT ![t] = "sleep"]
    ELSE UNCHANGED pc
Respawn == \E t \in Thread : pc[t] = "none" /\ pc' = [pc EXCEPT ![t] = "sleep"]

\* udtbus_poke_queue finds the connection broken: on_disconnect of udt.cpp,
\* net_on_disconnect, on_disconnect.  Without a session there is no one to tell.
Lost(k) ==
    /\ Defined
    /\ conn[k] = "open" /\ broken[k]
    /\ conn' = [conn EXCEPT ![k] = "freed"]
    /\ toAgent' = [toAgent EXCEPT ![k] = <<>>]
    /\ ext' = [ext EXCEPT ![k] = FALSE]
    /\ IF attached[k] /\ ext[k] /\ state # "DOWN"
       THEN state' = StateAfterLoss /\ Respawn
       ELSE UNCHANGED <<state, pc>>
    /\ UNCHANGED <<netc, passport, ipConf, writable, mine, attached, broken, toSwitch, switchVars>>

\* transmit_register
Register(k) == Send(k, "authRequest") /\ state' = "WAIT_ANSWER"

\* on_secure, at the end of the first handshake
OnSecure(k) ==
    /\ IF state # "NOT_AUTHED" THEN UNCHANGED <<state, toSwitch>>
       ELSE IF passport THEN Register(k)
       ELSE Send(k, "provRequest") /\ UNCHANGED state
    /\ UNCHANGED <<passport, ipConf>>

\* op_prov_response ends in transmit_register.  (Slip: it ends with the passport.)
AfterProvision_Forgotten(k) == UNCHANGED <<state, toSwitch>>
AfterProvision(k) == Register(k)

\* op_prov_response writes the files first and returns if it cannot
OpProvResponse(k) ==
    IF writable
    THEN passport' = TRUE /\ ipConf' = TRUE /\ AfterProvision(k)
    ELSE UNCHANGED <<state, passport, ipConf, toSwitch>>

\* op_auth_response asks for the address once the switch answered success.
\* (Slip: the case of secureStepUp falls through to it.)
AsksNetinfo_Fallthrough(m) == m \in {"success", "stepUp"}
AsksNetinfo(m) == m = "success"

\* op_auth_response; after secureStepUp the agent takes part in the second
\* handshake, of which on_secure is not told
OpAuthResponse(k, m) ==
    /\ \/ AsksNetinfo(m) /\ Send(k, "netinfoRequest")
       \/ m = "stepUp" /\ Send(k, "rehello")
       \/ m = "noRight" /\ UNCHANGED toSwitch
    /\ UNCHANGED <<state, passport, ipConf>>

\* op_netinfo_response
OpNetinfoResponse ==
    /\ state' = IF ipConf THEN "AUTHED" ELSE state
    /\ UNCHANGED <<passport, ipConf, toSwitch>>

\* net_on_input with on_secure, or with on_input and dispatch_op
Input(k) ==
    LET m == Head(toAgent[k])
    IN  /\ Defined
        /\ conn[k] = "open" /\ ext[k] /\ toAgent[k] # <<>>
        /\ toAgent' = [toAgent EXCEPT ![k] = Tail(@)]
        /\ \/ m = "finished" /\ OnSecure(k)
           \/ m = "provResponse" /\ OpProvResponse(k)
           \/ m \in {"stepUp", "success", "noRight"} /\ OpAuthResponse(k, m)
           \/ m = "netinfoResponse" /\ OpNetinfoResponse
        /\ UNCHANGED <<netc, writable, threadVars, connVars, switchVars>>

\* on_secure runs before the thread has stored the session in the connection; or
\* a send fails and frees the connection its caller goes on with (the frames
\* that tunnel_in sends as soon as the state is AUTHED included)
LoopUndefined(k) ==
    /\ ~undef
    /\ conn[k] = "open"
    /\ \/ ~ext[k] /\ toAgent[k] # <<>>
       \/ broken[k] /\ ext[k] /\ (toAgent[k] # <<>> \/ state = "AUTHED")
    /\ undef' = TRUE
    /\ UNCHANGED <<sessionVars, threadVars, connVars, toSwitch, toAgent, switchVars>>

-----------------------------------------------------------------------------
(* The switch and the network *)

\* net_send_msg of the switch
Reply(k, m) == toAgent' = [toAgent EXCEPT ![k] = Append(@, m)]

\* authRequest of nvswitch: without the network it refuses, or does not answer
AuthRequest(k) ==
    IF server[k] = "NOT_AUTHED"
    THEN \/ Reply(k, "stepUp") /\ server' = [server EXCEPT ![k] = "WAIT_STEPUP"]
         \/ ~willing /\ Reply(k, "noRight") /\ UNCHANGED server
         \/ ~willing /\ UNCHANGED <<toAgent, server>>
    ELSE UNCHANGED <<toAgent, server>>

\* on_secure of nvswitch, at the end of the second handshake; it returns at once
\* unless the session waits for it
OnSecureSwitch(k) ==
    IF willing
    THEN Reply(k, "success") /\ server' = [server EXCEPT ![k] = "AUTHED"]
    ELSE Reply(k, "noRight") /\ UNCHANGED server

\* one message; handle_netinfo_request answers in any state of the session
Serve(k) ==
    LET m == Head(toSwitch[k])
    IN  /\ Defined
        /\ conn[k] = "open" /\ ~broken[k] /\ toSwitch[k] # <<>>
        /\ toSwitch' = [toSwitch EXCEPT ![k] = Tail(@)]
        /\ \/ m = "hello" /\ Reply(k, "finished") /\ UNCHANGED server
           \/ m = "provRequest" /\ willing /\ Reply(k, "provResponse") /\ UNCHANGED server
           \/ m = "provRequest" /\ ~willing /\ UNCHANGED <<toAgent, server>>
           \/ m = "authRequest" /\ AuthRequest(k)
           \/ m = "rehello" /\ OnSecureSwitch(k)
           \/ m = "netinfoRequest" /\ Reply(k, "netinfoResponse") /\ UNCHANGED server
        /\ UNCHANGED <<sessionVars, threadVars, connVars, willing>>

\* The connection breaks.  Bound: the last one does not.
Break(k) ==
    /\ Defined
    /\ conn[k] = "open" /\ ~broken[k] /\ k < MaxConn
    /\ broken' = [broken EXCEPT ![k] = TRUE]
    /\ UNCHANGED <<sessionVars, threadVars, conn, attached, ext, toSwitch, toAgent, switchVars>>

-----------------------------------------------------------------------------
LoopStep(k) == Lost(k) \/ Input(k)

Next ==
    \/ \E t \in Thread : ThreadStep(t) \/ ListMoved(t)
    \/ \E k \in Conn : LoopStep(k) \/ LoopUndefined(k) \/ Serve(k) \/ Break(k)

Spec == Init /\ [][Next]_vars

\* Both threads of the agent run for ever and the switch serves every message.
Fairness ==
    /\ \A t \in Thread : WF_vars(ThreadStep(t))
    /\ \A k \in Conn : WF_vars(LoopStep(k)) /\ WF_vars(Serve(k))
FairSpec == Spec /\ Fairness

-----------------------------------------------------------------------------
(* Properties *)

Working == {t \in Thread : pc[t] # "none"}

\* The agent has one connection at a time: on_disconnect starts a thread only for
\* a connection that a finished thread handed over, so no two threads connect and
\* no connection is abandoned, whatever breaks while a thread is at work.
OneConnection ==
    /\ \A k, l \in Conn : conn[k] = "open" /\ conn[l] = "open" => k = l
    /\ \A t, u \in Working : t = u

\* The loop dereferences session->netc when a frame or an answer comes: while the
\* session waits for an answer or is authenticated, the connection it holds is
\* not freed and leads back to the session.
NetcLive ==
    state \in {"WAIT_ANSWER", "AUTHED"}
        => netc # 0 /\ conn[netc] = "open" /\ ext[netc] /\ Working = {}

\* The agent is never left alone: a thread is connecting or a connection exists
\* whose loss starts one, unless the connection was lost before its thread had
\* stored the session in it, which ends in undefined behaviour.
NeverStranded == \/ Working # {}
                 \/ \E k \in Conn : conn[k] = "open" /\ attached[k] /\ ext[k]

\* The agent brings its interface up and sends frames only over a connection
\* that the switch has authenticated after the second handshake.
AuthedBySwitch == state = "AUTHED" => server[netc] = "AUTHED"

\* An agent that the switch knows, or can provision, and that can write its files
\* is authenticated in the end, however often the connection breaks meanwhile.
EventuallyAuthed ==
    willing /\ (IF passport THEN ipConf ELSE writable) ~> (state = "AUTHED" \/ undef)
=============================================================================
