-------------------------------- MODULE P2P --------------------------------
(***************************************************************************)
(* The agent's peer-to-peer links (nvagent/src/p2p.c): for every request   *)
(* of the switch a session, a connection and a thread that meets the other *)
(* agent (udtbus_rendezvous of udt.cpp, net_p2p_on_connect of netbus.c),   *)
(* the loop thread that secures, uses and loses the connection, and the    *)
(* table that leads from a hardware address to a session.                  *)
(*                                                                         *)
(* An attempt stands for the session, the connection, the peer and the     *)
(* thread that op_p2p_request makes.  The thread shares them with the loop *)
(* without a lock, so it is split where it assigns them.                   *)
(*                                                                         *)
(* Undefined behaviour (freed memory or an unset pointer is used) sets     *)
(* undef and ends the behaviour.                                           *)
(***************************************************************************)
EXTENDS Integers

CONSTANTS
    Mac,        \* hardware addresses of other agents
    Attempt,    \* requests that the switch sends
    Ports,      \* ports that udtbus_rendezvous tries, 4 in the code
    None        \* no attempt: a hole of the table

ASSUME P2PAssumption == Ports \in Nat \ {0} /\ None \notin Attempt

VARIABLES
    mac,        \* session->mac_dst
    side,       \* "client" or "server", as the request says
    session,    \* the session: "none", "live" or "freed"
    authed,     \* session->state is AUTHED
    sessNetc,   \* session->netc is set
    netc,       \* the connection: "none", "live" or "freed"
    hasSession, \* netc->ext_ptr is set and leads to the session
    notify,     \* netc->on_disconnect is set
    tls,        \* kconn->status: "noinit", "handshake" or "secure"; "failed" once
                \* krypt_secure_connection failed and the connection is freed
    thread,     \* "none", where udtbus_rendezvous is, or "ended"
    port,       \* port_itr
    listed,     \* the socket is in g_list_socket
    broken,     \* the network dropped the connection, or the other agent closed it
    peer,       \* the other agent's handshake: "idle", "sent", "lost" or "done"
    table,      \* ftable
    undef

sessionVars == <<mac, side, session, authed, sessNetc>>
netcVars    == <<netc, hasSession, notify, tls>>
threadVars  == <<thread, port>>
wireVars    == <<listed, broken, peer>>
vars == <<sessionVars, netcVars, threadVars, wireVars, table, undef>>

(* Types. *)
TypeOK ==
    /\ mac \in [Attempt -> Mac] /\ side \in [Attempt -> {"client", "server"}]
    /\ session \in [Attempt -> {"none", "live", "freed"}]
    /\ authed \in [Attempt -> BOOLEAN] /\ sessNetc \in [Attempt -> BOOLEAN]
    /\ netc \in [Attempt -> {"none", "live", "freed"}]
    /\ hasSession \in [Attempt -> BOOLEAN] /\ notify \in [Attempt -> BOOLEAN]
    /\ tls \in [Attempt -> {"noinit", "handshake", "secure", "failed"}]
    /\ thread \in [Attempt -> {"none", "rendezvous", "met", "securing", "ended"}]
    /\ port \in [Attempt -> 0 .. Ports - 1]
    /\ listed \in [Attempt -> BOOLEAN] /\ broken \in [Attempt -> BOOLEAN]
    /\ peer \in [Attempt -> {"idle", "sent", "lost", "done"}]
    /\ table \in [Mac -> Attempt \cup {None}]
    /\ undef \in BOOLEAN

\* p2p_init
Init ==
    /\ mac \in [Attempt -> Mac] /\ side \in [Attempt -> {"client", "server"}]
    /\ session = [p \in Attempt |-> "none"]
    /\ authed = [p \in Attempt |-> FALSE] /\ sessNetc = [p \in Attempt |-> FALSE]
    /\ netc = [p \in Attempt |-> "none"]
    /\ hasSession = [p \in Attempt |-> FALSE] /\ notify = [p \in Attempt |-> FALSE]
    /\ tls = [p \in Attempt |-> "noinit"]
    /\ thread = [p \in Attempt |-> "none"] /\ port = [p \in Attempt |-> 0]
    /\ listed = [p \in Attempt |-> FALSE] /\ broken = [p \in Attempt |-> FALSE]
    /\ peer = [p \in Attempt |-> "idle"]
    /\ table = [m \in Mac |-> None]
    /\ undef = FALSE

Defined == ~undef /\ UNCHANGED undef

\* a step that uses freed memory or an unset pointer
Crash ==
    /\ ~undef /\ undef' = TRUE
    /\ UNCHANGED <<sessionVars, netcVars, threadVars, wireVars, table>>

-----------------------------------------------------------------------------
(* What the callbacks do *)

\* The session that the table holds for the address of p's session.
Found(p) == table[mac[p]]

\* p2p_on_disconnect tests that the table holds this very session.
InTable(p) == Found(p) = p

\* ftable_erase releases the entry (session_itemrel): the session it held is
\* freed and its connection is not to notify any more.  (Slip: the session is
\* freed and the entry stays.)
TableAfter_Kept(p) == table
TableAfter(p) == IF InTable(p) THEN [table EXCEPT ![mac[p]] = None] ELSE table

\* (Slip: only a session of the table is freed.)
Released_TableOnly(p) == IF InTable(p) THEN {Found(p)} ELSE {}
Released(p) == IF InTable(p) THEN {Found(p)} ELSE {p}

\* p2p_on_disconnect, if it is called, then net_connection_free
Disconnected(p) ==
    /\ LET gone == IF notify[p] THEN Released(p) ELSE {}
       IN  /\ session' = [q \in Attempt |-> IF q \in gone THEN "freed" ELSE session[q]]
           /\ notify' = [q \in Attempt |-> IF InTable(p) /\ q \in gone THEN FALSE ELSE notify[q]]
    /\ table' = IF notify[p] THEN TableAfter(p) ELSE table
    /\ netc' = [netc EXCEPT ![p] = "freed"]
    /\ listed' = [listed EXCEPT ![p] = FALSE]

-----------------------------------------------------------------------------
(* op_p2p_request and the thread of net_p2p *)

OpP2pRequest(p) ==
    /\ Defined
    /\ session[p] = "none"
    /\ session' = [session EXCEPT ![p] = "live"]
    /\ netc' = [netc EXCEPT ![p] = "live"]
    /\ hasSession' = [hasSession EXCEPT ![p] = TRUE]
    /\ notify' = [notify EXCEPT ![p] = TRUE]
    /\ thread' = [thread EXCEPT ![p] = "rendezvous"]
    /\ UNCHANGED <<mac, side, authed, sessNetc, tls, port, wireVars, table>>

\* port_itr < nb_port-1
PortLeft(p) == port[p] < Ports - 1

\* UDT::connect failed and another port is left
TryNextPort(p) ==
    /\ Defined
    /\ thread[p] = "rendezvous" /\ PortLeft(p)
    /\ port' = [port EXCEPT ![p] = @ + 1]
    /\ UNCHANGED <<sessionVars, netcVars, thread, wireVars, table>>

\* the last port, or a socket that cannot be bound: on_disconnect of udt.cpp
RendezvousFailed(p) ==
    /\ Defined
    /\ thread[p] = "rendezvous"
    /\ Disconnected(p)
    /\ thread' = [thread EXCEPT ![p] = "ended"]
    /\ UNCHANGED <<mac, side, authed, sessNetc, hasSession, tls, port, broken, peer>>

\* the agents met: from here on the loop serves the socket
Register(p) ==
    /\ Defined
    /\ thread[p] = "rendezvous"
    /\ listed' = [listed EXCEPT ![p] = TRUE]
    /\ thread' = [thread EXCEPT ![p] = "met"]
    /\ UNCHANGED <<sessionVars, netcVars, port, broken, peer, table>>

\* net_p2p_on_connect: the handshake starts, and the client sends its hello
StartTls(p) ==
    /\ Defined
    /\ thread[p] = "met" /\ netc[p] = "live"
    /\ tls' = [tls EXCEPT ![p] = "handshake"]
    /\ thread' = [thread EXCEPT ![p] = "securing"]
    /\ UNCHANGED <<sessionVars, netc, hasSession, notify, port, wireVars, table>>

\* net_p2p_on_connect, no SSL context: the connection is freed and nobody is told.
\* The session stays, and the socket, whose peer leads to the freed connection.
SecureFailed(p) ==
    /\ Defined
    /\ thread[p] = "met" /\ netc[p] = "live"
    /\ netc' = [netc EXCEPT ![p] = "freed"]
    /\ tls' = [tls EXCEPT ![p] = "failed"]
    /\ thread' = [thread EXCEPT ![p] = "ended"]
    /\ UNCHANGED <<sessionVars, hasSession, notify, port, wireVars, table>>

\* p2p_on_connect
OnConnect(p) ==
    /\ Defined
    /\ thread[p] = "securing" /\ netc[p] = "live"
    /\ sessNetc' = [sessNetc EXCEPT ![p] = TRUE]
    /\ thread' = [thread EXCEPT ![p] = "ended"]
    /\ UNCHANGED <<mac, side, session, authed, netcVars, port, wireVars, table>>

\* the loop lost the connection and freed what the thread is working on
ThreadUsesFreed(p) ==
    /\ thread[p] \in {"met", "securing"} /\ netc[p] = "freed"
    /\ Crash

ThreadStep(p) ==
    \/ TryNextPort(p) \/ RendezvousFailed(p) \/ Register(p)
    \/ StartTls(p) \/ SecureFailed(p) \/ OnConnect(p) \/ ThreadUsesFreed(p)

-----------------------------------------------------------------------------
(* The loop thread *)

\* ftable_insert keeps the entry that the table has for the address (jsw_hinsert
\* disallows duplicate keys).  (Slip: it replaces the entry.)
TableAfterInsert_Replaces(p) == [table EXCEPT ![mac[p]] = p]
TableAfterInsert(p) == IF Found(p) = None THEN [table EXCEPT ![mac[p]] = p] ELSE table

\* net_on_input: the other agent's handshake arrives while the thread has not
\* started TLS, and is read and forgotten
HandshakeLost(p) ==
    /\ Defined
    /\ listed[p] /\ netc[p] = "live" /\ tls[p] = "noinit" /\ peer[p] = "sent"
    /\ peer' = [peer EXCEPT ![p] = "lost"]
    /\ UNCHANGED <<sessionVars, netcVars, threadVars, listed, broken, table>>

\* net_on_input and p2p_on_secure: the handshake ends
OnSecure(p) ==
    /\ Defined
    /\ listed[p] /\ tls[p] = "handshake" /\ peer[p] = "sent"
    /\ session[p] = "live" /\ sessNetc[p]
    /\ peer' = [peer EXCEPT ![p] = "done"]
    /\ tls' = [tls EXCEPT ![p] = "secure"]
    /\ authed' = [authed EXCEPT ![p] = TRUE]
    /\ table' = TableAfterInsert(p)
    /\ UNCHANGED <<mac, side, session, sessNetc, netc, hasSession, notify, threadVars,
                   listed, broken>>

\* the handshake ends before p2p_on_connect has set session->netc, or the session
\* is gone
OnSecureUndefined(p) ==
    /\ listed[p] /\ tls[p] = "handshake" /\ peer[p] = "sent"
    /\ session[p] = "live" /\ ~sessNetc[p]
    /\ Crash

\* on_disconnect of udt.cpp, or net_on_input after a failed handshake
Lost(p) ==
    /\ Defined
    /\ listed[p] /\ netc[p] = "live" /\ broken[p]
    /\ Disconnected(p)
    /\ UNCHANGED <<mac, side, authed, sessNetc, hasSession, tls, threadVars, broken, peer>>

\* net_on_input or net_on_disconnect of a socket that SecureFailed left behind: the
\* peer leads to freed memory
LoopUsesFreed(p) ==
    /\ listed[p] /\ netc[p] = "freed" /\ (peer[p] = "sent" \/ broken[p])
    /\ Crash

\* A send over a broken connection frees session and connection while the caller
\* goes on to use them: a frame of tunnel_in, the client's hello, or a part of the
\* handshake that answers the other agent's.
SendUndefined(p) ==
    /\ broken[p]
    /\ \/ Found(p) = p
       \/ thread[p] = "met" /\ netc[p] = "live" /\ side[p] = "client"
       \/ listed[p] /\ tls[p] = "handshake" /\ peer[p] = "sent"
    /\ Crash

LoopStep(p) ==
    HandshakeLost(p) \/ OnSecure(p) \/ OnSecureUndefined(p) \/ Lost(p) \/ LoopUsesFreed(p)

-----------------------------------------------------------------------------
(* The other agent and the network *)

\* The other agent sends its part of the handshake: a server only after our hello
PeerSends(p) ==
    /\ Defined
    /\ listed[p] /\ ~broken[p] /\ peer[p] = "idle"
    /\ side[p] = "client" => tls[p] = "handshake"
    /\ peer' = [peer EXCEPT ![p] = "sent"]
    /\ UNCHANGED <<sessionVars, netcVars, threadVars, listed, broken, table>>

Break(p) ==
    /\ Defined
    /\ listed[p] /\ ~broken[p]
    /\ broken' = [broken EXCEPT ![p] = TRUE]
    /\ UNCHANGED <<sessionVars, netcVars, threadVars, listed, peer, table>>

-----------------------------------------------------------------------------
Next == \E p \in Attempt :
    \/ OpP2pRequest(p) \/ ThreadStep(p) \/ LoopStep(p) \/ SendUndefined(p)
    \/ PeerSends(p) \/ Break(p)

Spec == Init /\ [][Next]_vars

-----------------------------------------------------------------------------
(* Properties *)

\* tunnel_in takes the session that the table holds for the destination and sends
\* on session->netc: a session in the table is not freed, is authenticated, has
\* the address it is filed under, and its connection is live.
TableLive ==
    \A m \in Mac : LET p == table[m] IN p # None =>
        /\ session[p] = "live" /\ authed[p] /\ sessNetc[p] /\ mac[p] = m
        /\ netc[p] = "live"

\* Every callback follows netc->ext_ptr: a live connection leads to a session that
\* is not freed, although two connections to one address share a table entry.
ConnectionHasSession ==
    \A p \in Attempt : netc[p] = "live" /\ hasSession[p] => session[p] = "live"

\* A session is leaked in one case only, which net_p2p_on_connect is responsible
\* for: TLS could not be started.  Otherwise it is freed with its connection,
\* whichever thread frees that and whatever the table holds for its address; and
\* the table never leads to a session whose connection is gone.
NothingLeaks ==
    \A p \in Attempt : netc[p] = "freed"
        => (session[p] = "freed" \/ tls[p] = "failed") /\ \A m \in Mac : table[m] # p

\* An address moves to another connection only after the one that had it was
\* lost: a second request for the same agent does not take it away.
AddressKept ==
    [][\A m \in Mac : table[m] # None /\ table'[m] # table[m]
            => netc'[table[m]] = "freed" /\ session'[table[m]] = "freed"]_vars
=============================================================================
