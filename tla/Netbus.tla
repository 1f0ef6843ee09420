------------------------------- MODULE Netbus -------------------------------
(***************************************************************************)
(* One connection of libnvcore/src/netbus.c, both ends of it: the stream   *)
(* of the transport (udt.cpp), cut anywhere, the TLS object that is fed by *)
(* hand through a pair of BIOs (crypto.c), the buffers of netbus.c and the *)
(* handlers of the two programs, as far as they send, authenticate and     *)
(* disconnect: an agent and its switch, which step up from anonymous keys  *)
(* to certificates by a second handshake, an agent that is provisioned by  *)
(* its switch first, or two agents, each of which registers its socket     *)
(* with the loop before it starts TLS on it.                               *)
(*                                                                         *)
(* The stream is a sequence of units; a record, a flight of the handshake  *)
(* or messages under its keys, is two of them, so that any record may      *)
(* arrive in two pieces and any two records in one.  The flights of TLS    *)
(* are numbered: 1 to 4 make the first handshake; 5, the server's          *)
(* HelloRequest, to 9 make the second one.                                 *)
(*                                                                         *)
(* Assumed: certificates are good, a message fits in one record, and a     *)
(* BIO (17 KB) holds what one recv (5000 octets) returns; TLS can be       *)
(* started (module P2P follows what happens when it cannot).               *)
(***************************************************************************)
EXTENDS Integers, Sequences, SequencesExt, FiniteSetsExt

CONSTANTS
  Kinds,      \* the connections to study: "switch", "prov", "p2p"
  RecvSize,   \* units that one recv returns at most
  MaxFrame    \* bound: frames each end sends

ASSUME NetbusAssumption == Kinds \subseteq {"switch", "prov", "p2p"} /\ RecvSize \in Nat

End == {"client", "server"}
Other(e) == CHOOSE f \in End : f # e

VARIABLES
  kind,
  netc,   \* the connection at each end, see Fresh
  wire,   \* the units on their way to each end, or received and not read
  up,     \* the transport connects the two
  sent,   \* what each end gave net_send_msg, in order
  got,    \* what each end's on_input was given, in order
  dropped,  \* a piece of the stream was read before TLS was started on it
  undef   \* freed memory was used: nothing is said from there on

vars == <<kind, netc, wire, up, sent, got, dropped, undef>>

Message(op, n) == [op |-> op, n |-> n]
Control(op) == Message(op, 0)

(* life: "none", "live" or "freed"; status: the krypt status; hs: the last *)
(* flight written or read; bio, out: what the two BIOs hold, units and     *)
(* records; enc: what buf_enc holds; session: the state of the session     *)
(* above.                                                                  *)
Fresh(life) ==
  [life |-> life, status |-> "NOINIT", hs |-> 0, bio |-> <<>>, out |-> <<>>,
   enc |-> <<>>, session |-> "NOT_AUTHED"]

Init ==
  /\ kind \in Kinds
  /\ netc = [e \in End |-> Fresh("none")]
  /\ wire = [e \in End |-> <<>>]
  /\ up = TRUE /\ dropped = FALSE /\ undef = FALSE
  /\ sent = [e \in End |-> <<>>] /\ got = [e \in End |-> <<>>]

-----------------------------------------------------------------------------
(* The TLS object. *)

Flight(k) == [flight |-> k, keys |-> 0, msgs |-> <<>>]
Finished(c) == c.hs \in {4, 9}
Keys(c) == IF c.hs < 9 THEN 1 ELSE 2
Data(c, msgs) == [flight |-> 0, keys |-> Keys(c), msgs |-> msgs]

Units(records) == [i \in 1 .. 2 * Len(records) |-> records[(i + 1) \div 2]]

(* The records that are whole, and the first of them read. *)
Records(c) == [i \in 1 .. (Len(c.bio) \div 2) |-> c.bio[2 * i]]
HasFlight(c) == Records(c) # <<>> /\ Head(Records(c)).flight # 0
ReadRecords(c, n) == [c EXCEPT !.bio = SubSeq(@, 2 * n + 1, Len(@))]

Speaker(k) == IF k \in {1, 3, 6, 8} THEN "client" ELSE "server"

(* The flight that is its turn to write, into the BIO. *)
SSL_write_flight(e, c) ==
  IF ~Finished(c) /\ Speaker(c.hs + 1) = e
  THEN [c EXCEPT !.hs = @ + 1, !.out = Append(@, Flight(c.hs + 1))] ELSE c

(* The peers alternate, so there is one flight to read at most. *)
SSL_do_handshake(e, c) ==
  SSL_write_flight(e,
    IF HasFlight(c) THEN [ReadRecords(c, 1) EXCEPT !.hs = Head(Records(c)).flight] ELSE c)

krypt_secure_connection(c) == [c EXCEPT !.status = "HANDSHAKE"]

(* SSL_read and SSL_peek go through a handshake that they meet on the way; *)
(* they answer a record when no handshake is under way.                    *)
SSL_read_ahead(e, c) == IF HasFlight(c) THEN SSL_do_handshake(e, c) ELSE c
SSL_pending(c) == Finished(c) /\ Records(c) # <<>>

-----------------------------------------------------------------------------
(* What a handler works on: the connection, the records it sends, what it   *)
(* sent and was given so far.                                               *)

Working(e, c) == [c |-> c, tx |-> <<>>, sent |-> sent[e], got |-> got[e]]

net_do_krypt(x) == [x EXCEPT !.tx = @ \o x.c.out, !.c.out = <<>>]

(* krypt_encrypt_buf: SSL_write refuses during a handshake, which loses the *)
(* message; what the BIO holds goes out either way.                         *)
krypt_encrypt_buf_Kept(x) ==
  LET record == IF Finished(x.c) THEN <<Data(x.c, x.c.enc)>> ELSE <<>>
  IN  [x EXCEPT !.tx = @ \o x.c.out \o record, !.c.out = <<>>]
krypt_encrypt_buf(x) ==
  LET record == IF Finished(x.c) THEN <<Data(x.c, x.c.enc)>> ELSE <<>>
  IN  [x EXCEPT !.tx = @ \o x.c.out \o record, !.c.out = <<>>, !.c.enc = <<>>]

(* A message that is encoded before the connection is secure stays encoded. *)
net_send_msg(x, msg) ==
  LET y == [x EXCEPT !.c.enc = Append(@, msg), !.sent = Append(@, msg)]
  IN  IF x.c.status # "SECURE" THEN y ELSE krypt_encrypt_buf(y)

(* The server asks for the second handshake, and waits for it. *)
net_step_up(x) ==
  [x EXCEPT !.c.hs = 5, !.tx = Append(@, Flight(5)), !.c.status = "HANDSHAKE"]

-----------------------------------------------------------------------------
(* The handlers of nvagent and nvswitch. *)

(* An agent that has a code and no passport asks for one first. *)
Opening == IF kind = "prov" THEN "provRequest" ELSE "auth"

on_secure_AtOnce(e, x) ==
  CASE kind = "p2p" -> [x EXCEPT !.c.session = "AUTHED"]
    [] kind # "p2p" /\ e = "client" -> net_send_msg(x, Control(Opening))
    [] kind # "p2p" /\ e = "server" ->
         net_send_msg([x EXCEPT !.c.session = "AUTHED"], Control("success"))
on_secure(e, x) ==
  CASE kind = "p2p" -> [x EXCEPT !.c.session = "AUTHED"]
    [] kind # "p2p" /\ e = "client" -> net_send_msg(x, Control(Opening))
    [] kind # "p2p" /\ e = "server" ->
         IF x.c.session # "WAIT_STEPUP" THEN x
         ELSE net_send_msg([x EXCEPT !.c.session = "AUTHED"], Control("success"))

authRequest(x) ==
  net_step_up([net_send_msg(x, Control("secureStepUp"))
                 EXCEPT !.c.session = "WAIT_STEPUP"])

dispatch(x, msg) ==
  LET y == [x EXCEPT !.got = Append(@, msg)]
  IN  CASE msg.op = "auth"     -> authRequest(y)
        [] msg.op = "success"  -> net_send_msg(y, Control("netinfo"))
        [] msg.op = "netinfo"  -> net_send_msg(y, Control("address"))
        [] msg.op = "address"  -> [y EXCEPT !.c.session = "AUTHED"]
        [] msg.op = "provResponse" -> net_send_msg(y, Control("auth"))
        [] msg.op \in {"provRequest", "secureStepUp", "frame"} -> y

(* net_disconnect, net_on_disconnect: the upper layer is told, all is freed. *)
Freed(x) == [x EXCEPT !.c = Fresh("freed")]

(* The loop over the queue of messages. *)
Dispatched(x, msgs) ==
  LET after[i \in 0 .. Len(msgs)] ==
        IF i = 0 THEN x ELSE dispatch(after[i - 1], msgs[i])
  IN  after[Len(msgs)]

on_input(x, msgs) ==
  IF x.c.session = "PURGE" THEN Freed(x) ELSE Dispatched(x, msgs)

-----------------------------------------------------------------------------
(* net_on_input. *)

(* The loop of a secure connection: SSL_read, and again while SSL_peek says *)
(* there is more.  What a handshake met by SSL_read wrote is fetched when   *)
(* SSL_read has nothing to answer, not when SSL_peek met it.                *)
Decrypted(e, x) ==
  LET c == SSL_read_ahead(e, x.c)
      flights == {i \in DOMAIN Records(c) : Records(c)[i].flight # 0}
      n == IF flights = {} THEN Len(Records(c)) ELSE Min(flights) - 1
      msgs == FlattenSeq([i \in 1 .. n |-> Records(c)[i].msgs])
  IN  IF ~SSL_pending(c) THEN [x |-> net_do_krypt([x EXCEPT !.c = c]), msgs |-> <<>>]
      ELSE [x |-> [x EXCEPT !.c = SSL_read_ahead(e, ReadRecords(c, n))], msgs |-> msgs]

(* krypt_decrypt_buf once more, for what SSL_peek met. *)
CatchRenegotiation_Not(x) == x
CatchRenegotiation(x) == net_do_krypt(x)

Secure(e, x) ==
  LET d == Decrypted(e, x)
      y == CatchRenegotiation(d.x)
  IN  IF d.msgs = <<>> THEN y ELSE on_input(y, d.msgs)

(* Messages may have come with the end of the handshake. *)
Peeked_Not(e, x) == x
Peeked(e, x) == IF SSL_pending(x.c) THEN Secure(e, x) ELSE x

Handshake(e, x) ==
  LET c == SSL_do_handshake(e, x.c)
      y == net_do_krypt([x EXCEPT !.c = c])
  IN  IF ~Finished(c) THEN y
      ELSE Peeked(e, on_secure(e, [y EXCEPT !.c.status = "SECURE"]))

(* What comes before TLS is started is read and goes nowhere. *)
net_on_input(e, units) ==
  LET x == Working(e, [netc[e] EXCEPT !.bio = @ \o units])
  IN  CASE x.c.status = "NOINIT"    -> Working(e, netc[e])
        [] x.c.status = "HANDSHAKE" -> Handshake(e, x)
        [] x.c.status = "SECURE"    -> Secure(e, x)

-----------------------------------------------------------------------------
Defined == ~undef /\ UNCHANGED <<kind, undef>>
Undropped == UNCHANGED dropped

(* What was worked out becomes the state; an end that is freed closes the   *)
(* socket.                                                                  *)
Done(e, x) ==
  /\ netc' = [netc EXCEPT ![e] = x.c]
  /\ sent' = [sent EXCEPT ![e] = x.sent]
  /\ got' = [got EXCEPT ![e] = x.got]
  /\ up' = (up /\ x.c.life = "live")

(* net_client: the socket is connected and the handshake begins. *)
Connect ==
  LET c == krypt_secure_connection(Fresh("live"))
      x == net_do_krypt(Working("client", SSL_do_handshake("client", c)))
  IN  /\ Defined /\ Undropped /\ up /\ kind # "p2p" /\ netc["client"].life = "none"
      /\ Done("client", x)
      /\ wire' = [wire EXCEPT !["server"] = @ \o Units(x.tx)]

(* net_on_connect. *)
Accept ==
  /\ Defined /\ Undropped /\ up /\ kind # "p2p"
  /\ netc["server"].life = "none" /\ netc["client"].life # "none"
  /\ Done("server", Working("server", krypt_secure_connection(Fresh("live"))))
  /\ UNCHANGED wire

(* net_p2p: the thread of each end connects, and the loop knows the socket. *)
Register(e) ==
  /\ Defined /\ Undropped /\ up /\ kind = "p2p" /\ netc[e].life = "none"
  /\ Done(e, Working(e, Fresh("live")))
  /\ UNCHANGED wire

(* The thread goes on: the TLS object is made and the client says hello.    *)
(* On a broken socket that frees the connection under it.                   *)
StartTls(e) ==
  LET c == krypt_secure_connection(netc[e])
      x == net_do_krypt(Working(e, SSL_do_handshake(e, c)))
  IN  /\ ~undef /\ Undropped /\ UNCHANGED kind
      /\ netc[e].life = "live" /\ netc[e].status = "NOINIT"
      /\ undef' = (~up /\ x.tx # <<>>)
      /\ Done(e, IF undef' THEN Freed(x) ELSE x)
      /\ wire' = [wire EXCEPT ![Other(e)] = IF up THEN @ \o Units(x.tx) ELSE @]

(* The loop polls an end that has something to read. *)
Input(e, n) ==
  LET x == net_on_input(e, SubSeq(wire[e], 1, n))
  IN  /\ Defined /\ up /\ netc[e].life = "live" /\ n <= Len(wire[e])
      /\ dropped' = (dropped \/ netc[e].status = "NOINIT")
      /\ Done(e, x)
      /\ wire' = [wire EXCEPT ![e] = SubSeq(@, n + 1, Len(@)),
                              ![Other(e)] = @ \o Units(x.tx)]

(* Behind a piece that was dropped there is no TLS to read.  Whether and    *)
(* when krypt_do_handshake takes that for a failure or for a handshake that *)
(* needs more input is OpenSSL's to say.                                    *)
HandshakeFails(e, n) ==
  /\ Defined /\ Undropped /\ up /\ netc[e].life = "live" /\ n <= Len(wire[e])
  /\ dropped /\ netc[e].status = "HANDSHAKE"
  /\ Done(e, Freed(Working(e, netc[e])))
  /\ wire' = [wire EXCEPT ![e] = SubSeq(@, n + 1, Len(@))]

(* The socket is broken: it is read once more, then reported.  An answer    *)
(* cannot be sent: udtbus_send frees the connection under the handlers; the *)
(* report frees it under the thread that has yet to start TLS.              *)
LastInput(e, n) ==
  LET x == IF n = 0 THEN Working(e, netc[e]) ELSE net_on_input(e, SubSeq(wire[e], 1, n))
  IN  /\ ~undef /\ Undropped /\ ~up /\ netc[e].life = "live" /\ n <= Len(wire[e])
      /\ undef' = (x.tx # <<>> \/ netc[e].status = "NOINIT")
      /\ Done(e, Freed(x))
      /\ UNCHANGED <<kind, wire>>

(* A thread, or the handler of another connection, has a message to send.   *)
(* If the socket is broken that frees the connection, and net_send_msg goes *)
(* on with it.                                                              *)
Send(e, msg) ==
  LET x == net_send_msg(Working(e, netc[e]), msg)
  IN  /\ ~undef /\ Undropped /\ UNCHANGED kind
      /\ undef' = ~up
      /\ Done(e, IF up THEN x ELSE Freed(x))
      /\ wire' = [wire EXCEPT ![Other(e)] = IF up THEN @ \o Units(x.tx) ELSE @]

(* tunnel_in of an agent, forward_ethernet of a switch. *)
Frames(e) == SelectSeq(sent[e], LAMBDA msg : msg.op = "frame")

SendFrame(e) ==
  /\ netc[e].life = "live" /\ netc[e].session = "AUTHED"
  /\ Len(Frames(e)) < MaxFrame
  /\ Send(e, Message("frame", Len(sent[e]) + 1))

(* The control thread of the switch has the controller's answer, and sends  *)
(* it to the session that asked.  It may have been freed meanwhile.         *)
Tracked ==
  /\ Control("provRequest") \in Range(got["server"])
  /\ Control("provResponse") \notin Range(sent["server"])

Provisioning == Tracked /\ netc["server"].life = "live" /\ Send("server", Control("provResponse"))

ProvisioningFreed ==
  /\ Tracked /\ netc["server"].life = "freed"
  /\ ~undef /\ undef' = TRUE
  /\ UNCHANGED <<kind, netc, wire, up, sent, got, dropped>>

(* The control thread of the switch marks the session of a deleted node. *)
Purge ==
  /\ Defined /\ Undropped /\ kind # "p2p" /\ netc["server"].life = "live"
  /\ netc["server"].session \in {"WAIT_STEPUP", "AUTHED"}
  /\ netc' = [netc EXCEPT !["server"].session = "PURGE"]
  /\ UNCHANGED <<wire, up, sent, got>>

(* A peer dies, or the network between the two. *)
Break ==
  /\ Defined /\ Undropped /\ up /\ \E e \in End : netc[e].life # "none"
  /\ up' = FALSE
  /\ UNCHANGED <<netc, wire, sent, got>>

Loop(e) ==
  \E n \in 0 .. RecvSize :
    (n > 0 /\ (Input(e, n) \/ HandshakeFails(e, n))) \/ LastInput(e, n)

Next ==
  \/ Connect \/ Accept \/ Provisioning \/ ProvisioningFreed \/ Purge \/ Break
  \/ \E e \in End : Register(e) \/ StartTls(e) \/ Loop(e) \/ SendFrame(e)

Spec == Init /\ [][Next]_vars

(* The loops of both programs poll for ever, and so does accept; the        *)
(* threads of net_p2p run.                                                  *)
FairSpec ==
  /\ Spec /\ WF_vars(Accept)
  /\ \A e \in End : WF_vars(Register(e)) /\ WF_vars(StartTls(e)) /\ WF_vars(Loop(e))
=============================================================================
