---------------------------- MODULE NetbusProps ----------------------------
(***************************************************************************)
(* What a connection guarantees.                                           *)
(***************************************************************************)
EXTENDS Netbus

(* The BIOs or buf_enc hold something. *)
Holds(c) == c.bio # <<>> \/ c.out # <<>> \/ c.enc # <<>>

(* Nothing is left behind.  When the stream is empty there is nothing in a  *)
(* BIO, in the TLS object or in buf_enc that waits for other input to be    *)
(* noticed: no flight, no message, and every message sent was delivered     *)
(* (SSL_peek after on_secure, "catch server renegotiation", net_send_msg    *)
(* on a connection that is not secure or in the middle of a handshake).     *)
(* Not so between two agents one of which dropped a piece of the hello.     *)
NothingStuck ==
  ~undef /\ ~dropped /\ up /\ (\A e \in End : netc[e].life = "live" /\ wire[e] = <<>>) =>
    \A e \in End : ~Holds(netc[e]) /\ got[Other(e)] = sent[e]

(* Under the anonymous keys there are the messages that lead to the second *)
(* handshake, and those of a provisioning, the passport with its private    *)
(* key among them; whatever the switch or the agent sends after them waits  *)
(* for certificates (on_secure, authRequest, net_step_up, provisioning).    *)
Anonymous == {"provRequest", "provResponse", "auth", "secureStepUp"}
UnderCertificates ==
  kind # "p2p" =>
    \A e \in End : \A unit \in Range(wire[e] \o netc[e].bio) : \A i \in DOMAIN unit.msgs :
      unit.keys = 1 <=> unit.msgs[i].op \in Anonymous

(* The messages are handed over in order, once, and to live connections:    *)
(* whatever the stream was cut into and wherever it broke, netbus is the    *)
(* channel that its users take it for.                                      *)
TheChannel ==
  INSTANCE Channel WITH open <- {e \in End : netc[e].life = "live"}
ImplementsChannel == TheChannel!ChannelSpec

(* A connection that is made is secured, twice where the switch asks for it, *)
(* and both sessions are authenticated, unless the connection is lost, the  *)
(* session purged, the controller asked for a passport that it has not sent *)
(* yet, or the hello of an agent dropped by the other                       *)
(* (net_on_input, on_secure, authRequest, provisioning).                    *)
Lost == ~up \/ undef
Waiting == netc["server"].life = "live" /\ Tracked
EventuallyAuthed ==
  netc["client"].life = "live" /\ ~Waiting ~>
    \/ Lost \/ Waiting \/ dropped
    \/ \A e \in End : netc[e].session = "AUTHED"
    \/ netc["server"].session = "PURGE"
=============================================================================
