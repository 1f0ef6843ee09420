-------------------------------- MODULE Wire --------------------------------
(***************************************************************************)
(* A message from the interface of one side to the interface of the other. *)
(* The sender builds messages with the setters, in any order, and encodes  *)
(* them one after the other into the stream; the receiver is handed the    *)
(* stream in pieces, cut anywhere, and keeps in buf_in the octets that the *)
(* decoder did not use.  The two share nothing but the stream, so a stream *)
(* is built before any of it is handed over.                               *)
(*                                                                         *)
(* A piece is written at buf_in_data_size and the decoder reads from       *)
(* buf_in_offset on (netbus.c).  Unless the two agree the decoder is given *)
(* octets that are not the next ones of the stream, or whatever lies       *)
(* behind them in memory: that sets misread, and what the decoder makes of *)
(* them is not followed.                                                   *)
(***************************************************************************)
EXTENDS Dnds

CONSTANTS
  Plan,        \* the messages that may be sent, by name: [type, start, calls]
  Follower,    \* the plans of which a message may follow another one
  Piece,       \* the lengths of the pieces the stream is handed over in
  MaxCalls     \* how many of a plan's calls are made

VARIABLES
  building,    \* the message in hand: the name of its plan, the calls made
  sent,        \* the messages encoded, in order, each with its octets
  octets,      \* the stream: what was encoded and is not handed over yet
  buf_in,      \* the receiver's buffer, up to the last octet not used
  buf_in_offset, buf_in_data_size,
  misread,     \* the decoder was given other octets than the stream's
  msg_dec,     \* the message being decoded, <<>> when there is none
  got,         \* the messages decoded
  code         \* what the decoder answered last

buffer  == <<buf_in, buf_in_offset, buf_in_data_size, misread>>
decoder == <<msg_dec, got, code>>
vars == <<building, sent, octets, buffer, decoder>>

Idle == [plan |-> <<>>, msg |-> DNDSMessage_new, made |-> {}]

Init ==
  /\ building = Idle
  /\ sent = <<>> /\ octets = <<>> /\ msg_dec = <<>> /\ got = <<>> /\ code = RC_OK
  /\ buf_in = <<>> /\ buf_in_offset = 0 /\ buf_in_data_size = 0 /\ misread = FALSE

Begin(plan) ==
  /\ building = Idle
  /\ sent = <<>> \/ (Len(sent) = 1 /\ plan \in Follower)
  /\ code = RC_OK /\ got = <<>>
  /\ building' = [plan |-> plan, msg |-> Plan[plan].start, made |-> {}]
  /\ UNCHANGED <<sent, octets, buffer, decoder>>

(* One call of the interface: a setter, or an object added to a list. *)
Done(msg, call) ==
  IF call.add THEN add_object(msg, call.f, call.x) ELSE set(msg, call.f, call.x)

Call ==
  LET Make(calls) ==
        \E i \in DOMAIN calls \ building.made :
          building' = [building EXCEPT !.msg = Done(@, calls[i]).val, !.made = @ \cup {i}]
  IN  /\ building # Idle /\ Cardinality(building.made) < MaxCalls
      /\ Make(Plan[building.plan].calls)
      /\ UNCHANGED <<sent, octets, buffer, decoder>>

(* der_encode of a message of the type the sender knows. *)
Encoded(m) == der_encode(Plan[m.plan].type, m.msg, 0, 0)

Post ==
  /\ building # Idle
  /\ \E body \in Range(Encoded(building)) :
       /\ octets' = octets \o body
       /\ sent' = Append(sent, building @@ [octets |-> body])
  /\ building' = Idle
  /\ UNCHANGED <<buffer, decoder>>

Stale == -1    \* in the place of an octet that was used before, or never written

(* What the decoder has before it: size octets from buf_in_offset on. *)
Window(mem, size) ==
  [i \in 1..size |-> IF buf_in_offset + i =< Len(mem) THEN mem[buf_in_offset + i]
                     ELSE Stale]

left == Window(buf_in, buf_in_data_size)

(* serialize_buf_in: the piece is written where buf_in_data_size says. *)
Written(piece) ==
  Upto(buf_in, buf_in_data_size) \o piece \o From(buf_in, buf_in_data_size + Len(piece))

(* The decoder is called while messages come out; r is what it answered on  *)
(* b.                                                                       *)
Decoded_Once(b, r, out) ==
  LET done == r.code = RC_OK
  IN  [code |-> r.code, left |-> From(b, r.used), dec |-> IF done THEN <<>> ELSE <<r.st>>,
       out |-> IF done THEN Append(out, r.st) ELSE out]

RECURSIVE Decoded(_, _, _)
Decoded(b, r, out) ==
  LET after == From(b, r.used)
      stop(dec, msgs) == [code |-> r.code, left |-> after, dec |-> dec, out |-> msgs]
  IN  IF r.code # RC_OK THEN stop(<<r.st>>, out)
      ELSE IF after = <<>> THEN stop(<<>>, Append(out, r.st))
      ELSE Decoded(after, ber_decode(DNDSMessage_t, <<>>, after, 0), Append(out, r.st))

(* net_decode_msg: what the decoder used is skipped, and the start of the   *)
(* data goes back to 0 only when nothing is left.                           *)
HandOver(mem, b) ==
  \E r \in {Decoded(b, ber_decode(DNDSMessage_t, msg_dec, b, 0), got)} :
     /\ msg_dec' = r.dec /\ got' = r.out /\ code' = r.code
     /\ buf_in_data_size' = IF r.code = RC_FAIL THEN 0 ELSE Len(r.left)
     /\ buf_in_offset' = IF r.code = RC_FAIL \/ r.left = <<>> THEN 0
                         ELSE buf_in_offset + Len(b) - Len(r.left)
     /\ buf_in' = Upto(mem, buf_in_offset' + buf_in_data_size')
     /\ UNCHANGED misread

(* Other octets than those left over and the piece: not followed. *)
Misread(mem, size) ==
  /\ misread' = TRUE /\ buf_in' = mem /\ buf_in_data_size' = size
  /\ UNCHANGED <<buf_in_offset, decoder>>

Receive(n) ==
  /\ building = Idle /\ n =< Len(octets) /\ code # RC_FAIL /\ ~misread
  /\ LET piece == Upto(octets, n)
         size  == buf_in_data_size + n
         mem   == Written(piece)
         ahead == Window(mem, size)
     IN  IF ahead = left \o piece THEN HandOver(mem, ahead) ELSE Misread(mem, size)
  /\ octets' = From(octets, n)
  /\ UNCHANGED <<building, sent>>

Next ==
  \/ \E plan \in DOMAIN Plan : Begin(plan)
  \/ Call
  \/ Post
  \/ \E n \in Piece : Receive(n)

Spec == Init /\ [][Next]_vars
=============================================================================
