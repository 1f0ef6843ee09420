----------------------------- MODULE WireProps -----------------------------
(***************************************************************************)
(* What the protocol library promises of a message: what the getters read  *)
(* on one side is what the setters wrote on the other.                     *)
(***************************************************************************)
EXTENDS Wire

-----------------------------------------------------------------------------
(* What the program can read of an object and of a message. *)

ObjectFields ==
  [context |-> <<Context_id, Context_clientId, Context_description, Context_network,
                 Context_netmask, Context_serverCert, Context_serverPrivkey,
                 Context_trustedCert>>,
   node |-> <<Node_contextId, Node_contextName, Node_description, Node_uuid,
              Node_provCode, Node_certificate, Node_certificateKey, Node_trustedCert,
              Node_ipAddress, Node_status>>,
   client |-> <<Client_id, Client_password, Client_apikey, Client_email, Client_status>>]

View(object) ==
  LET type == chosen(object, DNDSObject_objectType).val
  IN  [type |-> type,
       fields |-> {<<f.path, get(object, f)>> : f \in Range(ObjectFields[type])}]

RECURSIVE Taken(_, _)
Taken(msg, f) ==
  LET r == take_object(msg, f)
  IN  IF r.code # "DNDS_success" THEN <<>> ELSE <<View(r.val)>> \o Taken(r.msg, f)

Readings(calls, msg) ==
  [i \in DOMAIN calls |->
     LET call == calls[i]
         r    == get(msg, call.f)
     IN  IF call.add THEN <<object_count(msg, call.f), Taken(msg, call.f)>>
         ELSE IF call.f.kind = "object" /\ r.val # <<>> THEN View(r.val)
         ELSE r]

Reading(calls, msg) ==
  <<get(msg, DNDSMessage_channel), chosen(msg, DNDSMessage_pdu), Readings(calls, msg)>>

-----------------------------------------------------------------------------
(* serialize_buf_in writes behind buf_in_data_size octets from the start of  *)
(* the buffer: a piece that arrives while octets are left over behind others *)
(* that were used goes to the wrong place.  Only then is the decoder given   *)
(* other octets than the stream's.                                           *)
Astray == misread /\ buf_in_offset > 0

(* Every getter answers, on a decoded message, what it answers on the       *)
(* message that was sent in its place: the value that was set, or that an   *)
(* optional member is not there, whatever the members before it; and nothing *)
(* a setter can produce is refused.  A message of a newer peer, with a       *)
(* member or an operation this side does not know, reads the same in what it *)
(* does know (der_encode and ber_decode over the tables of the protocol).    *)
(* Of a stream that goes astray this says what came out before.              *)
RoundTrip ==
  LET Same(calls, m1, m2) == Reading(calls, m1) = Reading(calls, m2)
  IN  /\ code # RC_FAIL
      /\ \A i \in DOMAIN got : Same(Plan[sent[i].plan].calls, got[i], sent[i].msg)

(* How the stream was cut leaves no trace, unless it goes astray: the        *)
(* decoder is where one call on all the octets of the current message so far *)
(* would have brought it, the octets left over included (the phases and      *)
(* microphases of constr_*.c and OCTET_STRING.c), and the buffer starts again *)
(* at its beginning as soon as nothing is left over.                         *)
Restartable ==
  LET pending == [i \in 1..(Len(sent) - Len(got)) |-> sent[Len(got) + i].octets]
      Seen(all) == Upto(all, Len(all) - Len(octets))
      Resumes(mine) ==
        LET used == Len(mine) - Len(left)
        IN  /\ left = From(mine, used)
            /\ ber_decode(DNDSMessage_t, <<>>, mine, 0) =
                 Answer(RC_WMORE, used, msg_dec[1])
  IN  building = Idle /\ ~Astray =>
        /\ left = <<>> => buf_in_offset = 0
        /\ msg_dec # <<>> => Resumes(Seen(FlattenSeq(pending)))

(* A message is answered with its last octet, not with the next message:    *)
(* when the whole stream was handed over, and none of it went astray, every *)
(* message is out and nothing is pending.                                   *)
NothingHeldBack ==
  building = Idle /\ octets = <<>> /\ ~Astray =>
    Len(got) = Len(sent) /\ msg_dec = <<>> /\ left = <<>>
=============================================================================
