-------------------------------- MODULE Dnds --------------------------------
(***************************************************************************)
(* The interface of libnvcore/src/dnds.c to a message: constructors,       *)
(* setters and getters.  Every accessor is an entry: the path to its       *)
(* member from the message (or from an object), the alternatives it        *)
(* insists on before it touches it, what it converts, and whether the      *)
(* member may be absent.                                                   *)
(*                                                                         *)
(* set(v, f, x) and get(v, f) are what every pair of accessors does: the   *)
(* return code, then the value as the call leaves it or the answer.        *)
(*                                                                         *)
(* Setters that take a length copy a text of that length; the memory of a  *)
(* value is not modelled, nor are the failures of calloc and the NULL      *)
(* arguments, which are refused before anything is read.                   *)
(***************************************************************************)
EXTENDS DndsTypes

(* A choice a path goes through must be the one that is present: the code   *)
(* would otherwise read or write another member of the union.               *)
Member_of(td, name) ==
  td.els[CHOOSE i \in DOMAIN td.els : td.els[i].name = name].type

RECURSIVE Within(_, _, _), Place(_, _, _, _)

(* What is at the end of a path: <<>> when it is not there. *)
Within(td, p, path) ==
  LET name == Head(path)
      st   == Target(td, p)
      in   == IF td.kind = "CHOICE"
              THEN IF Assert(st.present = name, "another member of the union")
                   THEN st.m ELSE <<>>
              ELSE st.m[name]
  IN  IF path = <<>> THEN p ELSE Within(Member_of(td, name), in, Tail(path))

Place(td, p, path, value) ==
  LET name == Head(path)
      st   == Target(td, p)
  IN  IF path = <<>> THEN value
      ELSE IF td.kind = "CHOICE"
           THEN [st EXCEPT !.m = <<Place(Member_of(td, name), @, Tail(path), value)>>]
      ELSE [st EXCEPT !.m[name] = <<Place(Member_of(td, name), @, Tail(path), value)>>]

-----------------------------------------------------------------------------
(* Conversions.  A number is the octets the C type has; an address is four  *)
(* octets, or <<>> for a text that inet_pton refuses: the member is then    *)
(* allocated, its size still 0.  An address is read where one was written.  *)

String(octets) == [calloc(OCTET_STRING_t) EXCEPT !.buf = <<octets>>]
Wide(octets)   == [i \in 1..(8 - Len(octets)) |-> 0] \o octets

Stored(kind, x) ==
  CASE kind \in {"text", "ip", "mac"} -> String(x)
    [] kind \in {"uint32", "uint8", "enum"} -> Wide(x)
    [] kind = "object" -> x

Read(kind, v) ==
  CASE kind \in {"text", "ip", "mac"} -> IF v.buf = <<>> THEN <<>> ELSE v.buf[1]
    [] kind \in {"uint32", "enum"} -> From(v, 4)
    [] kind = "uint8"  -> From(v, 7)
    [] kind = "object" -> v

(* What a getter answers for a member that nothing was written to. *)
Zero(kind) ==
  CASE kind = "uint8" -> <<0>>
    [] kind \in {"uint32", "enum"} -> <<0, 0, 0, 0>>
    [] OTHER -> <<>>

-----------------------------------------------------------------------------
(* Entries.  type: what the path starts from, a message or an object;       *)
(* needs: the alternatives that are asked for, each with the code that      *)
(* refuses another one; absent: the answer when an optional member is not   *)
(* there.                                                                   *)

Root(f) == IF f.type = "object" THEN DNDSObject_t ELSE DNDSMessage_t

Code(code, val) == [code |-> code, val |-> val]
Need(path, name, code) == [path |-> path, name |-> name, code |-> code]

OfPdu(pdu) == Need(<<"pdu">>, pdu, "DNDS_invalid_pdu")
OfOp(pdu, op) ==
  Need(<<"pdu", pdu, IF pdu = "dnm" THEN "dnop" ELSE "dsop">>, op, "DNDS_invalid_op")

Entry(type, needs, path, kind) ==
  [type |-> type, needs |-> needs, path |-> path, kind |-> kind,
   absent |-> Code("DNDS_success", Zero(kind))]

Pointer(entry) == [entry EXCEPT !.absent = Code("DNDS_value_not_present", <<>>)]

(* A member of an operation, of a DNMessage or a DSMessage, of an object.   *)
OpField(pdu, op, name, kind) ==
  Entry("message", <<OfPdu(pdu), OfOp(pdu, op)>>,
        OfOp(pdu, op).path \o <<op, name>>, kind)

(* An operation that is all one value: a result, or an object. *)
OpValue(pdu, op, kind) ==
  Entry("message", <<OfPdu(pdu), OfOp(pdu, op)>>, OfOp(pdu, op).path \o <<op>>, kind)

PduField(pdu, name, kind) ==
  Entry("message", <<OfPdu(pdu)>>, <<"pdu", pdu, name>>, kind)

ObjectField(type, name, kind) ==
  Pointer(Entry("object", <<Need(<<>>, type, "DNDS_invalid_object_type")>>,
                <<type, name>>, kind))

(* The code of the first of the entry's needs that v does not meet. *)
Refusal(td, v, f) ==
  LET Met(need) ==
        \E st \in Range(Within(td, <<v>>, need.path)) : st.present = need.name
      First(code, need) ==
        IF code # "DNDS_success" \/ Met(need) THEN code ELSE need.code
  IN  FoldLeft(First, "DNDS_success", f.needs)

(* What a call answers: val and the code when it is refused. *)
Unless(refusal, val, answer) ==
  IF refusal = "DNDS_success" THEN answer ELSE Code(refusal, val)

set_in(td, v, f, x) ==
  Unless(Refusal(td, v, f), v,
         Code(IF f.kind = "ip" /\ x = <<>>
              THEN "DNDS_conversion_failed" ELSE "DNDS_success",
              Place(td, <<v>>, f.path, Stored(f.kind, x))))

get_in(td, v, f) ==
  LET Answered(p) ==
        IF p = <<>> THEN f.absent ELSE Code("DNDS_success", Read(f.kind, p[1]))
  IN  Unless(Refusal(td, v, f), <<>>, Answered(Within(td, <<v>>, f.path)))

set(v, f, x) == set_in(Root(f), v, f, x)
get(v, f)    == get_in(Root(f), v, f)

(* An accessor of an object, through the pointer to it that f answers. *)
Inside(f, g) ==
  [g EXCEPT !.type = f.type, !.path = f.path \o @,
            !.needs = f.needs \o
              [i \in DOMAIN @ |-> [@[i] EXCEPT !.path = f.path \o @]]]

(* The alternative that is present: its setter leaves the union as it is.   *)
Choice(type, needs, path) == Entry(type, needs, path, "object")
Union == [kind |-> "CHOICE"]

choose_in(td, v, f, name) ==
  LET Chosen(st) == Place(td, <<v>>, f.path, [st EXCEPT !.present = name])
  IN  Unless(Refusal(td, v, f), v,
             Code("DNDS_success", Chosen(Target(Union, Within(td, <<v>>, f.path)))))

choose(v, f, name) == choose_in(Root(f), v, f, name)

chosen(v, f) ==
  LET present(td) == Target(Union, Within(td, <<v>>, f.path)).present
  IN  Unless(Refusal(Root(f), v, f), "NOTHING", Code("DNDS_success", present(Root(f))))

(* Lists of objects: added at the end, taken from the end. *)
List(td, v, f) == Target(DNDSObjects_t, Within(td, <<v>>, f.path))

add_object_in(td, v, f, object) ==
  Unless(Refusal(td, v, f), v,
         Code("DNDS_success",
              Place(td, <<v>>, f.path, [List(td, v, f) EXCEPT !.list = Append(@, object)])))

add_object(v, f, object) == add_object_in(Root(f), v, f, object)

take_object(v, f) ==
  LET td == Root(f)
      refusal == Refusal(td, v, f)
      Taken(code, msg, val) == [code |-> code, msg |-> msg, val |-> val]
      TakenFrom(of) ==
        IF of.list = <<>> THEN Taken("DNDS_value_not_present", v, <<>>)
        ELSE Taken("DNDS_success",
                   Place(td, <<v>>, f.path, [of EXCEPT !.list = Front(@)]), Last(of.list))
  IN  IF refusal # "DNDS_success" THEN Taken(refusal, v, <<>>)
      ELSE TakenFrom(List(td, v, f))

object_count(v, f) ==
  Unless(Refusal(Root(f), v, f), 0, Code("DNDS_success", Len(List(Root(f), v, f).list)))

-----------------------------------------------------------------------------
(* The message and its two envelopes. *)

DNDSMessage_new == [calloc(DNDSMessage_t) EXCEPT !.m["version"] = <<Long(1)>>]

DNDSMessage_channel  == Entry("message", <<>>, <<"channel">>, "uint8")
DNDSMessage_pdu      == Choice("message", <<>>, <<"pdu">>)
DNDSMessage_ethernet == Entry("message", <<>>, <<"pdu", "ethernet">>, "text")

DNMessage_seqNumber == PduField("dnm", "seqNumber", "uint32")
DNMessage_ackNumber == PduField("dnm", "ackNumber", "uint32")
DNMessage_operation == Choice("message", <<OfPdu("dnm")>>, <<"pdu", "dnm", "dnop">>)

DSMessage_seqNumber == PduField("dsm", "seqNumber", "uint32")
DSMessage_ackNumber == PduField("dsm", "ackNumber", "uint32")
DSMessage_action    == PduField("dsm", "action", "enum")
DSMessage_apikey    == Pointer(PduField("dsm", "apikey", "text"))
DSMessage_operation == Choice("message", <<OfPdu("dsm")>>, <<"pdu", "dsm", "dsop">>)

-----------------------------------------------------------------------------
(* Operations between a node and its switch. *)

AuthRequest_certName      == OpField("dnm", "authRequest", "certName", "text")
AuthResponse_result       == OpValue("dnm", "authResponse", "enum")
NetinfoRequest_ipLocal    == OpField("dnm", "netinfoRequest", "ipLocal", "ip")
NetinfoRequest_macAddr    == OpField("dnm", "netinfoRequest", "macAddr", "mac")
NetinfoResponse_ipAddress == OpField("dnm", "netinfoResponse", "ipAddress", "ip")
NetinfoResponse_netmask   == OpField("dnm", "netinfoResponse", "netmask", "ip")
NetinfoResponse_result    == OpField("dnm", "netinfoResponse", "result", "enum")
P2pRequest_macAddrDst     == OpField("dnm", "p2pRequest", "macAddrDst", "mac")
P2pRequest_ipAddrDst      == OpField("dnm", "p2pRequest", "ipAddrDst", "ip")
P2pRequest_port           == OpField("dnm", "p2pRequest", "port", "uint32")
P2pRequest_get_port(v)    == get(v, [P2pRequest_port EXCEPT !.needs = <<>>])
P2pRequest_side           == OpField("dnm", "p2pRequest", "side", "enum")
P2pResponse_macAddrDst    == OpField("dnm", "p2pResponse", "macAddrDst", "mac")
P2pResponse_result        == OpField("dnm", "p2pResponse", "result", "enum")

(* These look at the operation only, whatever the PDU is. *)
ProvField(op, name, kind) ==
  Pointer([OpField("dnm", op, name, kind) EXCEPT !.needs = <<OfOp("dnm", op)>>])

ProvRequest_provCode        == ProvField("provRequest", "provCode", "text")
ProvResponse_certificate    == ProvField("provResponse", "certificate", "text")
ProvResponse_certificateKey == ProvField("provResponse", "certificateKey", "text")
ProvResponse_trustedCert    == ProvField("provResponse", "trustedCert", "text")
ProvResponse_ipAddress      == ProvField("provResponse", "ipAddress", "ip")

-----------------------------------------------------------------------------
(* Operations on the directory. *)

NodeConnInfo_certName == OpField("dsm", "nodeConnInfo", "certName", "text")
NodeConnInfo_ipAddr   == OpField("dsm", "nodeConnInfo", "ipAddr", "ip")
NodeConnInfo_state    == OpField("dsm", "nodeConnInfo", "state", "enum")

AddRequest_object     == OpValue("dsm", "addRequest", "object")
AddResponse_result    == OpValue("dsm", "addResponse", "enum")
DelRequest_object     == OpValue("dsm", "delRequest", "object")
DelResponse_result    == OpValue("dsm", "delResponse", "enum")
ModifyRequest_object  == OpValue("dsm", "modifyRequest", "object")
ModifyResponse_result == OpValue("dsm", "modifyResponse", "enum")

SearchRequest_searchType  == OpField("dsm", "searchRequest", "searchtype", "enum")
SearchRequest_objectName  == OpField("dsm", "searchRequest", "objectname", "enum")
SearchRequest_object      == OpField("dsm", "searchRequest", "object", "object")
SearchRequest_objects     == OpField("dsm", "searchRequest", "objects", "object")
SearchResponse_searchType == OpField("dsm", "searchResponse", "searchtype", "enum")
SearchResponse_result     == OpField("dsm", "searchResponse", "dndsResult", "enum")
SearchResponse_objects    == OpField("dsm", "searchResponse", "objects", "object")

-----------------------------------------------------------------------------
(* Objects. *)

DNDSObject_new  == calloc(DNDSObject_t)
DNDSObject_objectType == Choice("object", <<>>, <<>>)

Context_id            == ObjectField("context", "id", "uint32")
Context_clientId      == ObjectField("context", "clientId", "uint32")
Context_set_clientId(v, x) ==
  LET r == set(v, Context_clientId, x)
  IN  IF r.code = "DNDS_invalid_object_type"
      THEN [r EXCEPT !.code = "DNDS_alloc_failed"] ELSE r
Context_description   == ObjectField("context", "description", "text")
Context_network       == ObjectField("context", "network", "ip")
Context_netmask       == ObjectField("context", "netmask", "ip")
Context_serverCert    == ObjectField("context", "serverCert", "text")
Context_serverPrivkey == ObjectField("context", "serverPrivkey", "text")
Context_trustedCert   == ObjectField("context", "trustedCert", "text")

Node_contextId      == ObjectField("node", "contextId", "uint32")
Node_contextName    == ObjectField("node", "contextName", "text")
Node_description    == ObjectField("node", "description", "text")
Node_uuid           == ObjectField("node", "uuid", "text")
Node_provCode       == ObjectField("node", "provCode", "text")
Node_certificate    == ObjectField("node", "certificate", "text")
Node_certificateKey == ObjectField("node", "certificateKey", "text")
Node_trustedCert    == ObjectField("node", "trustedCert", "text")
Node_ipAddress      == ObjectField("node", "ipAddress", "ip")
Node_status         == ObjectField("node", "status", "uint8")

Client_id       == ObjectField("client", "id", "uint32")
Client_password == ObjectField("client", "password", "text")
Client_apikey   == ObjectField("client", "apikey", "text")
Client_email    == ObjectField("client", "email", "text")
Client_status   == ObjectField("client", "status", "uint8")
=============================================================================
