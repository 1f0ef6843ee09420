------------------------------- MODULE MCWire -------------------------------
(* The messages of the program, and the values the setters are given.       *)
EXTENDS WireProps

Text(n)   == [i \in 1..n |-> 64 + (i % 26)]
Address   == <<10, 0, 255, 129>>
Mac       == <<2, 0, 128, 255, 1, 0>>
Highest   == <<255, 255, 255, 255>>    \* a uint32_t whose DER form has five octets
Sample(f) ==
  CASE f.kind = "text"   -> Text(2)
    [] f.kind = "ip"     -> Address
    [] f.kind = "mac"    -> Mac
    [] f.kind = "uint32" -> Highest
    [] f.kind = "uint8"  -> <<200>>
    [] f.kind = "enum"   -> <<0, 0, 0, 3>>

Set(f, x) == [add |-> FALSE, f |-> f, x |-> x]
Add(f, x) == [add |-> TRUE, f |-> f, x |-> x]
Sets(fields) == [i \in DOMAIN fields |-> Set(fields[i], Sample(fields[i]))]

(* A message with its PDU, and its operation, chosen. *)
Start(pdu, op) ==
  LET m == choose(DNDSMessage_new, DNDSMessage_pdu, pdu).val
      f == IF pdu = "dnm" THEN DNMessage_operation ELSE DSMessage_operation
  IN  IF op = "" THEN m ELSE choose(m, f, op).val

(* An object that is added to a list. *)
Object(type, calls) ==
  FoldLeft(LAMBDA o, c : set(o, c.f, c.x).val,
           choose(DNDSObject_new, DNDSObject_objectType, type).val, calls)

OneNode   == Object("node", <<Set(Node_certificateKey, Text(1)), Set(Node_status, <<1>>)>>)
OneClient == Object("client", <<>>)
Searched  == Object("context", <<Set(Context_id, <<0, 0, 0, 128>>)>>)

-----------------------------------------------------------------------------
(* Every message of the program: its PDU, its operation and the calls. *)

Message(pdu, op, calls) == [pdu |-> pdu, op |-> op, calls |-> calls]

Messages == {
  Message("ethernet", "",
    <<Set(DNDSMessage_ethernet, Text(130)), Set(DNDSMessage_channel, <<128>>)>>),
  Message("dnm", "terminateRequest", <<>>),
  Message("dnm", "authRequest",
    Sets(<<DNMessage_seqNumber, DNMessage_ackNumber, AuthRequest_certName>>)),
  Message("dnm", "authResponse", Sets(<<AuthResponse_result>>)),
  Message("dnm", "netinfoRequest", Sets(<<NetinfoRequest_ipLocal, NetinfoRequest_macAddr>>)),
  Message("dnm", "netinfoResponse",
    Sets(<<NetinfoResponse_ipAddress, NetinfoResponse_netmask, NetinfoResponse_result>>)),
  Message("dnm", "provRequest", Sets(<<ProvRequest_provCode>>)),
  Message("dnm", "provResponse",
    Sets(<<ProvResponse_certificate, ProvResponse_certificateKey,
           ProvResponse_trustedCert, ProvResponse_ipAddress>>)),
  Message("dnm", "p2pRequest",
    Sets(<<P2pRequest_macAddrDst, P2pRequest_ipAddrDst, P2pRequest_port, P2pRequest_side>>)),
  Message("dnm", "p2pResponse", Sets(<<P2pResponse_macAddrDst, P2pResponse_result>>)),
  Message("dsm", "terminateRequest",
    Sets(<<DSMessage_seqNumber, DSMessage_ackNumber, DSMessage_action, DSMessage_apikey>>)),
  Message("dsm", "nodeConnInfo",
    Sets(<<NodeConnInfo_certName, NodeConnInfo_ipAddr, NodeConnInfo_state>>)),
  Message("dsm", "addResponse", Sets(<<AddResponse_result>>)),
  Message("dsm", "delResponse", Sets(<<DelResponse_result>>)),
  Message("dsm", "modifyResponse", Sets(<<ModifyResponse_result>>)),
  Message("dsm", "searchRequest",
    Sets(<<SearchRequest_searchType, SearchRequest_objectName>>) \o
      <<Set(SearchRequest_object, Searched), Add(SearchRequest_objects, OneNode)>>),
  Message("dsm", "searchResponse",
    Sets(<<SearchResponse_searchType, SearchResponse_result>>) \o
      <<Add(SearchResponse_objects, OneNode), Add(SearchResponse_objects, OneClient)>>)
}

Ours(msg) ==
  [name |-> <<msg.pdu, msg.op>>, type |-> DNDSMessage_t, start |-> Start(msg.pdu, msg.op),
   calls |-> msg.calls]

(* The requests of the directory's clients: an object of each type, reached *)
(* through the request's pointer to it.                                     *)
Requests == {
  [op |-> "addRequest",    object |-> AddRequest_object,    type |-> "node"],
  [op |-> "delRequest",    object |-> DelRequest_object,    type |-> "client"],
  [op |-> "modifyRequest", object |-> ModifyRequest_object, type |-> "context"] }

Request(r) ==
  LET Field(f) == Set(Inside(r.object, f), Sample(f))
      Calls(fields) == [i \in DOMAIN fields |-> Field(fields[i])]
  IN  [name |-> <<"dsm", r.op>>, type |-> DNDSMessage_t,
       start |-> choose(Start("dsm", r.op), r.object, r.type).val,
       calls |-> Calls(ObjectFields[r.type])]

-----------------------------------------------------------------------------
(* A peer of a later version: one more member in a response, one more       *)
(* operation.                                                               *)

Extra(n) == [name |-> "extra", type |-> NativeInteger_t, optional |-> 0,
             tag |-> Context(n), mode |-> -1]
WithDnop(dnop) == [DNDSMessage_t EXCEPT !.els[3].type.els[1].type.els[3].type = dnop]
MoreMembers(dnop) ==
  [dnop EXCEPT !.els[4].type.els = Append(@, Extra(3))]
MoreOperations(dnop) == [dnop EXCEPT !.els = Append(@, Extra(9))]

NewMember ==
  LET response == [calloc(NetinfoResponse_t) EXCEPT !.m = @ @@ ("extra" :> <<Long(-2)>>)]
  IN  [name |-> <<"dnm", "newMember">>, type |-> WithDnop(MoreMembers(dnop_t)),
       start |-> Place(DNDSMessage_t, <<Start("dnm", "netinfoResponse")>>,
                       <<"pdu", "dnm", "dnop", "netinfoResponse">>, response),
       calls |-> Sets(<<NetinfoResponse_ipAddress, NetinfoResponse_result>>)]

NewOperation ==
  LET dnop == [calloc(Union) EXCEPT !.present = "extra", !.m = <<Long(300)>>]
  IN  [name |-> <<"dnm", "newOperation">>, type |-> WithDnop(MoreOperations(dnop_t)),
       start |-> Place(DNDSMessage_t, <<Start("dnm", "terminateRequest")>>,
                       <<"pdu", "dnm", "dnop">>, dnop),
       calls |-> Sets(<<DNMessage_seqNumber, DNMessage_ackNumber>>)]

-----------------------------------------------------------------------------
Named(plans) == [name \in {plan.name : plan \in plans} |->
                   CHOOSE plan \in plans : plan.name = name]

MCPlan == Named({Ours(msg) : msg \in Messages} \cup {Request(r) : r \in Requests}
                  \cup {NewMember, NewOperation})
MCFollower == {<<"dnm", "terminateRequest">>}
=============================================================================
