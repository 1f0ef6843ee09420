----------------------------- MODULE DndsTypes -----------------------------
(***************************************************************************)
(* The type descriptors of the protocol, as asn1c generated them in        *)
(* libnvcore/src/protocol: for each type its kind, its own tags, its       *)
(* members with their tag, tagging mode and how many members from this one *)
(* on may be left out, and the limits of its extension group.              *)
(***************************************************************************)
EXTENDS BerTypes

(* The tables give the members the tags [0], [1], ... of their context:    *)
(* IMPLICIT ones (-1), EXPLICIT ones (+1) when the member is a CHOICE.     *)
(* Member(name, type, optional).                                           *)
Member(name, type, optional) == [name |-> name, type |-> type, optional |-> optional]

Members(list) ==
  [i \in DOMAIN list |->
     [name |-> list[i].name, type |-> list[i].type, optional |-> list[i].optional,
      tag |-> Context(i - 1),
      mode |-> IF list[i].type.kind = "CHOICE" THEN 1 ELSE -1]]

(* Members that are all pointers: each may be left out with those after it. *)
Optional(list) ==
  [i \in DOMAIN list |-> Member(list[i][1], list[i][2], Len(list) - i + 1)]

SEQUENCE(list, ext) ==
  [kind |-> "SEQUENCE", tags |-> <<Universal(16)>>, els |-> Members(list), ext |-> ext]

CHOICE_OF(list, ext) ==
  [kind |-> "CHOICE", tags |-> <<>>, els |-> Members(list), ext |-> <<ext>>]

-----------------------------------------------------------------------------
(* Native numbers and enumerations, the strings, NULL. *)

NativeInteger_t == [kind |-> "INTEGER", tags |-> <<Universal(2)>>, unsigned |-> FALSE]
NativeEnumerated_t == [kind |-> "INTEGER", tags |-> <<Universal(10)>>, unsigned |-> FALSE]

version_t   == [NativeInteger_t EXCEPT !.unsigned = TRUE]
seqNumber_t == [NativeInteger_t EXCEPT !.unsigned = TRUE]
ackNumber_t == [NativeInteger_t EXCEPT !.unsigned = TRUE]
clientId_t  == [NativeInteger_t EXCEPT !.unsigned = TRUE]    \* Client.id
id_t        == [NativeInteger_t EXCEPT !.unsigned = TRUE]    \* Context.id
contextClientId_t == [NativeInteger_t EXCEPT !.unsigned = TRUE]
contextId_t == [NativeInteger_t EXCEPT !.unsigned = TRUE]
port_t      == [NativeInteger_t EXCEPT !.unsigned = TRUE]

(* Enumerations: a number that is not checked against the names. *)
action_t     == NativeEnumerated_t
DNDSResult_t == NativeEnumerated_t
ConnState_t  == NativeEnumerated_t
P2pSide_t    == NativeEnumerated_t
ObjectName_t == NativeEnumerated_t
SearchType_t == NativeEnumerated_t
AuthResponse_t   == DNDSResult_t
AddResponse_t    == DNDSResult_t
DelResponse_t    == DNDSResult_t
ModifyResponse_t == DNDSResult_t

OCTET_STRING_t    == [kind |-> "OCTET_STRING", tags |-> <<Universal(4)>>]
IA5String_t       == [kind |-> "OCTET_STRING", tags |-> <<Universal(22)>>]
PrintableString_t == [kind |-> "OCTET_STRING", tags |-> <<Universal(19)>>]
BIT_STRING_t      == [kind |-> "BIT_STRING",   tags |-> <<Universal(3)>>]
TerminateRequest_t == [kind |-> "NULL", tags |-> <<Universal(5)>>]

-----------------------------------------------------------------------------
(* The directory's objects. *)

Client_t == SEQUENCE(Optional(<<
  <<"id", clientId_t>>, <<"email", IA5String_t>>, <<"password", PrintableString_t>>,
  <<"apikey", PrintableString_t>>, <<"status", NativeInteger_t>> >>), <<4, 6>>)

Context_t == SEQUENCE(Optional(<<
  <<"id", id_t>>, <<"clientId", contextClientId_t>>,
  <<"description", PrintableString_t>>,
  <<"network", OCTET_STRING_t>>, <<"netmask", OCTET_STRING_t>>,
  <<"serverCert", PrintableString_t>>, <<"serverPrivkey", PrintableString_t>>,
  <<"trustedCert", PrintableString_t>> >>), <<7, 9>>)

Node_t == SEQUENCE(Optional(<<
  <<"contextId", contextId_t>>, <<"contextName", PrintableString_t>>,
  <<"description", PrintableString_t>>, <<"uuid", PrintableString_t>>,
  <<"provCode", PrintableString_t>>, <<"certificate", PrintableString_t>>,
  <<"certificateKey", BIT_STRING_t>>, <<"trustedCert", PrintableString_t>>,
  <<"ipAddress", OCTET_STRING_t>>, <<"status", NativeInteger_t>> >>), <<9, 11>>)

DNDSObject_t == CHOICE_OF(<<
  Member("client", Client_t, 0), Member("context", Context_t, 0),
  Member("node", Node_t, 0) >>, 3)

DNDSObjects_t ==
  [kind |-> "SEQUENCE_OF", tags |-> <<Universal(16)>>,
   els |-> << [name |-> "", type |-> DNDSObject_t, optional |-> 0,
               tag |-> -1, mode |-> 0] >>]

AddRequest_t    == DNDSObject_t
DelRequest_t    == DNDSObject_t
ModifyRequest_t == DNDSObject_t

-----------------------------------------------------------------------------
(* Operations between a node and its switch. *)

AuthRequest_t == SEQUENCE(<<Member("certName", IA5String_t, 0)>>, <<0, 2>>)

NetinfoRequest_t == SEQUENCE(<<
  Member("ipLocal", OCTET_STRING_t, 0), Member("macAddr", OCTET_STRING_t, 0) >>, <<1, 3>>)

NetinfoResponse_t == SEQUENCE(<<
  Member("ipAddress", OCTET_STRING_t, 0), Member("netmask", OCTET_STRING_t, 0),
  Member("result", DNDSResult_t, 0) >>, <<2, 4>>)

ProvRequest_t == SEQUENCE(Optional(<< <<"provCode", PrintableString_t>> >>), <<0, 2>>)

ProvResponse_t == SEQUENCE(Optional(<<
  <<"certificate", PrintableString_t>>, <<"certificateKey", PrintableString_t>>,
  <<"trustedCert", PrintableString_t>>, <<"ipAddress", OCTET_STRING_t>> >>), <<3, 5>>)

P2pRequest_t == SEQUENCE(<<
  Member("macAddrDst", OCTET_STRING_t, 0), Member("ipAddrDst", OCTET_STRING_t, 0),
  Member("port", port_t, 0), Member("side", P2pSide_t, 0) >>, <<3, 5>>)

P2pResponse_t == SEQUENCE(<<
  Member("macAddrDst", OCTET_STRING_t, 0), Member("result", DNDSResult_t, 0) >>, <<1, 3>>)

dnop_t == CHOICE_OF(<<
  Member("authRequest", AuthRequest_t, 0), Member("authResponse", AuthResponse_t, 0),
  Member("netinfoRequest", NetinfoRequest_t, 0),
  Member("netinfoResponse", NetinfoResponse_t, 0),
  Member("provRequest", ProvRequest_t, 0), Member("provResponse", ProvResponse_t, 0),
  Member("p2pRequest", P2pRequest_t, 0), Member("p2pResponse", P2pResponse_t, 0),
  Member("terminateRequest", TerminateRequest_t, 0) >>, 9)

DNMessage_t == SEQUENCE(<<
  Member("seqNumber", seqNumber_t, 0), Member("ackNumber", ackNumber_t, 0),
  Member("dnop", dnop_t, 0) >>, <<-1, -1>>)

-----------------------------------------------------------------------------
(* Operations on the directory, between a client or a switch and the        *)
(* controller. *)

NodeConnInfo_t == SEQUENCE(<<
  Member("certName", IA5String_t, 0), Member("ipAddr", OCTET_STRING_t, 0),
  Member("state", ConnState_t, 0) >>, <<2, 4>>)

SearchRequest_t == SEQUENCE(<<
  Member("searchtype", SearchType_t, 0), Member("objectname", ObjectName_t, 3),
  Member("object", DNDSObject_t, 2), Member("objects", DNDSObjects_t, 1) >>, <<3, 5>>)

SearchResponse_t == SEQUENCE(<<
  Member("searchtype", SearchType_t, 0), Member("dndsResult", DNDSResult_t, 0),
  Member("objects", DNDSObjects_t, 0) >>, <<2, 4>>)

dsop_t == CHOICE_OF(<<
  Member("addRequest", AddRequest_t, 0), Member("addResponse", AddResponse_t, 0),
  Member("delRequest", DelRequest_t, 0), Member("delResponse", DelResponse_t, 0),
  Member("modifyRequest", ModifyRequest_t, 0),
  Member("modifyResponse", ModifyResponse_t, 0),
  Member("nodeConnInfo", NodeConnInfo_t, 0), Member("searchRequest", SearchRequest_t, 0),
  Member("searchResponse", SearchResponse_t, 0),
  Member("terminateRequest", TerminateRequest_t, 0) >>, 10)

DSMessage_t == SEQUENCE(<<
  Member("seqNumber", seqNumber_t, 0), Member("ackNumber", ackNumber_t, 0),
  Member("apikey", PrintableString_t, 1), Member("action", action_t, 0),
  Member("dsop", dsop_t, 0) >>, <<-1, -1>>)

-----------------------------------------------------------------------------
(* The message. *)

pdu_t == CHOICE_OF(<<
  Member("dnm", DNMessage_t, 0), Member("dsm", DSMessage_t, 0),
  Member("ethernet", BIT_STRING_t, 0) >>, 3)

DNDSMessage_t == SEQUENCE(<<
  Member("version", version_t, 0), Member("channel", NativeInteger_t, 0),
  Member("pdu", pdu_t, 0) >>, <<-1, -1>>)
=============================================================================
