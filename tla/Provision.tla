------------------------------ MODULE Provision ------------------------------
(***************************************************************************)
(* What nvctrler stores for one network (nvctrler/src/request.c, dao.c,    *)
(* ippool.c): add_network, add_node, del_node and del_network are          *)
(* sequences of statements on the database, none of them in a transaction, *)
(* that hand out the addresses of the network and the serial numbers of    *)
(* its certificates.                                                       *)
(*                                                                         *)
(* nvctrler is one thread and a handler runs to its end, so a handler is   *)
(* one action, with a disjunct for every place a fault can end it at: a    *)
(* crash, or a statement that fails.  Nothing but the database survives a  *)
(* crash, so a crash and a checked failure leave the same state.           *)
(*                                                                         *)
(* A network has the addresses hostmin + 0 .. hostmin + Hosts; an address  *)
(* is represented by its offset, the bit it has in the pool.               *)
(***************************************************************************)
EXTENDS Integers, FiniteSets

CONSTANTS
    Node,       \* uuids: add_node draws a new one every time
    NoRow,      \* the address of a node without a row
    Hosts,      \* ippool->hosts, as ipcalc computes it from the netmask
    MaxFault    \* bound: faults

ASSUME ProvisionAssumption ==
    /\ Hosts \in Nat /\ Hosts % 8 # 0   \* it is 2^k - 3
    /\ NoRow \notin Nat
    /\ MaxFault \in Nat

Bytes == (Hosts + 7) \div 8     \* alloc_bitmap
Bit   == 0 .. 8 * Bytes - 1     \* the bits of the bitmap, the padding included

VARIABLES
    context,    \* the row of the network: "unborn", "live", "deleted"
    pool,       \* context.ippool: the bits that are set
    serial,     \* context.embassy_serial: the next serial number
    ip,         \* node.ipaddress, or NoRow
    cert,       \* the serial number of node.certificate, 0 without a row
    fresh,      \* uuids not drawn yet
    answer,     \* "response" of the last add_node: "success" or "error"
    faults,
    foreign     \* did a client delete the network that is not its owner?

vars == <<context, pool, serial, ip, cert, fresh, answer, faults, foreign>>

Rows == {n \in Node : ip[n] # NoRow}

(* Types.  The padding of the bitmap stays clear, and an address handed out is a
   host's: never the broadcast address, nor past the network, whatever failed
   before (allocate_bit's two bounds). *)
TypeOK ==
    /\ context \in {"unborn", "live", "deleted"}
    /\ pool \subseteq 0 .. Hosts
    /\ serial \in Nat
    /\ ip \in [Node -> (0 .. Hosts) \cup {NoRow}]
    /\ cert \in [Node -> Nat]
    /\ fresh \subseteq Node
    /\ answer \in {"success", "error"}
    /\ faults \in 0 .. MaxFault
    /\ foreign \in BOOLEAN

Init ==
    /\ context = "unborn" /\ pool = {} /\ serial = 0
    /\ ip = [n \in Node |-> NoRow] /\ cert = [n \in Node |-> 0] /\ fresh = Node
    /\ answer = "success" /\ faults = 0 /\ foreign = FALSE

\* dao_add_vnetwork: pki_embassy_new spent serial 0 on the embassy's own certificate
\* and the switch's passport has serial 1
StoreNetwork == context' = "live" /\ pool' = {} /\ serial' = 2

AddNetwork ==
    /\ context = "unborn"
    /\ StoreNetwork
    /\ UNCHANGED <<ip, cert, fresh, answer, faults, foreign>>

Clear == Bit \ pool
Least(S) == CHOOSE b \in S : \A c \in S : b <= c

\* allocate_bit: the first clear bit, unless it is padding.  (Slip: the padding is
\* given out as well.)
Allocates_Padding == Clear # {}
Allocates == Clear # {} /\ Least(Clear) <= Hosts

\* ippool_get_ip
NewIp == Least(Clear)

Fault == faults < MaxFault /\ faults' = faults + 1

\* The certificate of a new node takes the serial number that was stored, and the
\* next one is stored before the node is.  (Slip: it is stored last.)
SerialAfterAdd_Last(done) == IF done = 3 THEN serial + 1 ELSE serial
SerialAfterAdd(done) == IF done >= 1 THEN serial + 1 ELSE serial

\* dao_add_node; dao_update_context_ippool with the new bit.  (Slip: the pool is
\* written back as it was read.)
PoolAfterAdd_AsRead(done) == pool
PoolAfterAdd(done) == IF done = 3 THEN pool \cup {NewIp} ELSE pool

\* What add_node leaves after `done` of its three writes: the serial number, the
\* row, the pool
AddNodeWrites(n, done) ==
    /\ serial' = SerialAfterAdd(done)
    /\ IF done >= 2
       THEN ip' = [ip EXCEPT ![n] = NewIp] /\ cert' = [cert EXCEPT ![n] = serial]
       ELSE UNCHANGED <<ip, cert>>
    /\ pool' = PoolAfterAdd(done)

\* dao_fetch_context_embassy finds the row with the serial number and the pool
EmbassyFound == context = "live"

AddNode(n) ==
    /\ EmbassyFound /\ n \in fresh
    /\ fresh' = fresh \ {n}
    /\ \/ Allocates /\ AddNodeWrites(n, 3) /\ answer' = "success" /\ UNCHANGED faults
       \/ ~Allocates /\ AddNodeWrites(n, 1) /\ answer' = "error" /\ UNCHANGED faults
       \/ \E done \in 0 .. 2 :
             /\ done = 2 => Allocates
             /\ Fault /\ AddNodeWrites(n, done) /\ answer' = "error"
    /\ UNCHANGED <<context, foreign>>

\* free_bit of the address that dao_fetch_node_ip read.  (Slip: the bit is
\* counted from the network's address, one below hostmin.)
Released_OffByOne(n) == pool \ {ip[n] + 1}
Released(n) == pool \ {ip[n]}

Delete(nodes) ==
    /\ ip' = [n \in Node |-> IF n \in nodes THEN NoRow ELSE ip[n]]
    /\ cert' = [n \in Node |-> IF n \in nodes THEN 0 ELSE cert[n]]

\* del_node deletes the row and releases the address.  dao_del_node does not look
\* at the status of its statement, so a row it failed to delete is taken for
\* deleted and its address is released all the same.
DelNode(n) ==
    /\ context = "live" /\ n \in Rows
    /\ \/ Delete({n}) /\ pool' = Released(n) /\ UNCHANGED faults
       \/ Fault /\ Delete({n}) /\ UNCHANGED pool
       \/ Fault /\ UNCHANGED <<ip, cert>> /\ pool' = Released(n)
       \/ Fault /\ UNCHANGED <<ip, cert, pool>>
    /\ UNCHANGED <<context, serial, fresh, answer, foreign>>

\* dao_del_context: the row of the network, if the client owns it
DropNetwork == context' = "deleted"

\* del_network deletes the nodes, then the network; neither status is looked at, and
\* the database refuses to delete a network that still has nodes.  Nothing asks who
\* owns the network: for another client the second statement deletes no row, and the
\* network stays with its pool and without its nodes.
DelNetwork ==
    /\ context = "live"
    /\ \/ Delete(Node) /\ DropNetwork /\ UNCHANGED <<faults, foreign>>
       \/ Delete(Node) /\ foreign' = TRUE /\ UNCHANGED <<context, faults>>
       \/ Fault /\ Delete(Node) /\ UNCHANGED <<context, foreign>>
       \/ Fault /\ UNCHANGED <<ip, cert, context, foreign>>
    /\ UNCHANGED <<pool, serial, fresh, answer>>

Next ==
    \/ AddNetwork \/ DelNetwork
    \/ \E n \in Node : AddNode(n) \/ DelNode(n)

Spec == Init /\ [][Next]_vars
-----------------------------------------------------------------------------
(* Two certificates of the network's authority never have the same serial number,
   whatever fails and wherever: the counter is stored before the node is
   (pki.c:124 "set certificate unique serial number"). *)
SerialUnique ==
    /\ \A n \in Rows : 2 <= cert[n] /\ cert[n] < serial
    /\ \A m, n \in Rows : cert[m] = cert[n] => m = n

(* While nothing failed, the addresses of the nodes are different hosts of the
   network and the pool holds them all, so that none is given twice; and it holds no
   other, unless a client deleted the network that is not its owner (del_network:
   the nodes go, the pool stays). *)
PoolExact ==
    faults = 0 /\ context # "deleted" =>
        /\ {ip[n] : n \in Rows} \subseteq pool
        /\ ~foreign => pool = {ip[n] : n \in Rows}
        /\ \A m, n \in Rows : ip[m] = ip[n] => m = n

(* While nothing failed and only the owner deleted the network, add_node is only
   refused when every address of the network is a node's. *)
RefusedOnlyWhenFull ==
    [][fresh' # fresh /\ answer' = "error" /\ faults' = 0 /\ ~foreign =>
          {ip[n] : n \in Rows} = 0 .. Hosts]_vars

Pool == INSTANCE AddressPool WITH
            Client <- Node, Address <- 0 .. Hosts, None <- NoRow,
            asked <- Node \ fresh, holds <- ip,
            failed <- (faults # 0), leaked <- (faults # 0 \/ foreign)

(* The rows of the database implement the pool of addresses: until the first fault
   add_node gives a new node an address of the network that no node has, and refuses
   it only when there is none or a client that is no owner deleted the network's nodes;
   and a fault gives an address to nobody but the node that is added, and changes none
   but by releasing it (request.c, add_node, del_node, del_network). *)
ImplementsPool == Pool!PoolSpec
=============================================================================
