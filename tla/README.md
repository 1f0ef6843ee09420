# A verification development for NetVirt

NetVirt builds virtual Ethernet networks. Agents on the members' machines open a
TLS connection over UDT to a switch (`nvswitch`), which forwards the frames of
their tap interfaces; a controller (`nvctrler`) keeps networks, nodes, addresses
and certificates in PostgreSQL and tells the switch who may connect. This
directory holds TLA+ models of the parts of NetVirt that keep state across
events, the TLC runs that check them on small instances, and TLAPS proofs of the
invariants for every size.

    tlasany M.tla                         parse a module
    tlc -config X.cfg M                   one run (table below)
    tlapm SwitchProofs.tla                the proofs of a module

## 1. The system

| part | source | state | operations |
|---|---|---|---|
| sessions and networks | `nvswitch/src/switch.c`, `request.c`, `session.c`, `vnetwork.c`, `ctable.c`, `libnvcore/src/bitv.c` | per session: state, network, certificate, id, list links, addresses; per network: session list, access, connection and forwarding tables, id bitpool, link states | accept, authRequest, step-up, frame, disconnect; from the controller: add and delete networks and nodes |
| link states | `nvswitch/src/linkst.c` | a triangular matrix that grows by rows | join, disjoin, joined, resize |
| control client | `nvswitch/src/control.c` | the connection, the reconnection timer, `ctrl_initialized`, the pipe between the two threads | fetch the lists, apply pushes, forward statuses, reconnect |
| switch side of nvctrler | `nvctrler/src/ctrler.c`, `request.c` | one `session_info` per connection, `switch_sinfo`, the status column | accept, answer listings, store statuses, push what the API changes, lose the switch, restart |
| provisioning | `nvctrler/src/request.c`, `dao.c`, `ippool.c` | rows of networks and nodes, serial counter, address bitmap | add and delete networks and nodes |
| accounts | `nvctrler/src/request.c`, `dao.c` | rows of clients | create, activate, reset |
| netbus | `libnvcore/src/netbus.c`, `mbuf.c`, `udt.cpp`, `tcp.c` | per connection: buffers of encoded, encrypted and undecoded octets, queues, TLS state, callbacks | input, output, handshake, step-up, disconnect |
| TLS, certificates | `libnvcore/src/crypto.c`, `cert.c`, `nvctrler/src/pki.c` | OpenSSL objects | handshake, issue and read certificates |
| containers | `libnvcore/src/jsw_hlib.c`, `hash.c`, `ftable.c` | hash tables | insert, find, erase |
| protocol | `libnvcore/src/dnds.c`, `protocol/` | messages; per structure being decoded its phase, its member and the octets it still expects | setters and getters, DER encoder, restartable BER decoder, the tables of the types generated from ASN.1 |
| agent | `nvagent/src/agent.c`, `session.c`, `config.c` | one session, the tap interface, files | reconnect, provision, authenticate, tunnel |
| peer to peer | `nvagent/src/p2p.c` | a table of peers by address | rendezvous, tunnel |
| front ends, packaging | `nvagent/src/cli`, `gui`, `android`, `osx`, `win32`, `build_farm` | none of interest | |

**How they interact.** `nvswitch` has two threads. The switch thread runs
`switch_loop`: it polls UDT, and netbus calls `on_connect`, `on_secure`,
`on_input` and `on_disconnect`. The control thread runs libevent on one TLS
connection to `nvctrler`. The two share the trees of networks and everything
below them without a lock, plus one pipe: the switch thread writes the statuses
of nodes to it, and the control thread sends what it reads. `nvctrler` is one
libevent thread with the database behind it. The agent has a network loop and a
thread that reconnects.

**What is hard.** A session takes several messages to join a network, and a
disconnect, a purge or a deletion of the network can fall between any two of
them. Tables point at sessions that are freed and allocated again. The list of
sessions, the ids, the link states and two tables of addresses must agree after
every one of those orders. The control channel breaks, reconnects and fetches
everything again while the API keeps pushing changes; either end may die. Every
provisioning handler is a sequence of database statements outside any
transaction. `PROJECT.json` lists these hazards one by one, at the line where
each bites.

**What correctness means here.** For the switch: a frame never leaves its
network, no table leads to a session that is gone, nobody is admitted but nodes
the controller listed, and a purged session stays purged. For the link states: no
access outside the allocated rows, and the matrix is an undirected graph. For the
control channel: the switch ends up with the database's content, and serves; no
status or pointer outlives the switch's connection. For provisioning: serial
numbers and addresses are unique. For netbus: the programs may take a connection
for a channel that keeps order, loses nothing while it lives, and sends all that follows
the step-up under certificates only. For the protocol: what one end sets the other
end gets, however the stream was cut.

## 2. Modules

| module | models | how its state and actions correspond |
|---|---|---|
| `Switch` | sessions and networks of nvswitch | A session object is in state `"FREE"` while unallocated, so a stale pointer may come to name a new session, as a reused heap address does. `next`, `prev`, `head` are the list links themselves; `ListOf` is what a walk visits. `Connect` (on_connect), `Forward` (forward_ethernet with learning and link states), `Disconnect…` (on_disconnect for each of the three shapes of session) and `Ctl…` for the controller's four messages are whole handlers. authRequest and on_secure test a session's state and write it later; they are split where the control thread may act in between: `AuthRequest` (the name is looked up and filed), `StepUp` (the state is written); `OnSecure` (the certificate presented replaces the name), `LookUp` (the access table), `Admit` (the state is written and the session listed). `busy` and `stage` say where the switch thread is. The certificate presented is any node's of the network, or has no name. |
| `SwitchProps` | the properties of `Switch` | the guarantees, the inductive invariant, and the statements of comments that fail |
| `MCSwitch` | instances | networks of the nodes, symmetry of sessions and addresses |
| `SwitchProofs` | proofs | section 5 |
| `Linkst` | linkst.c | the number of allocated rows, the capacity and the marked cells; the resize rule, including its slack and its limit, is the arithmetic of the code. `timestamp` is written and never read, because linkst_joined has its comparison commented out. |
| `LinkGraph` | what linkst.h promises | an undirected graph; `Linkst` implements it under `graph <- {{c[1], c[2]} : c \in linked}` |
| `LinkstProofs` | proofs | section 5 |
| `Control` | control.c, ctrler.c and the switch's half of request.c | Both processes and the two byte streams of each connection as sequences of lines; a line is a sequence of messages because two statuses read from the pipe at once become one line. `OnConnected`, `OnEof`, `NewPeer`, `OnRead`, `PipeRead` are the callbacks of control.c; `Accept`, `CtlConnected`, `CtlRead`, `CtlEof` those of ctrler.c; `Cut` and `Crash` the environment. A `Fault` is one mishap: a crash, a statement that fails (`ListingFails`, and the disjuncts of `AddNode`, `DelNode` and `DelNetwork` that end halfway or push what was not done), an attempt to connect that fails at once (`NewPeerFails`), or a deletion by a client that is not the owner. `strayNets` and `strayNodes`, what such an operation left different in the database and in what was pushed, and `refused`, where a listing was answered by an error, are history. |
| `ControlProps`, `MCControl`, `ControlProofs` | properties, instances, proofs | section 5 |
| `Provision` | request.c, dao.c, ippool.c for one network | Handlers are atomic (nvctrler is one thread), with a disjunct for every statement after which a fault can end them. A crash and a checked failure leave the same database, so both are one `Fault`. `foreign` is history: a client deleted the network that is not its owner. |
| `AddressPool` | what the addresses of a network promise its nodes | who holds which address; `Provision` implements it under `asked <- Node \ fresh`, `holds <- ip`, `failed <- (faults # 0)`, `leaked <- (faults # 0 \/ foreign)` |
| `ProvisionProofs` | proofs | section 5 |
| `Enroll`, `MCEnroll` | the provisioning round trip: `query_provisioning` and `provisioning` of control.c, `provRequest` of nvswitch's request.c, `provisioning` of nvctrler's | `slot` is `session_tracking_table[0]`, the only entry used because `tracking_id` never moves. The two threads of nvswitch share it without a lock, so each access is a step: `Request` and `WriteQuery` on the switch thread, `ReadSlot`, `ClearSlot` and `Deliver` on the control thread. Streams are as in `Control`. `company` is history: what else was in flight while a session waited. |
| `EnrollProofs` | proofs | section 5 |
| `Agent` | agent.c, and the parts of netbus.c and udt.cpp under it | The thread of `agent_thread` is split at each assignment that the loop thread can see (`agent_connect` sets `ext_ptr` after the connection is registered); the callbacks are the loop thread's actions; the switch is abstract: it answers as nvswitch's `AuthRequest` does. A connection is an object of its own that may break at any point. |
| `AgentProofs` | proofs | section 5 |
| `P2P`, `MCP2P` | p2p.c, `net_p2p` of netbus.c, `udtbus_rendezvous` of udt.cpp | An attempt is the session, the connection, the peer and the thread of one `op_p2p_request`. The thread is split where it shares state with the loop: `Register` (the socket enters the loop's list), `StartTls`, `OnConnect`. `Disconnected` is `p2p_on_disconnect` with the release of the table's entry (`session_itemrel`). `SecureFailed` is `krypt_secure_connection` failing: the connection is freed and nobody is told, and `LoopUsesFreed` what the loop then does with the socket. |
| `P2PProofs` | proofs | section 5 |
| `Ber` | tags, lengths and the types without members: `ber_tlv_tag.c`, `ber_tlv_length.c`, `der_encoder.c`, `ber_check_tags`, INTEGER, NativeInteger, BOOLEAN, `OCTET_STRING.c` | pure operators on sequences of octets; the answer of a decoder is its code (`RC_OK`, `RC_WMORE`, `RC_FAIL`), what it consumed and the value. A string's decoder takes the state it left (`asn_struct_ctx_t`: phase, step, context, left). |
| `BerTypes` | the constructed types: `constr_SEQUENCE.c`, `constr_CHOICE.c`, `constr_SET_OF.c` | A decoder takes the state it left and answers the next one, so a message cut anywhere is decoded by several calls. The type tables are an argument: `asn_TYPE_descriptor_t` as a record. |
| `DndsTypes`, `Dnds` | the tables of every message type, and dnds.c | one definition per generated file, with its tags, optional members and extension marks; a setter is an update at a path, a getter reads it back |
| `Wire` | a sender that builds messages setter by setter, encodes them, and `net_decode_msg` with its buffer | `octets` is the stream not handed over yet; `buf_in`, `buf_in_offset` and `buf_in_data_size` are the buffer up to the last octet not used, what lies behind it being `Stale`; `msg_dec` the message being decoded. Where `serialize_buf_in` writes and where the decoder reads is the code's arithmetic; once the decoder is given other octets than the stream's, `misread` is set and the stream is followed no further. `Plan` lists the messages the programs send with their setters, and messages of a newer peer. |
| `WireProps`, `MCWire` | properties, instances | |
| `Netbus` | netbus.c, crypto.c and udt.cpp, both ends of one connection, with the handlers of agent and switch as far as they send, authenticate and disconnect | The TLS object is external: it reads and writes flights and records. A handler works on a record `x` (the connection, what it sends, what it was given), and each function of the code is a function of `x`; so a nested call, `on_secure` inside `net_on_input` say, sees what its caller did before; an agent and its switch are kind `"switch"`, or `"prov"` when the agent asks for its passport first, and two agents are `"p2p"`: those register the socket with the loop (`Register`) before they start TLS on it (`StartTls`), and `dropped` says that the loop read a piece of the hello in between; `Dispatched` is the loop of `on_input` over the queue, as a function of how many messages it took. The stream is in units, two to a record, and `Input(e, n)` receives any number of them. |
| `Channel` | what netbus promises its users | each end is handed a growing prefix of what the other sent; `Netbus` implements it under `open <-` the ends whose connection lives |
| `NetbusProps`, `NetbusProofs` | the properties of `Netbus`; proofs about it and, in the last part, about `Ber`, what travels in its frames | section 5 |

`Switch` and `Control` meet at the messages of the controller: `Switch` lets
every order of `Ctl…` messages happen, so it holds for whatever `Control`
delivers; `Control` keeps only the sets of known networks and nodes of the
switch, and lets statuses be written at any time for nodes it knows. `Enroll`
shares the pipe and the streams with `Control`: there every other query is
`Other`, and in `Control` a provisioning is none of the queries. `Agent` leaves
out the requests for peer-to-peer links, which change nothing it models; `P2P`
takes any number of them at any time. `Netbus` stands under `Agent`, `P2P` and
`Switch`: those take messages as delivered whole and in order, which is
`ImplementsChannel`, and `Wire` stands under `Netbus`, where a message is a value
that arrives or does not, which is `RoundTrip`, `Restartable` and
`NothingHeldBack`.

**Undefined behaviour.** Where the code frees an object and goes on using it
(`session_terminate`, a failed send inside a handler, a dangling network
pointer, a session the tracking table still has), reads a variable nothing set,
or writes to a freed `bufferevent`, the
model sets `undef` and stops: the properties promise nothing from there on. These
places are listed as hazards. Every other step is the code's.

**What is abstracted.** Of the handlers of nvswitch's two threads, authRequest and on_secure are split in
`Switch`, and the provisioning ones in `Enroll`; the others are interleaved whole.
That leaves out the races on the trees themselves (a walk or an insertion that meets
a rotation) and those inside `del_node` and `del_network`. The agent's threads are split at their shared assignments. JSON texts are
records, and DER texts too outside the `Wire` family. TLS is its outcome, which
node's certificate was presented, except in `Netbus`, where it is the flights of
two handshakes. The hash tables are functions.

## 3. Runs

| run | configuration | question | bounds |
|---|---|---|---|
| `switch` | `Switch.cfg` | list, ids, link states, statuses, isolation, ownership of addresses, the connection table, admission, purge | 2 sessions, which can be of the same node, of two nodes of one network or of two networks, and be freed and reused for another; 2 networks and 3 nodes, two of one network so that a certificate can differ from the name, and one of them of version 1; 2 addresses to learn in both networks; 2 ids, one for every session; `Word` 1 drops the counter `active`, which no property reads. A list with a middle needs 3 sessions: that is left to the proof, and to `switch_list` |
| `switch_list` | `Switch_list.cfg` | does a network's list hold all its sessions? No | 3 sessions |
| `switch_freed` | `Switch_freed.cfg` | is a non-NULL network pointer valid? No | 1 network deleted during a step-up |
| `switch_purge` | `Switch_purge.cfg` | does deleting a node mark its session? No, for version 2 certificates | 1 node, of version 2 |
| `linkst` | `Linkst.cfg` | memory bounds, symmetry, refinement of `LinkGraph` | limit 4 and slack 2: a resize that fits with its slack, one that meets the limit, and joins in the last row all occur; the clock passes the timeout once |
| `control` | `Control.cfg` | consistency of the tables, of `switch_sinfo` and of the statuses; does the switch end up knowing the database, and serving? | 1 network with 2 nodes, so that a listing has a row that is not the last; 2 connections, so that one may break anywhere; 1 mishap of any kind; 1 status in the pipe, so that a line of two statuses does not occur here |
| `provision` | `Provision.cfg` | serials and addresses under faults; refinement of `AddressPool` | 4 nodes for 2 addresses, so that the pool fills, empties and is refilled; `Hosts` 1 gives a bitmap of one byte with padding; 2 faults |
| `enroll` | `Enroll.cfg` | one passport per session, the right one, and an answer | 3 sessions of 2 agents, one with a code nobody has, so that a late answer of one can meet the wait of another; 2 other queries in flight |
| `agent` | `Agent.cfg` | one connection, the session's pointer, retries, authentication, and that the agent gets there | 2 threads, so that a loss could start a second one while the first connects; 3 connections, the first two of which may break anywhere |
| `p2p` | `P2P.cfg` | the table of peers, what its sessions and connections own, leaks | 3 requests for 2 agents, so that two requests compete for one address while a third has the other; 2 ports, so that one attempt is not the last |
| `wire` | `Wire.cfg` | does the other end read what was set, whatever the pieces the stream comes in? | every message of the programs and of a newer peer, with up to two of its setters called, in any order; pieces of 1 octet and of 40, so that every boundary is cut and several messages lie in one buffer; 2 messages in a stream, so that the start of the second one is left over behind the first |
| `netbus` | `Netbus.cfg` | does anything wait unnoticed in a buffer, what travels under the anonymous keys, is netbus a channel, do both ends get authenticated? | the three kinds of connection; a `recv` of up to 5 units, two records and a half, so that the end of a handshake arrives with messages behind it, and a record in two pieces; 2 frames from each end |

Passing runs have `CHECK_DEADLOCK FALSE` because the behaviours may really stop:
after undefined behaviour, when no agent acts, or when a bound is used up.

What the violations show:

- `ListComplete`: `on_disconnect` unlinks a session that never entered the list;
  with both links NULL this sets the head of the list to NULL, and the other
  sessions drop out of flooding and of `del_network`.
- `VnetValid`: `del_network` detaches only the listed sessions; one in its
  step-up keeps a dangling pointer, although `switch.c:312` takes a non-NULL
  pointer for a valid one.
- `DelNodePurges`: a version 2 node is filed under the empty uuid, so `del_node`
  does not find its session.

Known, and not a run of its own:

- A link never expires: `linkst_joined` has the comparison with the timeout commented
  out, while `tests/test_linkst.c:54-60` joins two ids, sleeps longer than the timeout
  and expects an answer other than 1 (`vnetwork.h:30` still gives 300 seconds).
  `JoinedAnswers` promises nothing of a link older than the timeout.
- `del_network` never asks who owns the network (its test at `request.c:92-102` is
  commented out). For a client that does not, the nodes are deleted, the row stays with
  its bitmap, and the switch is told to delete the network. `PoolExact`, `ImplementsPool`
  and `SwitchExact` except it; `AddressPool` has it as `leaked`.
- `add_node` writes the row and the bitmap in two statements, so after a fault between
  them the bitmap misses an address in use, which ippool.h:30 ("Bitmap holding used
  address") rules out. `PoolExact` promises the pool only until the first fault.
- The name an agent gives in its authRequest and the certificate it presents are never
  compared. When they differ, on_disconnect erases the wrong entry of the connection
  table and `del_node` may follow a pointer to a freed session. `CtableLive` is about
  agents that present what they named, as `agent.c` does.
- A purge mark set while authRequest or on_secure runs for that very session is
  overwritten. `PurgeIsFinal` excepts exactly that.
- `del_node` and `del_network` push a deletion whatever became of their statements, and
  `add_node` stores a node and pushes nothing when the bitmap cannot be stored. The switch
  then differs from the database until it fetches the lists on its next connection:
  `SwitchComplete` and `SwitchExact` except what such an operation touched.
- A listing that is answered by an error is never asked again on that connection, and when
  the attempt to reconnect fails at once nothing arms the timer again (or `bufev_sock` is
  freed a second time): `EventuallyStarted` excuses both.
- A network that is pushed has no `id`, and `listall_network` gives `vnetwork_create` a
  variable that nothing set: the outcome `undef` of `OnReadNoId`.
- `serialize_buf_in` (`netbus.c:215`) writes behind `buf_in_data_size` octets from the
  start of the buffer, and `net_decode_msg` reads from `buf_in_offset` (`netbus.c:268`,
  `278`, `302`). When the start of a message was left over behind the end of another, the
  next piece goes to the wrong place. `RoundTrip`, `Restartable` and `NothingHeldBack`
  hold of every stream up to there.
- When `krypt_secure_connection` fails in `net_p2p` (`netbus.c:720-724`) the session is
  never freed and the loop keeps the socket of a freed connection. `NothingLeaks` excepts
  it.
- Between two agents the loop may read a piece of the other's hello before TLS is started
  (`udt.cpp:418`, `netbus.c:719-727`) and drop it: then the handshake never ends.
  `NothingStuck` and `EventuallyAuthed` of `Netbus` except it.
- An agent that is provisioned over this connection is sent its passport, with its private
  key, under the anonymous keys: `UnderCertificates` names the four messages that are.

The type invariants of `Linkst`, `Provision`, `Agent`, `P2P` and `Enroll` are proved, and not
run again.

## 4. Fairness

Liveness is stated in four modules. Nothing is assumed of the API, the database's
users or the network, which may break things at any time; the number of broken
connections and crashes is bounded, so that the last connection may hold, or the property excuses a lost connection.

- `Control`: weak fairness of the libevent callbacks of both processes (an event
  loop serves every descriptor that stays ready), of the one-second timer (it
  stays armed until it fires) and of the poll of `switch_init`.
  `EventuallyStarted` asks for a database that keeps a network and a node: with
  either list empty the controller sends no last row, and `switch_init` waits for
  ever. It also asks that from some time on no attempt to connect fails at once and no
  listing of the latest connection is answered by an error, since the code tries neither
  again.
- `Agent`: weak fairness of each thread of the agent (both run in loops that only
  `terminate` ends) and of the switch's service of each connection.
  `EventuallyAuthed` asks for a switch that knows the agent's network
  (`willing`) and for files that can be written when there is no passport yet: a
  `noRight` is never asked again.
- `Enroll`: weak fairness of the write that the switch thread has begun and of
  the two event loops. `EventuallyAnswered` promises an answer only while nothing
  else is in flight, because a line of two queries is dropped and because a
  second provisioning takes the slot; the agent repeats nothing in those cases.
- `Netbus`: weak fairness of `accept`, of each end's loop (`udtbus_poke_queue`
  is called for ever by both programs) and of the two steps of the thread of `net_p2p`.
  Nothing is assumed of the controller, so a session that waits for its passport is
  excused. `EventuallyAuthed` excuses a lost connection, a purged session and a dropped
  hello as well, and takes certificates for good and the node for known.

## 5. Proofs

All proofs are checked by TLAPS with Z3, Zenon and LS4; constants have the
assumptions named in their modules and nothing else.

**Switch** (`SwitchProofs`). The inductive invariant `SwitchInv` is `TypeOK`,
`ListSound`, `MacOwnership`, `OnlineHasSession` and four parts that the
properties need but a reader would not ask for: `SessionShape` (which fields a
session has in which state), `AbsentShape` (a network not created yet is empty)
and `CtableKeyed` (under its own uuid the connection table has only sessions of a
version 1 node). `ListSound` alone is not inductive: unlinking a session that is
not listed keeps it true only because such a session has no links, which is
`SessionShape`. `MacOwnership` makes frames stay in their network, and gives
`FrameIsolation`. `Admission` and `PurgeIsFinal` are action properties that
follow from the actions and `SwitchInv`. `LinksLive` is inductive relative to
`SwitchInv`. `IdsExact` needs that the pool never fills: it is proved under
`Capacity`, that there are at most `MaxNode` sessions: the failure of
`bitpool_allocate_bit` is not tested, and each session past the last id would
have the id 1 too. `ThreadShape` says what the session of the running handler has,
whatever its state became meanwhile: it is what makes the writes at the end of
authRequest and on_secure safe after a purge or the deletion of a node, and what
`Admission` and `PurgeIsFinal` except. `CtableLive` is proved while `matched`, that is
while every certificate presented was the one its agent had named: the code compares
the two nowhere. The list walk `ListOf` is the least closed set that holds the head,
which avoids recursion: that a flooded frame reaches only members is proved from
the fact that the members are closed under `next`.

**Link states** (`LinkstProofs`). `TypeOK /\ InAllocatedRows` is inductive
because `linkst_resize` always covers the row it is called for (`ResizeCovers`).
The refinement of `LinkGraph` rests on the cell of a pair being the same for
both orders, and on a disjoin visiting every cell of the id that lies in an
allocated row, which by the invariant are all that are marked. `JoinedAsPromised`
follows from the same invariant: the two ids of a marked cell have rows.

**Control** (`ControlProofs`). `IInv` has the types of the tables, of the peers
and of `switch_sinfo`, and the three invariants. The two processes change disjoint variables, so
each action is checked against the half it writes. Its second half has the contents
of the streams: `ControlTypes` their types, and `LInv` what is on its way. `Lines`
and `Msgs` are the current connection towards the controller and towards the switch.
`Follows` says that every live network is known, or added by a message on its way, or
asked for by a line on its way, before any line that asks for the nodes; and that once
the last node was sent every live node is in a table or admitted by a message that
finds its network there or behind one that adds it. It is needed in this strength
because `listall_node` drops a node whose network is not known yet. `Streams` says that
nothing is on a connection not made yet and nothing was asked on one being made, so
that each connection starts anew; `Database` that only what was deleted is announced as
deleted; `First` that on the first connection what has died is about to be taken out.
When the connection is idle both streams are empty, and `SwitchComplete` and
`SwitchExact` are what is left. All this is said of `TrueNets` and `TrueNodes`, the live
networks and nodes that no mishap touched since the controller got its session: a failed
statement or a stranger's deletion takes its rows out of them, and a new session puts them
back, because its lists name what the database has. A crash or a reconnection is
covered without exception. Each step is one of four on the streams, a message
added behind or read in front, with a lemma for each part of the invariant.

**Provision** (`ProvisionProofs`). `IInv` is `TypeOK`, `SerialUnique`,
`PoolExact` and `Shape` (what a network that is not live, and a fresh uuid,
look like). The proof that a new address is a host's is the one about
`allocate_bit`: the least clear bit of the bitmap, when it passes the test
`bit > bits`, lies in `0 .. Hosts`, and while nothing failed it is in no row.
`Refusal` uses that the bitmap has a bit for every address `0 .. Hosts`, which
needs `Hosts % 8 # 0`; network sizes give `2^k - 3`. It and the second half of
`PoolExact` are promised while only the owner deletes the network: `del_network` deletes
the nodes whoever asks and leaves the row of a network that is not the caller's, with the
bits of addresses nobody has. That no address is given twice survives this.

`ImplementsAddresses` says more than those two together: every step of the rows is a
step of `AddressPool`. A node that is added is granted an address or refused one
(`AddNodeMaps`: after which of its three writes `add_node` ended decides which), a
deleted node or network releases what it had, and a fault in any of them gives an
address to nobody but the node that is being added, and changes no address otherwise
than by releasing it. It needs `PoolExact` to say, until the first fault, that the free bits
are the addresses of no node and that there are no others.

**Agent** (`AgentProofs`). `IInv` is `TypeOK`, `Shape` and `Messages`. `Shape` says
who owns a connection: a thread that is still connecting, or, once `ext_ptr` is
set, the session, and then no thread is at work. From it follow `OneConnection`,
`NetcLive` and `NeverStranded`. `Messages` says that `success`, and what follows it, is on
its way only on a connection that the switch has authenticated, which gives
`AuthedBySwitch`; it needs `Shape`, because a message of an older connection must
not be taken for one of the present.

**Peer to peer** (`P2PProofs`). `IInv` is `TypeOK`, `TableLive` and `Shape`: a
request's session and connection live and die together, a live connection has
its callbacks and its session, unless TLS failed to start on it, and the thread's rendezvous and the loop's service
of a socket exclude each other. Everything turns on one lemma, `Disconnection`:
whatever the table holds for the address, losing a connection frees this
request's session and no other's, and the table forgets exactly it. That a second session of an address neither enters
the table nor takes the first one's entry with it when it goes rests on
`InTable`, which compares sessions and not addresses.

**Provisioning round trip** (`EnrollProofs`). `OneAnswer` follows from `Fresh` and
`Held`: a session in the slot, or in the control thread's hand, asked and was sent
nothing, and once the slot is cleared it names another session than the hand.
`OwnPassport` needs the contents of the streams: `StreamsFor(N)` says that
every provisioning in the pipe, in both directions of the connection and in the
controller's buffer is for a node of `N`. It is the type of the streams for `N =
Node`, and `OwnFlight` asks it of `N = {NodeOf[s]}` for every session that waits
alone, so that one set of lemmas, a step of each queue, serves both. The base
case is `QuietStreams`: a request that finds no provisioning in flight finds every
line to be something else.

**Netbus** (`NetbusProofs`), for any `RecvSize` and `MaxFrame`, from
`NetbusAssumption`: the kinds are the three the programs use. None of the three
properties is inductive, and `IInv` says much more than they do. It is `TypeOK` and
`Sound`, which speaks of `View`, a record per end of its connection, the stream
towards it, what it sent and was given, so that the lemmas about it are about values
and not about variables.

While the transport connects the two, a connection is `Early`, its client has said
nothing yet, or in one of these phases (`Phase`): `Shaking(k)`, flight `k` is on its
way and its reader has not read it; `Asking`, `Waits` and `Granted`, an agent's request
for its passport is on its way, is with the controller, or is answered; `Called`, the
authRequest is on its way; `Answered`, the switch's answer is, and the HelloRequest
behind it; `Talking`, the last handshake is over. `Waits` is the only phase in which the
control thread has a passport to send (`TrackedIn`), which is what keeps that answer out
of the second handshake. When the loop of an agent drops a piece of the hello the
connection is `Stalled` from there on: nothing that a whole record could be made of is
on its way to the one end, nothing at all to the other, and neither sends. Each
phase says exactly what is on its way to each end. `Awaits(e, Q, R)` is the heart of
it: what the BIO of `e` and the stream towards it hold *together* is the records `Q`,
and what the other end sent is what `e` was given followed by `R`, the messages in
`Q`. A cut moves units from one side of that join to the other, so where it falls does
not matter. Between two calls an end is `Quiet`: nothing to write, nothing in
`buf_enc`, one unit at most, half a record, in the BIO, and a status that agrees with
its handshake. Every step of the loop is then a step to the same or a later phase, or
frees the end because its session is marked (`InputCarries`), and a frame leaves the
phase (`FrameCarries`).

The phases are lost when the transport breaks, because an end that is freed no longer
answers. What stays is `Hears`: the other end's messages begin with what this end was
given and with what is still on its way (`Lined`), or this end is `Deaf`, its hello
being lost. It is enough for the last read of a broken socket and for the channel.
`Certified`, every record under the first keys holds one of four messages, stays as
well.

Induction over the records of a `recv` and over the messages of a batch would need
the library's induction theorems, which take an operator. The proofs go through
`LeastExists` instead (a set of naturals that is not empty has a least element, by
the well-foundedness of `<`) and `Induction`, its form for an initial segment, which
takes a set: the indices at which the claim holds. So it is proved that `Dispatched` answers
the whole batch in order, that `Records` and `FlattenSeq` over it give back the
messages that were sent, and that what SSL_read leaves is the rest of `Q`.

`NothingStuck` follows because an empty stream and half a record in the BIO cannot be
`Units(Q)` for anything but no records at all. `UnderCertificates` follows because the
phases of a provisioning, `Called` and `Answered` are the only ones with messages under
the first keys, and all that is sent later is sent with the second. `ImplementsChannel`
follows step by step: `Connect`, `Accept` and `Register` open an end, a read, a frame or
a passport is the work of one, and `Purge` and `Break` are stutters.

**The octets of a message** (`NetbusProofs`, last part). What `RoundTrip`,
`Restartable` and `NothingHeldBack` say of messages is proved of what they are made
of, for any value, any octets behind it and any cut. `LengthReadBack`: a length of up
to `2^24 - 1` is written in as many octets as it needs and read back, and no prefix of
it is taken for a length. `HeaderReadBack`: the tag and the length in front of a value
are what `ber_check_tags` finds, in one call, with the tag of the type or one in its
place, and for any prefix it asks for more and has used nothing. `LongReadBack`:
dropping the superfluous octets of a 64-bit number and extending the sign gives it back;
`asn_INTEGER2ulong`, which does not extend it, needs the top bit clear. From these
follows `NumberReadBack`, the decoder of a number against its encoder. `StringInPieces`
is about a decoder that keeps state between calls: after `k` octets it has consumed
`Used(k)` and holds `Value(k)`, whatever calls led there, so that one more call, with
what it did not use and some more, leads to `Value(m)` and `Used(m)`, and the last one
to the whole string, consuming no octet behind it. One call is enough to state because
`Value(k)` names the octets it was given and not the pieces they came in. `Number`,
`Header` and `Checked` are recursive functions, of which only a bounded unfolding is
needed: a tag is one octet, a length at most four.

**Only model-checked**: the liveness properties (`EventuallyAuthed` of `Agent` and
`Netbus`, `EventuallyStarted` and the others of section 4), because the provers
know neither fairness nor ENABLED; `RoundTrip`, `Restartable` and `NothingHeldBack`,
because the encoders and decoders of the constructed types call themselves on the types
of their members, so that a theorem about any message is an induction over types; and
the violations.

## 6. Not modelled, and plan

Coverage: the definitions stand for about a third of the implementation's lines. Of
the rest most is generated code that no program calls (XER, PER, printing,
constraint checks, the descriptors of unused string types), vendored code, SQL text
and JSON formatting, and start-up.

Netbus leaves out: the unsecured mode, which no program selects, and with it
`tcp.c`; octets that are no message, whose answer is a disconnection; an error of
`SSL_write` other than a full or an unfinished BIO, on which `net_send_msg` would
loop for ever; a handshake that fails for any other reason than
a dropped hello (`HandshakeFails`); and the tap thread of the agent, which sends on the TLS
object that the loop thread reads from. Of the codec: constructed strings and
indefinite lengths, which the encoder never writes, so that phases 1 and 2 of
`OCTET_STRING.c` are not reached.

Planned next:

1. `SwitchRace`: `del_network` and `del_node` split at their reads and writes
   against `forward_ethernet` and `on_disconnect`.
2. `Accounts`: creation, activation, reset key and password; each is one or two
   statements on one row.
3. `Switch` as the implementation of an abstract network: the members of a network
   hear each other and nobody else. The second half is `FrameIsolation`; the first
   fails with `ListComplete`, so the abstract network has to lose members.

In `Agent` the frames of the tunnel and `terminate` are left out: the former send
on `session->netc`, which `NetcLive` speaks of; nothing in the repository sends an
agent the latter.

Left out for good: OpenSSL and UDT internals, the hash library, front ends,
packaging and the schema.
