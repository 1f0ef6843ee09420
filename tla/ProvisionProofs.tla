--------------------------- MODULE ProvisionProofs ---------------------------
(***************************************************************************)
(* For every size of the network and any number of nodes and faults: the   *)
(* serial numbers are unique; until the first fault no address is given    *)
(* twice, and none is lost while only the owner deletes the network; and   *)
(* the rows implement the pool of addresses.                               *)
(***************************************************************************)
EXTENDS Provision, TLAPS, WellFoundedInduction

(* A non-empty set of naturals has a least element. *)
LEMMA LeastExists ==
    ASSUME NEW S \in SUBSET Nat, S # {}
    PROVE  Least(S) \in S /\ \A c \in S : Least(S) <= c
<1> DEFINE R == {ss \in Nat \X Nat : ss[1] < ss[2]}
<1>1. IsWellFoundedOn(R, Nat)
    BY NatLessThanWellFounded DEF OpToRel
<1> HIDE DEF R
<1>2. PICK b \in S : \A c \in S : ~ (<<c, b>> \in R)
    BY <1>1, WFMin
<1>3. ASSUME NEW c \in S
      PROVE  b <= c
    <2>1. ~ (<<c, b>> \in R)
        BY <1>2
    <2>2. b \in Nat /\ c \in Nat
        OBVIOUS
    <2>3. QED
        BY <2>1, <2>2 DEF R
<1>4. QED
    BY <1>3 DEF Least

(* The bitmap has a bit for every address: the number of hosts that ipcalc
   computes is no multiple of 8. *)
LEMMA BitCovers == Bit \in SUBSET Nat /\ 0 .. Hosts \subseteq Bit
<1>1. Hosts < 8 * Bytes
    BY ProvisionAssumption DEF Bytes
<1>2. Bytes \in Nat
    BY ProvisionAssumption DEF Bytes
<1>3. QED
    BY <1>1, <1>2, ProvisionAssumption DEF Bit

(* allocate_bit returns an address that is not in the pool when there is one, and
   only fails when there is none. *)
LEMMA AllocateIsExact ==
    /\ Allocates => Least(Clear) \in (0 .. Hosts) \ pool
    /\ ~Allocates => 0 .. Hosts \subseteq pool
<1>1. Clear \in SUBSET Nat
    BY BitCovers DEF Clear
<1>2. Clear # {} => Least(Clear) \in Clear /\ \A c \in Clear : Least(Clear) <= c
    BY <1>1, LeastExists
<1>3. ASSUME Allocates
      PROVE  Least(Clear) \in (0 .. Hosts) \ pool
    BY <1>1, <1>2, <1>3, ProvisionAssumption DEF Allocates, Clear
<1>4. ASSUME ~Allocates, NEW b \in 0 .. Hosts, b \notin pool
      PROVE  FALSE
    <2>1. b \in Clear
        BY <1>4, BitCovers DEF Clear
    <2>2. Least(Clear) \in Nat /\ Least(Clear) <= b
        BY <2>1, <1>1, <1>2
    <2>3. QED
        BY <2>1, <2>2, <1>4, ProvisionAssumption DEF Allocates
<1>5. QED
    BY <1>3, <1>4

-----------------------------------------------------------------------------
(* What the properties rest on: a uuid not drawn yet has no row, and only a network
   that was added has nodes. *)
Shape ==
    /\ fresh \cap Rows = {}
    /\ context = "unborn" => Rows = {} /\ pool = {}
    /\ context = "live" => serial >= 2

IInv == TypeOK /\ Shape /\ SerialUnique /\ PoolExact

LEMMA InitInv == Init => IInv
<1>1. Init => foreign \in BOOLEAN
    BY Zenon DEF Init
<1>2. QED
    BY <1>1, ProvisionAssumption DEF Init, IInv, TypeOK, Shape, SerialUnique, PoolExact, Rows

LEMMA FaultType == TypeOK /\ Fault => faults' \in 0 .. MaxFault /\ faults' # 0
BY ProvisionAssumption DEF TypeOK, Fault

LEMMA AddNetworkInv == IInv /\ AddNetwork => IInv'
BY ProvisionAssumption
DEF AddNetwork, StoreNetwork, IInv, TypeOK, Shape, SerialUnique, PoolExact, Rows

(* The three writes of add_node, up to any of them. *)
LEMMA AddNodeWritesInv ==
    ASSUME IInv, NEW n \in Node, NEW done \in 0 .. 3, AddNodeWrites(n, done),
           context = "live", n \in fresh, fresh' = fresh \ {n}, context' = context,
           answer' \in {"success", "error"}, faults' \in 0 .. MaxFault,
           foreign' = foreign,
           done >= 2 => Allocates,
           faults' = 0 => faults = 0 /\ done \in {1, 3}
    PROVE  IInv'
<1> DEFINE b == Least(Clear)
<1> USE DEF IInv
<1>1. done >= 2 => b \in 0 .. Hosts /\ b \notin pool
    BY AllocateIsExact
<1>2. NoRow \notin 0 .. Hosts
    BY ProvisionAssumption
<1>3. /\ done >= 2 => /\ ip' = [ip EXCEPT ![n] = b]
                      /\ cert' = [cert EXCEPT ![n] = serial]
      /\ ~(done >= 2) => ip' = ip /\ cert' = cert
      /\ serial' = IF done >= 1 THEN serial + 1 ELSE serial
      /\ pool' = IF done = 3 THEN pool \cup {b} ELSE pool
    BY DEF AddNodeWrites, SerialAfterAdd, PoolAfterAdd, NewIp
<1> HIDE DEF b
<1>4. n \notin Rows
    BY DEF Shape
<1>5. Rows' = IF done >= 2 THEN Rows \cup {n} ELSE Rows
    <2>1. CASE done >= 2
        <3>1. n \in Rows'
            BY <2>1, <1>1, <1>2, <1>3 DEF Rows, TypeOK
        <3>2. \A m \in Node : m # n => (m \in Rows' <=> m \in Rows)
            BY <2>1, <1>3 DEF Rows, TypeOK
        <3>3. QED
            BY <2>1, <3>1, <3>2 DEF Rows
    <2>2. CASE ~(done >= 2)
        BY <2>2, <1>3 DEF Rows
    <2>3. QED
        BY <2>1, <2>2
<1>6. TypeOK'
    <2>1. ip' \in [Node -> (0 .. Hosts) \cup {NoRow}]
        BY <1>1, <1>3 DEF TypeOK
    <2>2. cert' \in [Node -> Nat] /\ serial' \in Nat
        BY <1>3 DEF TypeOK
    <2>3. pool' \subseteq 0 .. Hosts
        <3>1. pool \subseteq 0 .. Hosts /\ (done = 3 => b \in 0 .. Hosts)
            BY <1>1 DEF TypeOK
        <3>2. QED
            BY <1>3, <3>1
    <2>4. QED
        BY <2>1, <2>2, <2>3 DEF TypeOK
<1>7. Shape'
    BY <1>3, <1>4, <1>5 DEF Shape, TypeOK
<1>8. SerialUnique'
    <2>1. \A m \in Rows : cert'[m] = cert[m] /\ cert[m] \in Nat /\ m \in Node
        BY <1>3, <1>4 DEF Rows, TypeOK
    <2>2. CASE done >= 2
        <3>1. cert'[n] = serial /\ serial' = serial + 1 /\ serial >= 2 /\ serial \in Nat
            BY <2>2, <1>3 DEF TypeOK, Shape
        <3>2. QED
            BY <2>1, <2>2, <3>1, <1>5 DEF SerialUnique
    <2>3. CASE ~(done >= 2)
        <3>1. Rows' = Rows /\ cert' = cert /\ serial' >= serial /\ serial' \in Nat
            BY <2>3, <1>3, <1>5 DEF TypeOK
        <3>2. QED
            BY <2>1, <3>1 DEF SerialUnique, TypeOK
    <2>4. QED
        BY <2>2, <2>3
<1>9. PoolExact'
    <2> SUFFICES ASSUME faults' = 0
                 PROVE  /\ {ip'[m] : m \in Rows'} \subseteq pool'
                        /\ ~foreign => pool' = {ip'[m] : m \in Rows'}
                        /\ \A l, m \in Rows' : ip'[l] = ip'[m] => l = m
        BY DEF PoolExact
    <2>1. /\ {ip[m] : m \in Rows} \subseteq pool
          /\ ~foreign => pool = {ip[m] : m \in Rows}
          /\ \A l, m \in Rows : ip[l] = ip[m] => l = m
        BY DEF PoolExact
    <2>2. CASE done = 1
        BY <2>1, <2>2, <1>3, <1>5
    <2>3. CASE done = 3
        <3>1. Rows' = Rows \cup {n} /\ pool' = pool \cup {b} /\ b \notin pool
            BY <2>3, <1>1, <1>3, <1>5
        <3>2. ip'[n] = b /\ \A m \in Rows : ip'[m] = ip[m] /\ ip[m] \in pool
            BY <2>1, <2>3, <1>3, <1>4 DEF TypeOK, Rows
        <3>3. QED
            BY <2>1, <3>1, <3>2
    <2>4. QED
        BY <2>2, <2>3
<1>10. QED
    BY <1>6, <1>7, <1>8, <1>9

LEMMA AddNodeInv ==
    ASSUME IInv, NEW n \in Node, AddNode(n)
    PROVE  IInv'
<1>1. /\ context = "live" /\ n \in fresh /\ fresh' = fresh \ {n}
      /\ context' = context /\ answer' \in {"success", "error"} /\ foreign' = foreign
    BY DEF AddNode, EmbassyFound
<1>2. CASE Allocates /\ AddNodeWrites(n, 3) /\ UNCHANGED faults
    BY <1>1, <1>2, AddNodeWritesInv DEF IInv, TypeOK
<1>3. CASE AddNodeWrites(n, 1) /\ UNCHANGED faults
    BY <1>1, <1>3, AddNodeWritesInv DEF IInv, TypeOK
<1>4. ASSUME NEW done \in 0 .. 2, done = 2 => Allocates, Fault, AddNodeWrites(n, done)
      PROVE  IInv'
    BY <1>1, <1>4, FaultType, AddNodeWritesInv DEF IInv
<1>5. QED
    BY <1>2, <1>3, <1>4 DEF AddNode, EmbassyFound

(* Rows that go take nothing with them that another row needs. *)
LEMMA DeleteRows ==
    ASSUME IInv, NEW N \in SUBSET Node, Delete(N)
    PROVE  /\ Rows' = Rows \ N
           /\ ip' \in [Node -> (0 .. Hosts) \cup {NoRow}] /\ cert' \in [Node -> Nat]
           /\ \A m \in Rows' : ip'[m] = ip[m] /\ cert'[m] = cert[m]
<1>1. \A m \in Node : ip'[m] = (IF m \in N THEN NoRow ELSE ip[m])
                   /\ cert'[m] = (IF m \in N THEN 0 ELSE cert[m])
    BY DEF Delete
<1>2. Rows' = Rows \ N
    BY <1>1 DEF Rows
<1>3. ip' \in [Node -> (0 .. Hosts) \cup {NoRow}] /\ cert' \in [Node -> Nat]
    BY DEF Delete, IInv, TypeOK
<1>4. QED
    BY <1>1, <1>2, <1>3 DEF Rows

(* A deletion, of any nodes, that leaves in the pool what the other nodes have, and
   nothing else unless somebody else than the owner deleted the network. *)
LEMMA DeletionInv ==
    ASSUME IInv, NEW N \in SUBSET Node, Delete(N), pool' \subseteq pool,
           context = "live", context' \in {"live", "deleted"},
           serial' = serial, fresh' = fresh, answer' = answer, faults' \in 0 .. MaxFault,
           foreign' \in {foreign, TRUE},
           faults' = 0 /\ context' = "live" =>
               /\ faults = 0
               /\ {ip[m] : m \in Rows \ N} \subseteq pool'
               /\ ~foreign' => pool' = {ip[m] : m \in Rows \ N}
    PROVE  IInv'
<1> USE DEF IInv
<1>1. /\ Rows' = Rows \ N
      /\ ip' \in [Node -> (0 .. Hosts) \cup {NoRow}] /\ cert' \in [Node -> Nat]
      /\ \A m \in Rows' : ip'[m] = ip[m] /\ cert'[m] = cert[m]
    BY DeleteRows
<1>2. TypeOK'
    <2>1. foreign' \in BOOLEAN
        BY Zenon DEF TypeOK
    <2>2. QED
        BY <1>1, <2>1 DEF TypeOK
<1>3. Shape'
    BY <1>1 DEF Shape
<1>4. SerialUnique'
    BY <1>1 DEF SerialUnique
<1>5. PoolExact'
    BY <1>1 DEF PoolExact
<1>6. QED
    BY <1>2, <1>3, <1>4, <1>5

(* What is left without a row deleted: a fault, and a pool with at most fewer bits. *)
LEMMA FaultOnlyInv ==
    ASSUME IInv, Fault, ip' = ip, cert' = cert, pool' \subseteq pool, context = "live",
           context' = context, serial' = serial, fresh' = fresh, answer' = answer,
           foreign' = foreign
    PROVE  IInv'
<1>1. faults' \in 0 .. MaxFault /\ faults' # 0
    BY FaultType DEF IInv
<1>2. Rows' = Rows
    BY DEF Rows
<1>3. QED
    BY <1>1, <1>2 DEF IInv, TypeOK, Shape, SerialUnique, PoolExact

LEMMA DelNodeInv ==
    ASSUME IInv, NEW n \in Node, DelNode(n)
    PROVE  IInv'
<1>1. /\ context = "live" /\ n \in Rows /\ context' = context
      /\ serial' = serial /\ fresh' = fresh /\ answer' = answer /\ foreign' = foreign
    BY DEF DelNode
<1>2. Released(n) \subseteq pool
    BY DEF Released
<1>3. CASE Delete({n}) /\ pool' = Released(n) /\ UNCHANGED faults
    <2>1. faults' = 0 =>
              /\ {ip[m] : m \in Rows \ {n}} \subseteq pool'
              /\ ~foreign' => pool' = {ip[m] : m \in Rows \ {n}}
        BY <1>1, <1>3 DEF IInv, PoolExact, Released
    <2>2. QED
        BY <1>1, <1>2, <1>3, <2>1, DeletionInv DEF IInv, TypeOK
<1>4. CASE Fault /\ Delete({n}) /\ UNCHANGED pool
    <2>1. faults' \in 0 .. MaxFault /\ faults' # 0
        BY <1>4, FaultType DEF IInv
    <2>2. QED
        BY <1>1, <1>4, <2>1, DeletionInv
<1>5. CASE Fault /\ UNCHANGED <<ip, cert>> /\ pool' \subseteq pool
    BY <1>1, <1>5, FaultOnlyInv
<1>6. QED
    BY <1>2, <1>3, <1>4, <1>5 DEF DelNode

LEMMA DelNetworkInv == IInv /\ DelNetwork => IInv'
<1> SUFFICES ASSUME IInv, DelNetwork
             PROVE  IInv'
    OBVIOUS
<1>1. /\ context = "live" /\ pool' = pool
      /\ serial' = serial /\ fresh' = fresh /\ answer' = answer
    BY DEF DelNetwork, DropNetwork
<1>2. CASE Delete(Node) /\ context' = "deleted" /\ UNCHANGED <<faults, foreign>>
    BY <1>1, <1>2, DeletionInv DEF IInv, TypeOK
<1>2a. CASE Delete(Node) /\ foreign' = TRUE /\ UNCHANGED <<context, faults>>
    <2>1. {ip[m] : m \in Rows \ Node} = {}
        BY DEF Rows
    <2>2. QED
        BY <1>1, <1>2a, <2>1, DeletionInv DEF IInv, TypeOK
<1>3. CASE Fault /\ Delete(Node) /\ UNCHANGED <<context, foreign>>
    <2>1. faults' \in 0 .. MaxFault /\ faults' # 0
        BY <1>3, FaultType DEF IInv
    <2>2. QED
        BY <1>1, <1>3, <2>1, DeletionInv
<1>4. CASE Fault /\ UNCHANGED <<ip, cert, context, foreign>>
    BY <1>1, <1>4, FaultOnlyInv
<1>5. QED
    BY <1>2, <1>2a, <1>3, <1>4 DEF DelNetwork, DropNetwork

LEMMA StepInv == IInv /\ [Next]_vars => IInv'
<1> SUFFICES ASSUME IInv, [Next]_vars
             PROVE  IInv'
    OBVIOUS
<1>1. CASE UNCHANGED vars
    BY <1>1 DEF vars, IInv, TypeOK, Shape, SerialUnique, PoolExact, Rows
<1>2. QED
    BY <1>1, AddNetworkInv, AddNodeInv, DelNodeInv, DelNetworkInv DEF Next

(* What was written holds in every state: the types, the serial numbers, the exact
   pool. *)
THEOREM Inductive == Spec => []IInv
BY InitInv, StepInv, PTL DEF Spec

(* add_node and del_node only ever store host addresses of the network. *)
THEOREM ProvisionTypes == Spec => []TypeOK
<1>1. IInv => TypeOK
    BY DEF IInv
<1>2. QED
    BY <1>1, Inductive, PTL

(* No serial number is given to two certificates, whatever statement fails and
   wherever nvctrler crashes. *)
THEOREM SerialsUnique == Spec => []SerialUnique
<1>1. IInv => SerialUnique
    BY DEF IInv
<1>2. QED
    BY <1>1, Inductive, PTL

(* Until the first fault the pool holds the addresses of the nodes, no two nodes share
   one, and, while only its owner deletes the network, the pool holds nothing else. *)
THEOREM PoolsExact == Spec => []PoolExact
<1>1. IInv => PoolExact
    BY DEF IInv
<1>2. QED
    BY <1>1, Inductive, PTL

(* Until the first fault, and while only its owner deletes it, a network only refuses
   a node when every address is a node's. *)
THEOREM Refusal == Spec => RefusedOnlyWhenFull
<1> DEFINE Refused == fresh' # fresh /\ answer' = "error" /\ faults' = 0 /\ ~foreign
           Full    == {ip[n] : n \in Rows} = 0 .. Hosts
<1>1. ASSUME IInv, Next, Refused
      PROVE  Full
    <2>1. PICK n \in Node : AddNode(n)
        BY <1>1 DEF Next, AddNetwork, StoreNetwork, DelNetwork, DropNetwork, DelNode
    <2>2. faults' # faults => ~Refused
        BY <1>1, FaultType, <2>1 DEF IInv, AddNode, EmbassyFound
    <2>3. faults = 0 /\ context = "live" /\ ~Allocates
        BY <1>1, <2>1, <2>2, FaultType DEF AddNode, EmbassyFound, IInv
    <2>4. pool = 0 .. Hosts
        BY <2>3, <1>1, AllocateIsExact DEF IInv, TypeOK
    <2>5. QED
        BY <2>3, <2>4, <1>1 DEF IInv, PoolExact
<1>2. IInv /\ [Next]_vars =>
          [fresh' # fresh /\ answer' = "error" /\ faults' = 0 /\ ~foreign =>
              {ip[n] : n \in Rows} = 0 .. Hosts]_vars
    BY <1>1
<1>3. QED
    BY <1>2, Inductive, PTL DEF Spec, RefusedOnlyWhenFull

-----------------------------------------------------------------------------
(* The rows implement the pool of addresses: each action is one of its steps. *)

LEMMA InitMaps == Init => Pool!PoolInit
BY DEF Init, Pool!PoolInit

(* A uuid that is drawn asks once. *)
LEMMA Asks ==
    ASSUME NEW n \in Node, n \in fresh, fresh' = fresh \ {n}
    PROVE  Pool!Ask(n)
BY DEF Pool!Ask

(* After which of its writes add_node ends decides what it was to the pool. *)
LEMMA AddNodeMaps ==
    ASSUME IInv, NEW n \in Node, AddNode(n)
    PROVE  Pool!Grant(n) \/ Pool!Refuse(n) \/ Pool!FailRequest(n)
<1>1. Pool!Ask(n)
    BY Asks DEF AddNode
<1>1a. foreign' = foreign
    BY DEF AddNode
<1>2. ip \in [Node -> (0 .. Hosts) \cup {NoRow}] /\ faults \in Nat
    BY DEF IInv, TypeOK
<1>3. Allocates => NewIp \in (0 .. Hosts) \ pool
    BY AllocateIsExact DEF NewIp
<1>4. NoRow \notin 0 .. Hosts
    BY ProvisionAssumption
<1>5. faults = 0 => \A m \in Node : ip[m] # NoRow => ip[m] \in pool
    BY DEF IInv, PoolExact, Rows, AddNode, EmbassyFound
<1>6. faults = 0 /\ ~foreign => \A a \in pool : \E m \in Node : ip[m] = a
    BY DEF IInv, PoolExact, Rows, AddNode, EmbassyFound
<1>7. CASE Allocates /\ AddNodeWrites(n, 3) /\ answer' = "success" /\ UNCHANGED faults
    <2>1. ip' = [ip EXCEPT ![n] = NewIp]
        BY <1>7 DEF AddNodeWrites
    <2>2. ~(faults # 0) => NewIp \notin Pool!Taken
        BY <1>3, <1>4, <1>5, <1>7 DEF Pool!Taken
    <2>3. Pool!Grant(n)
        BY <1>1, <1>1a, <1>3, <1>7, <2>1, <2>2 DEF Pool!Grant
    <2>4. QED
        BY <2>3
<1>8. CASE ~Allocates /\ AddNodeWrites(n, 1) /\ answer' = "error" /\ UNCHANGED faults
    <2>1. ip' = ip
        BY <1>8 DEF AddNodeWrites
    <2>2. 0 .. Hosts \subseteq pool
        BY <1>8, AllocateIsExact
    <2>3. ~(faults # 0 \/ foreign) => 0 .. Hosts \subseteq Pool!Taken
        BY <1>6, <2>2 DEF Pool!Taken
    <2>4. Pool!Refuse(n)
        BY <1>1, <1>1a, <1>8, <2>1, <2>3 DEF Pool!Refuse
    <2>5. QED
        BY <2>4
<1>9. ASSUME NEW done \in 0 .. 2, done = 2 => Allocates,
             Fault, AddNodeWrites(n, done), answer' = "error"
      PROVE  Pool!FailRequest(n)
    <2>1. (faults # 0)' = TRUE /\ (faults # 0 \/ foreign)' = TRUE
        BY <1>9, <1>2 DEF Fault
    <2>2. ip' = ip \/ (Allocates /\ ip' = [ip EXCEPT ![n] = NewIp])
        BY <1>9 DEF AddNodeWrites
    <2>3. QED
        BY <1>1, <1>3, <1>9, <2>1, <2>2 DEF Pool!FailRequest
<1>10. QED
    BY <1>7, <1>8, <1>9 DEF AddNode

(* Rows that are deleted release their addresses, and a statement that failed may
   have deleted them or not. *)
LEMMA DeletionMaps ==
    ASSUME IInv, NEW C \in SUBSET Node,
           \/ Delete(C) /\ UNCHANGED faults /\ (foreign => foreign')
           \/ Delete(C) /\ Fault
           \/ UNCHANGED <<ip, cert>> /\ Fault,
           fresh' = fresh, answer' = answer
    PROVE  Pool!Release(C) \/ Pool!FailRelease(C)
<1>1. Delete(C) => ip' = Pool!Released(C)
    BY DEF Delete, Pool!Released
<1>2. CASE Delete(C) /\ UNCHANGED faults /\ (foreign => foreign')
    <2>1. /\ (faults # 0)' = (faults # 0)
          /\ (faults # 0 \/ foreign)' \in BOOLEAN
          /\ (faults # 0 \/ foreign) => (faults # 0 \/ foreign)'
        BY <1>2
    <2>2. QED
        BY <1>1, <1>2, <2>1 DEF Pool!Release
<1>3. CASE Fault
    <2>1. (faults # 0)' = TRUE /\ (faults # 0 \/ foreign)' = TRUE
        BY <1>3, FaultType DEF IInv
    <2>2. ip' = ip \/ ip' = Pool!Released(C)
        BY <1>1
    <2>3. QED
        BY <2>1, <2>2 DEF Pool!FailRelease
<1>4. QED
    BY <1>2, <1>3

LEMMA StepMaps ==
    ASSUME IInv, [Next]_vars
    PROVE  [Pool!PoolNext]_<<Node \ fresh, ip, answer, faults # 0, faults # 0 \/ foreign>>
<1>1. CASE UNCHANGED vars
    BY <1>1 DEF vars
<1>2. CASE AddNetwork
    BY <1>2 DEF AddNetwork
<1>3. CASE DelNetwork
    <2>1. Node \in SUBSET Node
        OBVIOUS
    <2>2. /\ \/ Delete(Node) /\ UNCHANGED faults /\ (foreign => foreign')
             \/ Delete(Node) /\ Fault
             \/ UNCHANGED <<ip, cert>> /\ Fault
          /\ fresh' = fresh /\ answer' = answer
        BY <1>3 DEF DelNetwork, DropNetwork
    <2>3. Pool!Release(Node) \/ Pool!FailRelease(Node)
        BY <2>1, <2>2, DeletionMaps
    <2>4. QED
        BY <2>1, <2>3 DEF Pool!PoolNext
<1>4. ASSUME NEW n \in Node, AddNode(n)
      PROVE  Pool!PoolNext
    BY <1>4, AddNodeMaps DEF Pool!PoolNext
<1>5. ASSUME NEW n \in Node, DelNode(n)
      PROVE  Pool!PoolNext
    <2>1. {n} \in SUBSET Node
        OBVIOUS
    <2>2. Pool!Release({n}) \/ Pool!FailRelease({n})
        BY <1>5, <2>1, DeletionMaps DEF DelNode
    <2>3. QED
        BY <2>1, <2>2 DEF Pool!PoolNext
<1>6. QED
    BY <1>1, <1>2, <1>3, <1>4, <1>5 DEF Next

(* What nvctrler stores implements a pool of addresses, for a network of any size
   and with any number of faults: until the first fault a node is given an address that
   no other node has, and refused only when there is none or a client that is no owner
   deleted the network's nodes; and a fault gives
   an address to nobody but the node that is being added, and changes none but by
   releasing it. *)
THEOREM ImplementsAddresses == Spec => ImplementsPool
<1>1. IInv /\ [Next]_vars => [Pool!PoolNext]_<<Node \ fresh, ip, answer, faults # 0, faults # 0 \/ foreign>>
    BY StepMaps
<1>2. QED
    BY <1>1, InitMaps, Inductive, PTL DEF Spec, ImplementsPool, Pool!PoolSpec
=============================================================================
