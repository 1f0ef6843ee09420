---------------------------- MODULE AddressPool ----------------------------
(***************************************************************************)
(* What the addresses of a virtual network promise its nodes, whatever is  *)
(* stored for them: a node asks once, it is given an address that no other *)
(* node has, it is refused only when there is none, and it keeps the       *)
(* address until that is released.  Once something has failed an address   *)
(* may be given twice or be lost; it still never changes under a node, and *)
(* no node but the one that asks is given any.  A release by somebody who  *)
(* may not may lose addresses too, but gives none twice.                   *)
(***************************************************************************)
EXTENDS Integers

CONSTANTS Client, Address, None

VARIABLES
    asked,      \* who asked so far
    holds,      \* the address of each client, or None
    answer,     \* what the last one was told
    failed,     \* did anything fail so far?
    leaked      \* may an address be lost?

Taken == {holds[c] : c \in Client}

PoolInit ==
    /\ asked = {}
    /\ holds = [c \in Client |-> None]
    /\ answer = "success"
    /\ failed = FALSE
    /\ leaked = FALSE

Ask(c) == c \notin asked /\ asked' = asked \cup {c}

Grant(c) ==
    /\ Ask(c)
    /\ \E a \in Address :
          /\ ~failed => a \notin Taken
          /\ holds' = [holds EXCEPT ![c] = a]
    /\ answer' = "success"
    /\ UNCHANGED <<failed, leaked>>

Refuse(c) ==
    /\ Ask(c)
    /\ ~leaked => Address \subseteq Taken
    /\ answer' = "error"
    /\ UNCHANGED <<holds, failed, leaked>>

Released(C) == [c \in Client |-> IF c \in C THEN None ELSE holds[c]]

(* Addresses may be lost from here on: who released them may not have had the right. *)
Release(C) ==
    /\ holds' = Released(C)
    /\ leaked' \in BOOLEAN /\ (leaked => leaked')
    /\ UNCHANGED <<asked, answer, failed>>

(* A request that failed may have given an address to the one that asked. *)
FailRequest(c) ==
    /\ Ask(c)
    /\ holds' = holds \/ \E a \in Address : holds' = [holds EXCEPT ![c] = a]
    /\ answer' = "error"
    /\ failed' = TRUE /\ leaked' = TRUE

(* A release that failed may have been one. *)
FailRelease(C) ==
    /\ holds' \in {holds, Released(C)}
    /\ failed' = TRUE /\ leaked' = TRUE
    /\ UNCHANGED <<asked, answer>>

PoolNext ==
    \/ \E c \in Client : Grant(c) \/ Refuse(c) \/ FailRequest(c)
    \/ \E C \in SUBSET Client : Release(C) \/ FailRelease(C)

PoolSpec == PoolInit /\ [][PoolNext]_<<asked, holds, answer, failed, leaked>>
=============================================================================
