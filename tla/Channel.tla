------------------------------ MODULE Channel ------------------------------
(***************************************************************************)
(* What netbus promises the programs above it: each end is handed, in      *)
(* order and once, the messages that the other end sent, for as long as it *)
(* has the connection.  Messages may arrive several at a time, and an end  *)
(* may answer in the same step.                                            *)
(***************************************************************************)
EXTENDS Sequences, SequencesExt

CONSTANT End

VARIABLES sent, got, open

ChannelInit ==
  /\ sent = [e \in End |-> <<>>]
  /\ got = [e \in End |-> <<>>]
  /\ open = {}

Open(e) ==
  /\ e \notin open /\ sent[e] = <<>> /\ got[e] = <<>>
  /\ open' = open \union {e}
  /\ UNCHANGED <<sent, got>>

(* An end is handed messages, and sends some. *)
Work(e) ==
  /\ e \in open
  /\ \E f \in End \ {e} : IsPrefix(got'[e], sent[f])
  /\ IsPrefix(got[e], got'[e]) /\ IsPrefix(sent[e], sent'[e])
  /\ \A f \in End \ {e} : sent'[f] = sent[f] /\ got'[f] = got[f]
  /\ open' \in {open, open \ {e}}

ChannelSpec ==
  ChannelInit /\ [][\E e \in End : Open(e) \/ Work(e)]_<<sent, got, open>>
=============================================================================
