------------------------------ MODULE BerTypes ------------------------------
(***************************************************************************)
(* The constructed types of the run-time library: SEQUENCE, CHOICE and     *)
(* SEQUENCE OF, encoded and decoded, over the types of module Ber.         *)
(***************************************************************************)
EXTENDS Ber, SequencesExt

RECURSIVE ber_decode(_, _, _, _)
RECURSIVE SequenceMembers(_, _, _)
RECURSIVE SequenceRest(_, _)
RECURSIVE SetOfItems(_, _)

(* SEQUENCE.  IN_EXTENSION_GROUP: where unknown members may be. *)

IN_EXTENSION_GROUP_LastOut(td, i) == i > td.ext[1] /\ i < td.ext[2] - 1
IN_EXTENSION_GROUP(td, i) == i > td.ext[1] /\ i < td.ext[2]

(* Phases 3 and 4: whatever follows the known members is skipped. *)
SequenceRest(td, d) ==
  LET t    == ber_fetch_tag(LEFT(d))
      skip == ber_skip_length(Constructed(d.b), From(LEFT(d), t.len))
  IN  IF d.st.left = 0 THEN PHASE_OUT(d)
      ELSE IF t.len = 0 THEN More(d)
      ELSE IF t.len = -1 \/ ~IN_EXTENSION_GROUP(td, Len(td.els))
           THEN RETURN(RC_FAIL, d)
      ELSE IF skip = 0 THEN More(d)
      ELSE IF skip = -1 THEN RETURN(RC_FAIL, d)
      ELSE SequenceRest(td, ADVANCE(d, t.len + skip))

(* Microphase 2: the decoder of the member at place i. *)
SequenceMember(td, d, i) ==
  LET el == td.els[i + 1]
      Read(r) ==
        LET d1 == ADVANCE([d EXCEPT !.st.m[el.name] = <<r.st>>], r.used)
        IN  CASE r.code = RC_OK ->
                   SequenceMembers(td, [d1 EXCEPT !.st.step = 2 * i + 2], i + 1)
              [] r.code = RC_WMORE /\ ~SIZE_VIOLATION(d) -> RETURN(RC_WMORE, d1)
              [] OTHER -> RETURN(RC_FAIL, d1)
  IN  Read(ber_decode(el.type, d.st.m[el.name], LEFT(d), el.mode))

(* Microphase 1: the tag says which member comes, among the next one and    *)
(* the optional ones that may be left out before it.                        *)
SequenceMembers(td, d, i) ==
  LET n    == Len(td.els)
      opt  == td.els[i + 1].optional
      t    == ber_fetch_tag(LEFT(d))
      ends == i + opt = n \/ (IN_EXTENSION_GROUP(td, i) /\ td.ext[2] > n)
      known == {k \in i..(i + opt) : k < n /\ td.els[k + 1].tag = t.val}
      skip == ber_skip_length(Constructed(d.b), From(LEFT(d), t.len))
  IN  IF i = n THEN SequenceRest(td, [d EXCEPT !.st.phase = 3])
      ELSE IF d.st.step % 2 = 1 THEN SequenceMember(td, d, i)
      ELSE IF d.st.left = 0 /\ ends THEN PHASE_OUT(d)
      ELSE IF t.len = 0 THEN More(d)
      ELSE IF t.len = -1 THEN RETURN(RC_FAIL, d)
      ELSE IF known # {}
           THEN LET k == CHOOSE k \in known : \A j \in known : k =< j
                IN  SequenceMember(td, [d EXCEPT !.st.step = 2 * k + 1], k)
      ELSE IF ~IN_EXTENSION_GROUP(td, i + opt) \/ skip = -1
           THEN RETURN(RC_FAIL, d)
      ELSE IF skip = 0 THEN More(d)
      ELSE SequenceMembers(td, ADVANCE(d, t.len + skip), i + opt)

SEQUENCE_decode_ber(td, st, b, mode) ==
  LET Members(d, constr) == SequenceMembers(td, d, 0)
  IN  CASE st.phase = 0 -> Tagged(td, st, b, mode, 1, Members)
        [] st.phase = 1 -> SequenceMembers(td, At(st, b), st.step \div 2)
        [] st.phase = 3 -> SequenceRest(td, At(st, b))
        [] st.phase = 10 -> RETURN(RC_OK, At(st, b))

-----------------------------------------------------------------------------
(* CHOICE.  The member being read is step; an unknown one is skipped when   *)
(* the type is extensible, and nothing is then present.                     *)

ChoiceEnd(d) ==
  IF d.st.left > 0 THEN RETURN(RC_FAIL, d)
  ELSE RETURN(RC_OK, [d EXCEPT !.st.phase = 4])

ChoiceMember(td, d0) ==
  LET el == td.els[d0.st.step]
      d  == [d0 EXCEPT !.st.present = el.name]
      Read(r) ==
        LET d1 == ADVANCE([d EXCEPT !.st.m = <<r.st>>], r.used)
        IN  CASE r.code = RC_OK ->
                   ChoiceEnd([d1 EXCEPT !.st.phase = 3, !.st.step = 0])
              [] r.code = RC_WMORE /\ ~SIZE_VIOLATION(d) -> RETURN(RC_WMORE, d1)
              [] OTHER -> RETURN(RC_FAIL, d1)
  IN  Read(ber_decode(el.type, d.st.m, LEFT(d), el.mode))

ChoiceTag(td, d) ==
  LET t     == ber_fetch_tag(LEFT(d))
      known == {k \in DOMAIN td.els : td.els[k].tag = t.val}
      skip  == ber_skip_length(Constructed(d.b), From(LEFT(d), t.len))
  IN  IF t.len = 0 THEN More(d)
      ELSE IF t.len = -1 THEN RETURN(RC_FAIL, d)
      ELSE IF known # {}
           THEN ChoiceMember(td, [d EXCEPT !.st.phase = 2,
                                           !.st.step = CHOOSE k \in known : TRUE])
      ELSE IF skip = 0 THEN More(d)
      ELSE IF skip = -1 \/ td.ext[1] = -1 THEN RETURN(RC_FAIL, d)
      ELSE RETURN(RC_OK, ADVANCE(d, t.len + skip))

CHOICE_decode_ber(td, st, b, mode) ==
  LET Tag(d, constr) == ChoiceTag(td, d)
  IN  CASE st.phase = 0 /\ (mode # 0 \/ td.tags # <<>>) ->
             Tagged(td, st, b, mode, -1, Tag)
        [] st.phase = 0 /\ mode = 0 /\ td.tags = <<>> ->
             ChoiceTag(td, At([st EXCEPT !.phase = 1, !.left = -1], b))
        [] st.phase = 1 -> ChoiceTag(td, At(st, b))
        [] st.phase = 2 -> ChoiceMember(td, At(st, b))
        [] st.phase = 3 -> ChoiceEnd(At(st, b))
        [] st.phase = 4 -> RETURN(RC_OK, At(st, b))

-----------------------------------------------------------------------------
(* SEQUENCE OF: the elements are added to the list as they are complete.    *)

SetOfItems(td, d) ==
  LET el == td.els[1]
      t  == ber_fetch_tag(LEFT(d))
      Read(r) ==
        LET d1 == ADVANCE([d EXCEPT !.st.ptr = <<r.st>>, !.st.step = 1], r.used)
        IN  CASE r.code = RC_OK ->
                   SetOfItems(td, [d1 EXCEPT !.st.list = Append(@, r.st),
                                             !.st.ptr = <<>>, !.st.step = 0])
              [] r.code = RC_WMORE /\ ~SIZE_VIOLATION(d) -> RETURN(RC_WMORE, d1)
              [] OTHER -> RETURN(RC_FAIL, [d1 EXCEPT !.st.ptr = <<>>])
  IN  IF d.st.step = 0 /\ d.st.left = 0 THEN PHASE_OUT(d)
      ELSE IF d.st.step = 0 /\ t.len = 0 THEN More(d)
      ELSE IF d.st.step = 0 /\ (t.len = -1 \/ el.tag \notin {-1, t.val})
           THEN RETURN(RC_FAIL, d)
      ELSE Read(ber_decode(el.type, d.st.ptr, LEFT(d), 0))

SET_OF_decode_ber(td, st, b, mode) ==
  LET Items(d, constr) == SetOfItems(td, d)
  IN  CASE st.phase = 0 -> Tagged(td, st, b, mode, 1, Items)
        [] st.phase = 1 -> SetOfItems(td, At(st, b))
        [] st.phase = 10 -> RETURN(RC_OK, At(st, b))

-----------------------------------------------------------------------------
(* The decoder of any type, on a value that is allocated if it is not there. *)
ber_decode(td, p, b, mode) ==
  LET st == Target(td, p)
  IN  CASE td.kind = "SEQUENCE"    -> SEQUENCE_decode_ber(td, st, b, mode)
        [] td.kind = "CHOICE"      -> CHOICE_decode_ber(td, st, b, mode)
        [] td.kind = "SEQUENCE_OF" -> SET_OF_decode_ber(td, st, b, mode)
        [] td.kind \in {"OCTET_STRING", "BIT_STRING"} ->
             OCTET_STRING_decode_ber(td, st, b, mode)
        [] td.kind = "INTEGER"     -> NativeInteger_decode_ber(td, st, b, mode)
        [] td.kind = "NULL"        -> BOOLEAN_decode_ber(td, st, b, mode)

-----------------------------------------------------------------------------
(* Encoding.  The answer is <<octets>>, or <<>> when a member is missing or *)
(* a CHOICE has none: the sizes are computed before anything is written, so *)
(* a failure writes nothing.                                                *)

RECURSIVE der_encode(_, _, _, _)

(* The members one after the other; one that fails makes the whole fail. *)
Members_der(list, Encoded(_)) ==
  LET Add(body, part) == IF body = <<>> \/ part = <<>> THEN <<>>
                         ELSE <<body[1] \o part[1]>>
      Next(body, x) == Add(body, Encoded(x))
  IN  FoldLeft(Next, << <<>> >>, list)

SEQUENCE_encode_der(td, st, mode, tag) ==
  LET Written(el) == el.optional = 0 \/ st.m[el.name] # <<>>
      Encoded(el) == der_encode(el.type, Target(el.type, st.m[el.name]), el.mode, el.tag)
  IN  Enclosed(td, Members_der(SelectSeq(td.els, Written), Encoded), mode, 1, tag)

CHOICE_encode_der(td, st, mode, tag) ==
  LET k  == CHOOSE k \in DOMAIN td.els : td.els[k].name = st.present
      el == td.els[k]
      member == der_encode(el.type, Target(el.type, st.m), el.mode, el.tag)
  IN  IF st.present = "NOTHING" THEN <<>>
      ELSE IF mode = 1 \/ td.tags # <<>> THEN Enclosed(td, member, mode, 1, tag)
      ELSE member

SEQUENCE_OF_encode_der(td, st, mode, tag) ==
  LET Encoded(item) == der_encode(td.els[1].type, item, 0, td.els[1].tag)
  IN  Enclosed(td, Members_der(st.list, Encoded), mode, 1, tag)

der_encode(td, st, mode, tag) ==
  CASE td.kind = "SEQUENCE"    -> SEQUENCE_encode_der(td, st, mode, tag)
    [] td.kind = "CHOICE"      -> CHOICE_encode_der(td, st, mode, tag)
    [] td.kind = "SEQUENCE_OF" -> SEQUENCE_OF_encode_der(td, st, mode, tag)
    [] td.kind \in {"OCTET_STRING", "BIT_STRING"} ->
         OCTET_STRING_encode_der(td, st, mode, tag)
    [] td.kind = "INTEGER" -> Contents(td, INTEGER_encode_der(st), mode, tag)
    [] td.kind = "NULL"    -> Contents(td, <<>>, mode, tag)
=============================================================================
