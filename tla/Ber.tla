-------------------------------- MODULE Ber --------------------------------
(***************************************************************************)
(* The BER/DER run-time library of libnvcore/src/protocol: the part that   *)
(* encodes a message into octets and that decodes octets as they come, in  *)
(* pieces, keeping in the message being built the point it has reached.    *)
(*                                                                         *)
(* An octet is a number of 0..255, a buffer a sequence of octets.  A type  *)
(* descriptor (module DndsTypes) is a record with the kind of the type,    *)
(* its own tags, its members in order and its extension group.  A value is *)
(*   - a SEQUENCE: m, from the names of the members to <<>> (a NULL        *)
(*     pointer, or the zeroes of calloc) or <<value>>;                     *)
(*   - a CHOICE: the name present and the union m, likewise;               *)
(*   - a SEQUENCE OF: the list, and ptr, the element being decoded;        *)
(*   - a string: buf, <<>> or <<octets>>, and the unused bits;             *)
(*   - a long: its eight octets, most significant first, so that widths    *)
(*     and signs are those of the machine and no arithmetic is needed;     *)
(* and every constructed value carries the decoder's context: phase, step  *)
(* and left.                                                               *)
(*                                                                         *)
(* A decoder resumes the value it is given, in the phase its context says, *)
(* on the octets that follow those it said it had used.  It answers RC_OK, *)
(* RC_WMORE (it used what it could and wants more) or RC_FAIL, the octets  *)
(* used, and the value as far as it has got.  This module has the tags and *)
(* lengths and the types without members; BerTypes the constructed ones.   *)
(*                                                                         *)
(* Definite lengths only: nothing in the program writes the indefinite     *)
(* form or a string in constructed form, and a CASE that meets one has no  *)
(* answer.                                                                 *)
(***************************************************************************)
EXTENDS Integers, Sequences

RC_OK    == "RC_OK"
RC_WMORE == "RC_WMORE"
RC_FAIL  == "RC_FAIL"

From(b, n) == SubSeq(b, n + 1, Len(b))
Upto(b, n) == SubSeq(b, 1, n)

-----------------------------------------------------------------------------
(* Tags and lengths.  A tag is 4 * number + class; "len" is how many octets *)
(* were read, 0 when more are wanted and -1 when the octets are no tag.     *)

Context(n)   == 4 * n + 2
Universal(n) == 4 * n
Constructed(b) == (b[1] \div 32) % 2

WantMore  == [len |-> 0, val |-> 0]
Malformed == [len |-> -1, val |-> 0]

(* The number whose digits are those of the octets o, four at most. *)
Number(o, base) ==
  LET Digit(i) == IF i < Len(o) THEN o[Len(o) - i] % base ELSE 0
  IN  Digit(0) + base * (Digit(1) + base * (Digit(2) + base * Digit(3)))

ber_fetch_tag(b) ==
  LET class == b[1] \div 64
      ends  == {i \in 2..Len(b) : b[i] < 128}
      last  == CHOOSE i \in ends : \A j \in ends : i =< j
  IN  IF b = <<>> THEN WantMore
      ELSE IF b[1] % 32 < 31
           THEN [len |-> 1, val |-> 4 * (b[1] % 32) + class]
      ELSE IF ends = {}
           THEN IF Len(b) > 4 THEN Malformed ELSE WantMore
      ELSE IF last > 5 THEN Malformed
      ELSE [len |-> last,
            val |-> 4 * Number(SubSeq(b, 2, last), 128) + class]

ber_fetch_length(constructed, b) ==
  LET octets == b[1] % 128
  IN  IF b = <<>> THEN WantMore
      ELSE IF b[1] < 128 THEN [len |-> 1, val |-> b[1]]
      ELSE IF b[1] = 255 THEN Malformed
      ELSE IF Len(b) =< octets THEN WantMore
      ELSE [len |-> 1 + octets,
            val |-> CASE octets \in 1..3 \/ (octets = 0 /\ constructed = 0) ->
                           Number(SubSeq(b, 2, 1 + octets), 256)]

(* The octets of the length and of the contents of an unknown member. *)
ber_skip_length(constructed, b) ==
  LET l == ber_fetch_length(constructed, b)
  IN  IF l.len =< 0 THEN l.len
      ELSE IF l.len + l.val > Len(b) THEN 0 ELSE l.len + l.val

ber_tlv_tag_serialize(tag) == <<64 * (tag % 4) + tag \div 4>>

der_tlv_length_serialize(n) ==
  IF n =< 127 THEN <<n>>
  ELSE IF n =< 255 THEN <<129, n>>
  ELSE IF n \div 256 =< 255 THEN <<130, n \div 256, n % 256>>
  ELSE <<131, (n \div 256) \div 256, (n \div 256) % 256, n % 256>>

-----------------------------------------------------------------------------
(* Writing the tags of a value of "size" octets.  mode 0: the tags of the  *)
(* type; -1 (IMPLICIT): tag in the place of the first one; +1 (EXPLICIT):  *)
(* tag before them.  "form" says whether the innermost is constructed.     *)

der_write_TL(tag, len, constructed) ==
  <<ber_tlv_tag_serialize(tag)[1] + 32 * constructed>>
    \o der_tlv_length_serialize(len)

der_write_tags(td, size, mode, form, tag) ==
  LET tags == CASE mode = 0  -> td.tags
                [] mode = 1  -> <<tag>> \o td.tags
                [] mode = -1 -> <<tag>> \o From(td.tags, 1)
      n    == Len(tags)
      TL(i, inner) ==
        der_write_TL(tags[i], size + Len(inner), IF i < n THEN 1 ELSE form) \o inner
      Header[i \in 1..(n + 1)] == IF i > n THEN <<>> ELSE TL(i, Header[i + 1])
  IN  Header[1]

-----------------------------------------------------------------------------
(* Checking the chain of tags of a value, from the "step"-th of it on.  The *)
(* first one of a tagged value was chosen by the caller and is not looked   *)
(* at again.  "left" is the length of the contents.                         *)

TagCheck(code, used, step, left, constr) ==
  [code |-> code, used |-> used, step |-> step, left |-> left, constr |-> constr]

(* A turn of the loop, the tag of place no: c is what the turns before it   *)
(* found, of the octets b.  t and l are the tag and the length read.        *)
CheckTag(td, no, b, mode, form, c) ==
  LET rest == From(IF c.left = -1 \/ Len(b) =< c.used + c.left THEN b
                   ELSE Upto(b, c.used + c.left), c.used)
      t    == ber_fetch_tag(rest)
      con  == Constructed(rest)
      l    == ber_fetch_length(con, From(rest, t.len))
      last == no = Len(td.tags)
      size == t.len + l.len
      known == mode # 0 /\ c.step = 0
      Stop(code) == TagCheck(code, c.used, c.step, -1, -1)
  IN  IF c.code # RC_OK THEN c
      ELSE IF t.len = 0 THEN Stop(RC_WMORE)
      ELSE IF \/ t.len = -1
              \/ ~known /\ t.val # td.tags[no]
              \/ ~last /\ con = 0
              \/ last /\ form \notin {-1, con}
           THEN Stop(RC_FAIL)
      ELSE IF l.len = 0 THEN Stop(RC_WMORE)
      ELSE IF l.len = -1 \/ c.left \notin {-1, l.val + size} THEN Stop(RC_FAIL)
      ELSE TagCheck(RC_OK, c.used + size, c.step + 1, l.val, con)

ber_check_tags(td, step, b, mode, form) ==
  LET first == step + IF mode = 1 THEN 0 ELSE 1
      start == TagCheck(RC_OK, 0, step, -1, -1)
      Checked[no \in (first - 1)..Len(td.tags)] ==
        IF no < first THEN start
        ELSE CheckTag(td, no, b, mode, form, Checked[no - 1])
  IN  Checked[Len(td.tags)]

-----------------------------------------------------------------------------
(* The octets of a long that holds the int n. *)
Long(n) == [i \in 1..8 |-> IF i =< 4 THEN (IF n < 0 THEN 255 ELSE 0)
                           ELSE (n \div 256 ^ (8 - i)) % 256]

(* What calloc gives: the NULL pointer is <<>>. *)
calloc(td) ==
  CASE td.kind = "SEQUENCE" ->
         [phase |-> 0, step |-> 0, left |-> 0,
          m |-> [name \in {td.els[i].name : i \in DOMAIN td.els} |-> <<>>]]
    [] td.kind = "CHOICE" ->
         [phase |-> 0, step |-> 0, left |-> 0, present |-> "NOTHING", m |-> <<>>]
    [] td.kind = "SEQUENCE_OF" ->
         [phase |-> 0, step |-> 0, left |-> 0, list |-> <<>>, ptr |-> <<>>]
    [] td.kind \in {"OCTET_STRING", "BIT_STRING"} ->
         [phase |-> 0, step |-> 0, left |-> 0, buf |-> <<>>, unused |-> 0]
    [] td.kind = "INTEGER" -> Long(0)
    [] td.kind = "NULL" -> <<FALSE>>

Target(td, p) == IF p = <<>> THEN calloc(td) ELSE p[1]

Answer(code, used, st) == [code |-> code, used |-> used, st |-> st]

(* The tags and the length before the contents: of a constructed value, of a *)
(* primitive one.  There are none when the contents could not be encoded.     *)
Enclosed(td, body, mode, form, tag) ==
  IF body = <<>> THEN <<>>
  ELSE <<der_write_tags(td, Len(body[1]), mode, form, tag) \o body[1]>>

(* A primitive value: its tags and its contents. *)
Contents(td, octets, mode, tag) == Enclosed(td, <<octets>>, mode, 0, tag)

-----------------------------------------------------------------------------
(* Primitive types. *)

(* Superfluous leading octets of a number. *)
Superfluous(o, i) ==
  \A j \in 1..i : /\ j < Len(o)
                  /\ \/ o[j] = 0 /\ o[j + 1] < 128
                     \/ o[j] = 255 /\ o[j + 1] >= 128

INTEGER_encode_der(o) ==
  From(o, CHOOSE i \in 0..(Len(o) - 1) :
            Superfluous(o, i) /\ ~Superfluous(o, i + 1))

asn_INTEGER2long(o) ==
  LET s == IF Len(o) > 8 THEN INTEGER_encode_der(o) ELSE o
      sign == IF s # <<>> /\ s[1] >= 128 THEN 255 ELSE 0
  IN  IF Len(s) > 8 THEN <<>> ELSE [i \in 1..(8 - Len(s)) |-> sign] \o s

asn_INTEGER2ulong(o) ==
  LET n == Len(o)
  IN  IF n =< 8 THEN [i \in 1..(8 - n) |-> 0] \o o
      ELSE IF \A i \in 1..(n - 8) : o[i] = 0 THEN From(o, n - 8) ELSE <<>>

(* A number or a NULL is decoded at once: all of it, or nothing. *)
DecodeWhole(td, st, b, mode, Value(_)) ==
  LET Octets(c) == Upto(From(b, c.used), c.left)
      Read(c, val) ==
        IF c.code # RC_OK THEN Answer(c.code, 0, st)
        ELSE IF c.left > Len(b) - c.used THEN Answer(RC_WMORE, 0, st)
        ELSE IF val = <<>> THEN Answer(RC_FAIL, 0, st)
        ELSE Answer(RC_OK, c.used + c.left, val)
      Checked(c) == Read(c, Value(Octets(c)))
  IN  Checked(ber_check_tags(td, 0, b, mode, 0))

NativeInteger_decode_ber(td, st, b, mode) ==
  LET Value(o) == IF td.unsigned THEN asn_INTEGER2ulong(o) ELSE asn_INTEGER2long(o)
  IN  DecodeWhole(td, st, b, mode, Value)

BOOLEAN_decode_ber(td, st, b, mode) ==
  LET Value(o) == <<o # <<>>>> IN DecodeWhole(td, st, b, mode, Value)

-----------------------------------------------------------------------------
(* A decoder's position: the value, the octets ahead, those used. *)

At(st, b) == [st |-> st, b |-> b, used |-> 0]

ADVANCE(d, n) ==
  [st |-> [d.st EXCEPT !.left = IF @ >= 0 THEN @ - n ELSE @],
   b |-> From(d.b, n), used |-> d.used + n]

LEFT(d) ==
  IF d.st.left < 0 \/ Len(d.b) < d.st.left THEN d.b ELSE Upto(d.b, d.st.left)

SIZE_VIOLATION(d) == d.st.left >= 0 /\ d.st.left =< Len(d.b)

RETURN(code, d) == Answer(code, d.used, d.st)

(* More octets are wanted: an error when the value should be all there. *)
More(d) == RETURN(IF SIZE_VIOLATION(d) THEN RC_FAIL ELSE RC_WMORE, d)

PHASE_OUT(d) == RETURN(RC_OK, [d EXCEPT !.st.phase = 10])

(* Phase 0 of every constructed type and string: the tags; then Body. *)
Tagged(td, st, b, mode, form, Body(_, _)) ==
  LET Checked(c) ==
        IF c.code # RC_OK
        THEN Answer(c.code, c.used, [st EXCEPT !.step = c.step])
        ELSE Body([st |-> [st EXCEPT !.phase = 1, !.step = 0, !.left = c.left],
                   b |-> From(b, c.used), used |-> c.used], c.constr)
  IN  Checked(ber_check_tags(td, st.step, b, mode, form))

-----------------------------------------------------------------------------
(* Strings, in primitive form.  The first octet of a BIT STRING counts its *)
(* unused bits; it is taken when nothing has been allocated yet.           *)

APPEND_Overwrites(st, chunk) == chunk
APPEND(st, chunk) == IF st.buf = <<>> THEN chunk ELSE st.buf[1] \o chunk

StringChunk(td, d) ==
  LET first == td.kind = "BIT_STRING" /\ d.st.buf = <<>> /\ d.st.left > 0
      n     == IF first THEN 1 ELSE 0
      ahead == From(d.b, n)
      left  == d.st.left - n
      chunk == IF Len(ahead) < left THEN ahead ELSE Upto(ahead, left)
      got   == APPEND(d.st, chunk)
      unused == IF first THEN d.b[1] ELSE d.st.unused
      Mask(o) == o - (o % (2 ^ unused))
      masked == IF td.kind = "BIT_STRING" /\ got # <<>>
                THEN [got EXCEPT ![Len(got)] = Mask(@)] ELSE got
      Taken(code, phase, buf) ==
        Answer(code, d.used + n + Len(chunk),
               [phase |-> phase, step |-> d.st.step, left |-> left - Len(chunk),
                buf |-> <<buf>>, unused |-> unused])
  IN  IF Len(d.b) >= d.st.left THEN Taken(RC_OK, 4, masked)
      ELSE IF d.b # <<>> THEN Taken(RC_WMORE, 3, got)
      ELSE Answer(RC_WMORE, d.used, [d.st EXCEPT !.phase = 3])

OCTET_STRING_decode_ber(td, st, b, mode) ==
  LET Primitive(d, constr) ==
        CASE constr = 0 -> StringChunk(td, d)
  IN  CASE st.phase = 0 -> Tagged(td, st, b, mode, -1, Primitive)
        [] st.phase = 3 -> StringChunk(td, At(st, b))
        [] st.phase = 4 -> RETURN(RC_OK, At(st, b))

OCTET_STRING_encode_der(td, st, mode, tag) ==
  LET octets == IF st.buf = <<>> THEN <<>> ELSE st.buf[1]
      n      == Len(octets)
      unused == st.unused % 8
      body   == IF td.kind = "OCTET_STRING" THEN octets
                ELSE <<unused>> \o
                     [i \in 1..n |-> IF i < n THEN octets[i]
                                     ELSE octets[i] - (octets[i] % (2 ^ unused))]
  IN  Contents(td, body, mode, tag)
=============================================================================
