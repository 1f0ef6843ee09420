---------------------------- MODULE NetbusProofs ----------------------------
(***************************************************************************)
(* For a stream cut anywhere, any number of frames, a provisioning, a      *)
(* hello read too early and a break at any moment: nothing is left in a    *)
(* buffer unless the hello was, only four messages travel under the        *)
(* anonymous keys, and netbus implements the ordered channel.  The last    *)
(* part is about the octets of a message: lengths, headers, numbers and    *)
(* strings are read back as they were written, in any number of pieces.    *)
(***************************************************************************)
EXTENDS NetbusProps, Ber, SequenceTheorems, WellFoundedInduction, TLAPS

-----------------------------------------------------------------------------
(* Naturals and sequences. *)

(* A non-empty set of naturals has a least element. *)
LEMMA LeastExists ==
    ASSUME NEW S \in SUBSET Nat, S # {}
    PROVE  \E b \in S : \A c \in S : b <= c
<1> DEFINE R == {ss \in Nat \X Nat : ss[1] < ss[2]}
<1>1. IsWellFoundedOn(R, Nat) BY NatLessThanWellFounded DEF OpToRel
<1> HIDE DEF R
<1>2. PICK b \in S : \A c \in S : ~ (<<c, b>> \in R) BY <1>1, WFMin
<1>3. ASSUME NEW c \in S
      PROVE  b <= c
  <2>1. ~ (<<c, b>> \in R) BY <1>2
  <2>2. b \in Nat /\ c \in Nat OBVIOUS
  <2>3. QED BY <2>1, <2>2 DEF R
<1>4. QED BY <1>3

(* Induction up to a bound, for a set of naturals instead of a predicate. *)
LEMMA Induction ==
    ASSUME NEW n \in Nat, NEW S, 0 \in S,
           \A i \in 0 .. n - 1 : i \in S => i + 1 \in S
    PROVE  0 .. n \subseteq S
<1> DEFINE T == {i \in 0 .. n : i \notin S}
<1>1. ASSUME T # {} PROVE FALSE
  <2>1. T \in SUBSET Nat OBVIOUS
  <2>2. PICK b \in T : \A c \in T : b <= c BY <1>1, <2>1, LeastExists
  <2>3. b \in 1 .. n OBVIOUS
  <2>4. b - 1 \in 0 .. n - 1 /\ b - 1 \in 0 .. n /\ ~(b <= b - 1) BY <2>3
  <2>5. b - 1 \in S BY <2>2, <2>4
  <2>6. (b - 1) + 1 \in S BY <2>4, <2>5
  <2>7. QED BY <2>3, <2>6
<1>2. QED BY <1>1

(* A sequence is cut in two and put together again. *)
LEMMA CutAndJoin ==
    ASSUME NEW S, NEW s \in Seq(S), NEW n \in 0 .. Len(s)
    PROVE  /\ SubSeq(s, 1, n) \in Seq(S) /\ Len(SubSeq(s, 1, n)) = n
           /\ SubSeq(s, n + 1, Len(s)) \in Seq(S) /\ Len(SubSeq(s, n + 1, Len(s))) = Len(s) - n
           /\ SubSeq(s, 1, n) \o SubSeq(s, n + 1, Len(s)) = s
           /\ \A i \in 1 .. n : SubSeq(s, 1, n)[i] = s[i]
           /\ \A i \in 1 .. Len(s) - n : SubSeq(s, n + 1, Len(s))[i] = s[n + i]
<1>1. Len(s) \in Nat /\ \A i \in 1 .. Len(s) : s[i] \in S BY LenProperties, ElementOfSeq
<1>2. /\ SubSeq(s, 1, n) \in Seq(S) /\ Len(SubSeq(s, 1, n)) = n
      /\ \A i \in 1 .. n : SubSeq(s, 1, n)[i] = s[i]
  <2>1. \A i \in 1 .. n : s[i] \in S BY <1>1
  <2>2. /\ SubSeq(s, 1, n) \in Seq(S)
        /\ Len(SubSeq(s, 1, n)) = IF 1 <= n THEN n - 1 + 1 ELSE 0
        /\ \A i \in 1 .. n - 1 + 1 : SubSeq(s, 1, n)[i] = s[1 + i - 1]
    BY <2>1, SubSeqProperties
  <2>3. QED BY <2>2
<1>3. /\ SubSeq(s, n + 1, Len(s)) \in Seq(S) /\ Len(SubSeq(s, n + 1, Len(s))) = Len(s) - n
      /\ \A i \in 1 .. Len(s) - n : SubSeq(s, n + 1, Len(s))[i] = s[n + i]
  <2> DEFINE m == n + 1
             l == Len(s)
  <2>1. m \in Int /\ l \in Int /\ \A i \in m .. l : s[i] \in S BY <1>1
  <2>2. /\ SubSeq(s, m, l) \in Seq(S)
        /\ Len(SubSeq(s, m, l)) = IF m <= l THEN l - m + 1 ELSE 0
        /\ \A i \in 1 .. l - m + 1 : SubSeq(s, m, l)[i] = s[m + i - 1]
    <3> HIDE DEF m, l
    <3>1. QED BY <2>1, SubSeqProperties
  <2>3. QED BY <1>1, <2>2
<1>4. SubSeq(s, 1, n) \o SubSeq(s, n + 1, Len(s)) = s
  <2> DEFINE a == SubSeq(s, 1, n)
             b == SubSeq(s, n + 1, Len(s))
  <2>1. /\ a \in Seq(S) /\ Len(a) = n /\ \A i \in 1 .. n : a[i] = s[i]
        /\ b \in Seq(S) /\ Len(b) = Len(s) - n
        /\ \A i \in 1 .. Len(s) - n : b[i] = s[n + i]
    BY <1>2, <1>3
  <2> HIDE DEF a, b
  <2>2. /\ a \o b \in Seq(S) /\ Len(a \o b) = Len(a) + Len(b)
        /\ \A i \in 1 .. Len(a) + Len(b) :
             (a \o b)[i] = IF i <= Len(a) THEN a[i] ELSE b[i - Len(a)]
    BY <2>1, ConcatProperties
  <2>3. Len(a \o b) = Len(s) BY <1>1, <2>1, <2>2
  <2>4. ASSUME NEW i \in 1 .. Len(s) PROVE (a \o b)[i] = s[i]
    <3>1. CASE i <= n BY <3>1, <1>1, <2>1, <2>2
    <3>2. CASE ~(i <= n)
      <4>1. i - n \in 1 .. Len(s) - n /\ n + (i - n) = i BY <3>2, <1>1
      <4>2. b[i - n] = s[i] BY <4>1, <2>1
      <4>3. QED BY <3>2, <4>2, <1>1, <2>1, <2>2
    <3>3. QED BY <3>1, <3>2
  <2>5. QED BY <2>2, <2>3, <2>4, SeqEqual DEF a, b
<1>5. QED BY <1>2, <1>3, <1>4

(* A function on an initial segment is a sequence of that length. *)
LEMMA FunctionIsSeq ==
    ASSUME NEW S, NEW n \in Nat, NEW f \in [1 .. n -> S]
    PROVE  f \in Seq(S) /\ Len(f) = n
<1>1. f \in Seq(S) BY SeqDef
<1>2. DOMAIN f = 1 .. n /\ DOMAIN f = 1 .. Len(f) /\ Len(f) \in Nat BY <1>1, LenProperties
<1>3. QED BY <1>1, <1>2

(* What is cut from a sequence that was put together. *)
LEMMA CutOfJoin ==
    ASSUME NEW S, NEW s \in Seq(S), NEW t \in Seq(S), NEW n \in 0 .. Len(t)
    PROVE  /\ SubSeq(s \o t, 1, Len(s) + n) = s \o SubSeq(t, 1, n)
           /\ SubSeq(s \o t, Len(s) + n + 1, Len(s \o t)) = SubSeq(t, n + 1, Len(t))
<1> DEFINE l == Len(s) + n
           u == s \o t
<1>1. /\ Len(s) \in Nat /\ Len(t) \in Nat
      /\ u \in Seq(S) /\ Len(u) = Len(s) + Len(t)
      /\ \A i \in 1 .. Len(s) + Len(t) : u[i] = IF i <= Len(s) THEN s[i] ELSE t[i - Len(s)]
  BY LenProperties, ConcatProperties
<1> HIDE DEF u
<1>2. l \in 0 .. Len(u) BY <1>1
<1> HIDE DEF l
<1>3. /\ SubSeq(u, 1, l) \in Seq(S) /\ Len(SubSeq(u, 1, l)) = l
      /\ SubSeq(u, l + 1, Len(u)) \in Seq(S) /\ Len(SubSeq(u, l + 1, Len(u))) = Len(u) - l
      /\ \A i \in 1 .. l : SubSeq(u, 1, l)[i] = u[i]
      /\ \A i \in 1 .. Len(u) - l : SubSeq(u, l + 1, Len(u))[i] = u[l + i]
  BY <1>1, <1>2, CutAndJoin
<1> DEFINE a == SubSeq(t, 1, n)
           b == SubSeq(t, n + 1, Len(t))
<1>4. /\ a \in Seq(S) /\ Len(a) = n
      /\ b \in Seq(S) /\ Len(b) = Len(t) - n
      /\ \A i \in 1 .. n : a[i] = t[i]
      /\ \A i \in 1 .. Len(t) - n : b[i] = t[n + i]
  BY CutAndJoin
<1> HIDE DEF a, b
<1>5. /\ s \o a \in Seq(S) /\ Len(s \o a) = l
      /\ \A i \in 1 .. l : (s \o a)[i] = IF i <= Len(s) THEN s[i] ELSE a[i - Len(s)]
  <2>1. Len(s) + Len(a) = l BY <1>4 DEF l
  <2>2. QED BY <1>4, <2>1, ConcatProperties
<1>6. SubSeq(u, 1, l) = s \o a
  <2>1. ASSUME NEW i \in 1 .. l PROVE SubSeq(u, 1, l)[i] = (s \o a)[i]
    <3>1. CASE i <= Len(s) BY <3>1, <1>1, <1>2, <1>3, <1>5
    <3>2. CASE ~(i <= Len(s))
      <4>1. i - Len(s) \in 1 .. n BY <3>2, <1>1 DEF l
      <4>2. i \in 1 .. Len(s) + Len(t) BY <1>1 DEF l
      <4>3. QED BY <3>2, <4>1, <4>2, <1>1, <1>3, <1>4, <1>5, SMTT(40)
    <3>3. QED BY <3>1, <3>2
  <2>2. QED BY <2>1, <1>3, <1>5, SeqEqual
<1>7. SubSeq(u, l + 1, Len(u)) = b
  <2>1. Len(u) - l = Len(t) - n BY <1>1 DEF l
  <2>2. ASSUME NEW i \in 1 .. Len(u) - l PROVE SubSeq(u, l + 1, Len(u))[i] = b[i]
    <3>1. l + i \in 1 .. Len(s) + Len(t) /\ ~(l + i <= Len(s)) /\ (l + i) - Len(s) = n + i
      BY <2>1, <1>1 DEF l
    <3>2. u[l + i] = t[n + i] BY <3>1, <1>1
    <3>3. QED BY <3>2, <2>1, <1>3, <1>4
  <2>3. Len(SubSeq(u, l + 1, Len(u))) = Len(b) BY <2>1, <1>3, <1>4
  <2>4. \A i \in 1 .. Len(SubSeq(u, l + 1, Len(u))) : SubSeq(u, l + 1, Len(u))[i] = b[i]
    BY <2>2, <1>3
  <2>5. QED BY <2>3, <2>4, <1>3, <1>4, SeqEqual
<1>8. QED BY <1>6, <1>7 DEF u, l, a, b

-----------------------------------------------------------------------------
(* The types of the connection. *)

Msg ==
  [op : {"provRequest", "provResponse", "auth", "secureStepUp", "success", "netinfo", "address",
         "frame"}, n : Nat]
Record == [flight : 0 .. 9, keys : 0 .. 2, msgs : Seq(Msg)]

(* Records that carry one message each. *)
Bring(k, msgs) == [i \in 1 .. Len(msgs) |-> [flight |-> 0, keys |-> k, msgs |-> <<msgs[i]>>]]

LEMMA UnitsSeq ==
    ASSUME NEW Q \in Seq(Record)
    PROVE  /\ Units(Q) \in Seq(Record) /\ Len(Units(Q)) = 2 * Len(Q)
           /\ \A i \in 1 .. 2 * Len(Q) : Units(Q)[i] = Q[(i + 1) \div 2]
<1>1. Len(Q) \in Nat /\ \A i \in 1 .. Len(Q) : Q[i] \in Record
  BY LenProperties, ElementOfSeq
<1>2. \A i \in 1 .. 2 * Len(Q) : (i + 1) \div 2 \in 1 .. Len(Q) BY <1>1
<1>3. Units(Q) \in [1 .. 2 * Len(Q) -> Record] BY <1>1, <1>2 DEF Units
<1>4. 2 * Len(Q) \in Nat BY <1>1
<1>5. QED BY <1>3, <1>4, FunctionIsSeq DEF Units

LEMMA SecondHalf ==
    ASSUME NEW q \in Nat, NEW r \in Nat, NEW i \in 1 .. 2 * (q + r), ~(i <= 2 * q)
    PROVE  /\ (i + 1) \div 2 \in 1 .. q + r /\ ~((i + 1) \div 2 <= q)
           /\ (i + 1) \div 2 - q = ((i - 2 * q) + 1) \div 2
           /\ i - 2 * q \in 1 .. 2 * r
OBVIOUS

LEMMA UnitsJoin ==
    ASSUME NEW Q \in Seq(Record), NEW R \in Seq(Record)
    PROVE  Units(Q \o R) = Units(Q) \o Units(R)
<1> DEFINE u == Units(Q)
           v == Units(R)
           w == Units(Q \o R)
<1>1. /\ Q \o R \in Seq(Record) /\ Len(Q \o R) = Len(Q) + Len(R)
      /\ \A i \in 1 .. Len(Q) + Len(R) : (Q \o R)[i] = IF i <= Len(Q) THEN Q[i] ELSE R[i - Len(Q)]
      /\ Len(Q) \in Nat /\ Len(R) \in Nat
  BY ConcatProperties, LenProperties
<1>2. /\ u \in Seq(Record) /\ Len(u) = 2 * Len(Q)
      /\ \A i \in 1 .. 2 * Len(Q) : u[i] = Q[(i + 1) \div 2]
      /\ v \in Seq(Record) /\ Len(v) = 2 * Len(R)
      /\ \A i \in 1 .. 2 * Len(R) : v[i] = R[(i + 1) \div 2]
      /\ w \in Seq(Record) /\ Len(w) = 2 * (Len(Q) + Len(R))
      /\ \A i \in 1 .. 2 * (Len(Q) + Len(R)) : w[i] = (Q \o R)[(i + 1) \div 2]
  <2>1. /\ u \in Seq(Record) /\ Len(u) = 2 * Len(Q)
        /\ \A i \in 1 .. 2 * Len(Q) : u[i] = Q[(i + 1) \div 2]
    BY UnitsSeq
  <2>2. /\ v \in Seq(Record) /\ Len(v) = 2 * Len(R)
        /\ \A i \in 1 .. 2 * Len(R) : v[i] = R[(i + 1) \div 2]
    BY UnitsSeq
  <2>3. /\ w \in Seq(Record) /\ Len(w) = 2 * Len(Q \o R)
        /\ \A i \in 1 .. 2 * Len(Q \o R) : w[i] = (Q \o R)[(i + 1) \div 2]
    BY <1>1, UnitsSeq
  <2>4. QED BY <2>1, <2>2, <2>3, <1>1
<1> HIDE DEF u, v, w
<1>3. /\ u \o v \in Seq(Record) /\ Len(u \o v) = Len(w)
      /\ \A i \in 1 .. 2 * (Len(Q) + Len(R)) :
           (u \o v)[i] = IF i <= 2 * Len(Q) THEN u[i] ELSE v[i - 2 * Len(Q)]
  <2>1. Len(u) + Len(v) = 2 * (Len(Q) + Len(R)) BY <1>1, <1>2
  <2>2. /\ u \o v \in Seq(Record) /\ Len(u \o v) = Len(u) + Len(v)
        /\ \A i \in 1 .. Len(u) + Len(v) : (u \o v)[i] = IF i <= Len(u) THEN u[i] ELSE v[i - Len(u)]
    BY <1>2, ConcatProperties
  <2>3. Len(u) = 2 * Len(Q) /\ Len(w) = 2 * (Len(Q) + Len(R)) BY <1>2
  <2>4. QED BY <2>1, <2>2, <2>3
<1>4. ASSUME NEW i \in 1 .. 2 * (Len(Q) + Len(R)) PROVE w[i] = (u \o v)[i]
  <2>1. CASE i <= 2 * Len(Q)
    <3>1. (i + 1) \div 2 \in 1 .. Len(Q) /\ (i + 1) \div 2 \in 1 .. Len(Q) + Len(R)
      BY <2>1, <1>1
    <3>2. w[i] = Q[(i + 1) \div 2] BY <3>1, <1>1, <1>2
    <3>3. QED BY <2>1, <3>2, <1>1, <1>2, <1>3
  <2>2. CASE ~(i <= 2 * Len(Q))
    <3> DEFINE j == (i + 1) \div 2
               h == i - 2 * Len(Q)
    <3>1. /\ j \in 1 .. Len(Q) + Len(R) /\ ~(j <= Len(Q)) /\ j - Len(Q) = (h + 1) \div 2
          /\ h \in 1 .. 2 * Len(R)
      <4> DEFINE q == Len(Q)
                 r == Len(R)
      <4>1. q \in Nat /\ r \in Nat /\ i \in 1 .. 2 * (q + r) /\ ~(i <= 2 * q)
        BY <2>2, <1>1
      <4> HIDE DEF q, r
      <4>2. /\ j \in 1 .. q + r /\ ~(j <= q) /\ j - q = (h + 1) \div 2
            /\ h \in 1 .. 2 * r
        BY <4>1, SecondHalf DEF q
      <4>3. QED BY <4>2 DEF q, r
    <3>2. w[i] = R[(h + 1) \div 2]
      <4> HIDE DEF h
      <4>1. QED BY <3>1, <1>1, <1>2
    <3>3. v[h] = R[(h + 1) \div 2]
      <4> HIDE DEF h
      <4>1. QED BY <3>1, <1>2
    <3>4. QED BY <2>2, <3>2, <3>3, <1>3
  <2>3. QED BY <2>1, <2>2
<1>5. u \o v = w BY <1>2, <1>3, <1>4, <1>1, SeqEqual
<1>6. QED BY <1>5 DEF u, v, w

LEMMA BringSeq ==
    ASSUME NEW k \in 0 .. 2, NEW msgs \in Seq(Msg)
    PROVE  /\ Bring(k, msgs) \in Seq(Record) /\ Len(Bring(k, msgs)) = Len(msgs)
           /\ \A i \in 1 .. Len(msgs) :
                Bring(k, msgs)[i] = [flight |-> 0, keys |-> k, msgs |-> <<msgs[i]>>]
<1>1. Len(msgs) \in Nat /\ \A i \in 1 .. Len(msgs) : msgs[i] \in Msg
  BY LenProperties, ElementOfSeq
<1>2. \A i \in 1 .. Len(msgs) : [flight |-> 0, keys |-> k, msgs |-> <<msgs[i]>>] \in Record
  BY <1>1 DEF Record
<1>3. Bring(k, msgs) \in [1 .. Len(msgs) -> Record] BY <1>2 DEF Bring
<1>4. QED BY <1>1, <1>3, FunctionIsSeq DEF Bring

LEMMA BringJoin ==
    ASSUME NEW k \in 0 .. 2, NEW a \in Seq(Msg), NEW b \in Seq(Msg)
    PROVE  Bring(k, a \o b) = Bring(k, a) \o Bring(k, b)
<1> DEFINE u == Bring(k, a)
           v == Bring(k, b)
           w == Bring(k, a \o b)
<1>1. /\ a \o b \in Seq(Msg) /\ Len(a \o b) = Len(a) + Len(b)
      /\ \A i \in 1 .. Len(a) + Len(b) : (a \o b)[i] = IF i <= Len(a) THEN a[i] ELSE b[i - Len(a)]
      /\ Len(a) \in Nat /\ Len(b) \in Nat
  BY ConcatProperties, LenProperties
<1>2. /\ u \in Seq(Record) /\ Len(u) = Len(a)
      /\ \A i \in 1 .. Len(a) : u[i] = [flight |-> 0, keys |-> k, msgs |-> <<a[i]>>]
  BY BringSeq
<1>3. /\ v \in Seq(Record) /\ Len(v) = Len(b)
      /\ \A i \in 1 .. Len(b) : v[i] = [flight |-> 0, keys |-> k, msgs |-> <<b[i]>>]
  BY BringSeq
<1>4. /\ w \in Seq(Record) /\ Len(w) = Len(a) + Len(b)
      /\ \A i \in 1 .. Len(a) + Len(b) : w[i] = [flight |-> 0, keys |-> k, msgs |-> <<(a \o b)[i]>>]
  <2>1. /\ w \in Seq(Record) /\ Len(w) = Len(a \o b)
        /\ \A i \in 1 .. Len(a \o b) : w[i] = [flight |-> 0, keys |-> k, msgs |-> <<(a \o b)[i]>>]
    BY <1>1, BringSeq
  <2>2. QED BY <2>1, <1>1
<1> HIDE DEF u, v, w
<1>5. /\ u \o v \in Seq(Record) /\ Len(u \o v) = Len(a) + Len(b)
      /\ \A i \in 1 .. Len(a) + Len(b) : (u \o v)[i] = IF i <= Len(a) THEN u[i] ELSE v[i - Len(a)]
  <2>1. /\ u \o v \in Seq(Record) /\ Len(u \o v) = Len(u) + Len(v)
        /\ \A i \in 1 .. Len(u) + Len(v) : (u \o v)[i] = IF i <= Len(u) THEN u[i] ELSE v[i - Len(u)]
    <3>1. u \in Seq(Record) /\ v \in Seq(Record) BY <1>2, <1>3
    <3>2. QED BY <3>1, ConcatProperties
  <2>2. QED BY <2>1, <1>2, <1>3
<1>6. ASSUME NEW i \in 1 .. Len(a) + Len(b) PROVE w[i] = (u \o v)[i]
  <2>1. CASE i <= Len(a)
    <3>1. i \in 1 .. Len(a) BY <2>1, <1>1
    <3>2. QED BY <2>1, <3>1, <1>1, <1>2, <1>4, <1>5
  <2>2. CASE ~(i <= Len(a))
    <3>1. i - Len(a) \in 1 .. Len(b) BY <2>2, <1>1
    <3>2. QED BY <2>2, <3>1, <1>1, <1>3, <1>4, <1>5
  <2>3. QED BY <2>1, <2>2
<1>7. w = u \o v BY <1>4, <1>5, <1>6, SeqEqual
<1>8. QED BY <1>7 DEF u, v, w

(* Two sequences that are equal, cut at the same place. *)
LEMMA SameCut ==
    ASSUME NEW S, NEW s \in Seq(S), NEW t \in Seq(S), NEW u \in Seq(S), NEW v \in Seq(S),
           s \o t = u \o v, Len(s) = Len(u)
    PROVE  t = v
<1>1. Len(s) \in Nat /\ Len(t) \in Nat /\ Len(v) \in Nat BY LenProperties
<1>2. /\ Len(s \o t) = Len(s) + Len(t)
      /\ \A i \in 1 .. Len(s) + Len(t) : (s \o t)[i] = IF i <= Len(s) THEN s[i] ELSE t[i - Len(s)]
  BY ConcatProperties
<1>3. /\ Len(u \o v) = Len(u) + Len(v)
      /\ \A i \in 1 .. Len(u) + Len(v) : (u \o v)[i] = IF i <= Len(u) THEN u[i] ELSE v[i - Len(u)]
  BY ConcatProperties
<1>4. Len(t) = Len(v) BY <1>1, <1>2, <1>3
<1>5. ASSUME NEW i \in 1 .. Len(t) PROVE t[i] = v[i]
  <2> DEFINE j == Len(s) + i
  <2>1. j \in 1 .. Len(s) + Len(t) /\ j \in 1 .. Len(u) + Len(v) /\ ~(j <= Len(s)) /\ j - Len(s) = i
    BY <1>1, <1>4
  <2> HIDE DEF j
  <2>2. (s \o t)[j] = t[i] BY <2>1, <1>2
  <2>3. (u \o v)[j] = v[i] BY <2>1, <1>3
  <2>4. QED BY <2>2, <2>3
<1>6. QED BY <1>4, <1>5, SeqEqual

LEMMA WholeRecords ==
    ASSUME NEW b \in Seq(Record), NEW w \in Seq(Record), NEW Q \in Seq(Record),
           b \o w = Units(Q)
    PROVE  /\ Len(b) \div 2 \in 0 .. Len(Q)
           /\ [i \in 1 .. (Len(b) \div 2) |-> b[2 * i]] = SubSeq(Q, 1, Len(b) \div 2)
           /\ \A j \in 0 .. Len(b) \div 2 :
                /\ SubSeq(b, 2 * j + 1, Len(b)) \in Seq(Record)
                /\ Len(SubSeq(b, 2 * j + 1, Len(b))) = Len(b) - 2 * j
                /\ SubSeq(b, 2 * j + 1, Len(b)) \o w = Units(SubSeq(Q, j + 1, Len(Q)))
<1> DEFINE m == Len(b) \div 2
<1>1. Len(b) \in Nat /\ Len(w) \in Nat /\ Len(Q) \in Nat BY LenProperties
<1>2. /\ Len(b \o w) = Len(b) + Len(w)
      /\ \A i \in 1 .. Len(b) + Len(w) : (b \o w)[i] = IF i <= Len(b) THEN b[i] ELSE w[i - Len(b)]
  BY ConcatProperties
<1>3. /\ Len(b \o w) = 2 * Len(Q)
      /\ \A i \in 1 .. 2 * Len(Q) : (b \o w)[i] = Q[(i + 1) \div 2]
  BY UnitsSeq
<1>4. m \in 0 .. Len(Q) /\ m \in Nat /\ 2 * m <= Len(b) /\ Len(b) <= 2 * m + 1
  BY <1>1, <1>2, <1>3
<1>5. [i \in 1 .. m |-> b[2 * i]] = SubSeq(Q, 1, m)
  <2> HIDE DEF m
  <2> DEFINE r == [i \in 1 .. m |-> b[2 * i]]
  <2>1. ASSUME NEW i \in 1 .. m PROVE b[2 * i] = Q[i]
    <3>1. 2 * i \in 1 .. Len(b) + Len(w) /\ 2 * i <= Len(b) /\ 2 * i \in 1 .. 2 * Len(Q)
          /\ (2 * i + 1) \div 2 = i
      BY <1>1, <1>4
    <3>2. (b \o w)[2 * i] = b[2 * i] BY <3>1, <1>2
    <3>3. (b \o w)[2 * i] = Q[i] BY <3>1, <1>3
    <3>4. QED BY <3>2, <3>3
  <2>2. /\ SubSeq(Q, 1, m) \in Seq(Record) /\ Len(SubSeq(Q, 1, m)) = m
        /\ \A i \in 1 .. m : SubSeq(Q, 1, m)[i] = Q[i]
    BY <1>4, CutAndJoin
  <2>3. \A i \in 1 .. m : Q[i] \in Record BY <1>1, <1>4, ElementOfSeq
  <2>4. r \in [1 .. m -> Record] BY <2>1, <2>3
  <2>5. r \in Seq(Record) /\ Len(r) = m BY <2>4, <1>4, FunctionIsSeq
  <2>6. \A i \in 1 .. m : r[i] = SubSeq(Q, 1, m)[i] BY <2>1, <2>2
  <2> HIDE DEF r
  <2>7. r = SubSeq(Q, 1, m) BY <2>2, <2>5, <2>6, SeqEqual
  <2>8. QED BY <2>7 DEF r
<1>6. ASSUME NEW j \in 0 .. m
      PROVE  /\ SubSeq(b, 2 * j + 1, Len(b)) \in Seq(Record)
             /\ Len(SubSeq(b, 2 * j + 1, Len(b))) = Len(b) - 2 * j
             /\ SubSeq(b, 2 * j + 1, Len(b)) \o w = Units(SubSeq(Q, j + 1, Len(Q)))
  <2> DEFINE n == 2 * j
             b1 == SubSeq(b, 1, n)
             b2 == SubSeq(b, n + 1, Len(b))
             q1 == SubSeq(Q, 1, j)
             q2 == SubSeq(Q, j + 1, Len(Q))
  <2>1. n \in 0 .. Len(b) /\ j \in 0 .. Len(Q) BY <1>1, <1>4
  <2>2. /\ b1 \in Seq(Record) /\ Len(b1) = n
        /\ b2 \in Seq(Record) /\ Len(b2) = Len(b) - n
        /\ b1 \o b2 = b
    <3> HIDE DEF n
    <3>1. QED BY <2>1, CutAndJoin
  <2>3. /\ q1 \in Seq(Record) /\ Len(q1) = j
        /\ q2 \in Seq(Record)
        /\ q1 \o q2 = Q
    BY <2>1, CutAndJoin
  <2> HIDE DEF b1, b2, q1, q2
  <2>4. b2 \o w \in Seq(Record) BY <2>2, ConcatProperties
  <2>5. b1 \o (b2 \o w) = b \o w
    <3>1. b1 \in Seq(Record) /\ b2 \in Seq(Record) BY <2>2
    <3>2. (b1 \o b2) \o w = b1 \o (b2 \o w) BY <3>1, ConcatAssociative, SMTT(40)
    <3>3. QED BY <2>2, <3>2
  <2>6. Units(Q) = Units(q1) \o Units(q2) BY <2>3, UnitsJoin
  <2>7. /\ Units(q1) \in Seq(Record) /\ Units(q2) \in Seq(Record) /\ Len(Units(q1)) = 2 * Len(q1)
    BY <2>3, UnitsSeq
  <2>8. b1 \o (b2 \o w) = Units(q1) \o Units(q2) /\ Len(b1) = Len(Units(q1))
    BY <2>2, <2>3, <2>5, <2>6, <2>7
  <2>9. b2 \o w = Units(q2) BY <2>2, <2>4, <2>7, <2>8, SameCut
  <2>10. QED BY <2>2, <2>9 DEF b2, q2
<1>7. QED BY <1>4, <1>5, <1>6

(* Messages that came one in each record. *)
LEMMA FlattenSingles ==
    ASSUME NEW msgs \in Seq(Msg)
    PROVE  FlattenSeq([i \in 1 .. Len(msgs) |-> <<msgs[i]>>]) = msgs
<1> DEFINE n == Len(msgs)
           s == [i \in 1 .. n |-> <<msgs[i]>>]
           Eqn(f, k) == f = [i \in 1 .. k |-> IF i = 1 THEN s[i] ELSE f[i - 1] \o s[i]]
           F == CHOOSE f : f = [i \in 1 .. Len(s) |-> IF i = 1 THEN s[i] ELSE f[i - 1] \o s[i]]
<1>1. n \in Nat /\ \A i \in 1 .. n : msgs[i] \in Msg BY LenProperties, ElementOfSeq
<1>2. s \in Seq(Seq(Msg)) /\ Len(s) = n
  <2>1. s \in [1 .. n -> Seq(Msg)] BY <1>1
  <2>2. QED BY <2>1, <1>1, FunctionIsSeq
<1>3. CASE n = 0
  <2>1. s = <<>> /\ msgs = <<>> BY <1>2, <1>3, EmptySeq
  <2>2. QED BY <2>1, <1>2, <1>3 DEF FlattenSeq
<1>4. CASE n # 0
  <2> DEFINE G == [i \in 1 .. n |-> SubSeq(msgs, 1, i)]
  <2>1. ASSUME NEW i \in 1 .. n
        PROVE  SubSeq(msgs, 1, i) = IF i = 1 THEN <<msgs[i]>> ELSE SubSeq(msgs, 1, i - 1) \o <<msgs[i]>>
    <3>1. SubSeq(msgs, 1, i) = SubSeq(msgs, 1, i - 1) \o <<msgs[i]>>
      <4>1. 1 \in 1 .. Len(msgs) /\ i \in 1 .. Len(msgs) BY <1>1
      <4>2. QED BY <4>1, SubSeqRecursiveSecond
    <3>2. SubSeq(msgs, 1, 0) = <<>> BY SubSeqEmpty
    <3>3. <<>> \o <<msgs[i]>> = <<msgs[i]>>
      <4>1. <<msgs[i]>> \in Seq(Msg) BY <1>1
      <4>2. QED BY <4>1, ConcatEmptySeq
    <3>4. CASE i = 1
      <4>1. i - 1 = 0 BY <3>4
      <4>2. SubSeq(msgs, 1, i) = <<msgs[i]>> BY <3>1, <3>2, <3>3, <4>1
      <4>3. QED BY <3>4, <4>2
    <3>5. QED BY <3>1, <3>4
  <2>2. G = [i \in 1 .. n |-> IF i = 1 THEN s[i] ELSE G[i - 1] \o s[i]]
    <3>1. ASSUME NEW i \in 1 .. n PROVE G[i] = IF i = 1 THEN s[i] ELSE G[i - 1] \o s[i]
      <4>1. i # 1 => i - 1 \in 1 .. n BY <1>1
      <4>2. i # 1 => G[i - 1] = SubSeq(msgs, 1, i - 1) BY <4>1
      <4>3. G[i] = SubSeq(msgs, 1, i) /\ s[i] = <<msgs[i]>> BY SMTT(40)
      <4> HIDE DEF G, s
      <4>4. QED BY <4>2, <4>3, <2>1
    <3>2. QED BY <3>1
  <2> HIDE DEF s, G
  <2>3. F = [i \in 1 .. Len(s) |-> IF i = 1 THEN s[i] ELSE F[i - 1] \o s[i]] BY <2>2, <1>2
  <2> HIDE DEF F
  <2>4. 0 .. n \subseteq {i \in 0 .. n : i = 0 \/ F[i] = G[i]}
    <3> DEFINE I == {i \in 0 .. n : i = 0 \/ F[i] = G[i]}
    <3>1. 0 \in I BY <1>1
    <3>2. ASSUME NEW i \in 0 .. n - 1, i \in I PROVE i + 1 \in I
      <4>1. i + 1 \in 1 .. n /\ (i + 1) - 1 = i /\ (i # 0 => i \in 1 .. n) /\ i \in Nat
        BY <1>1
      <4>2. F[i + 1] = IF i + 1 = 1 THEN s[i + 1] ELSE F[i] \o s[i + 1]
        BY <4>1, <2>3, <1>2
      <4>3. G[i + 1] = IF i + 1 = 1 THEN s[i + 1] ELSE G[i] \o s[i + 1] BY <4>1, <2>2
      <4>4. F[i + 1] = G[i + 1] BY <4>1, <4>2, <4>3, <3>2
      <4>5. QED BY <4>1, <4>4
    <3> HIDE DEF I
    <3>3. 0 .. n \subseteq I BY <1>1, <3>1, <3>2, Induction
    <3>4. QED BY <3>3 DEF I
  <2>5. F[n] = G[n] BY <2>4, <1>1, <1>4
  <2>6. G[n] = msgs BY <1>1, <1>4, SubSeqFull DEF G
  <2>7. FlattenSeq(s) = F[Len(s)] BY <1>2, <1>4 DEF FlattenSeq, F
  <2>8. QED BY <2>5, <2>6, <2>7, <1>2 DEF s
<1>5. QED BY <1>3, <1>4

(* The queue of messages is handled one after the other. *)
LEMMA DispatchedSteps ==
    ASSUME NEW x, NEW msgs \in Seq(Msg)
    PROVE  \E a : /\ Dispatched(x, msgs) = a[Len(msgs)]
                  /\ a[0] = x
                  /\ \A i \in 1 .. Len(msgs) : a[i] = dispatch(a[i - 1], msgs[i])
<1> DEFINE n == Len(msgs)
           Body(a, k) == [i \in 0 .. k |-> IF i = 0 THEN x ELSE dispatch(a[i - 1], msgs[i])]
           A == CHOOSE a : a = [i \in 0 .. Len(msgs) |->
                                  IF i = 0 THEN x ELSE dispatch(a[i - 1], msgs[i])]
           I == {k \in 0 .. n : \E a : a = Body(a, k)}
<1>1. n \in Nat BY LenProperties
<1>2. 0 \in I
  <2> DEFINE a == [i \in 0 .. 0 |-> x]
  <2>1. a = Body(a, 0) OBVIOUS
  <2> HIDE DEF a
  <2>2. \E f : f = Body(f, 0) BY <2>1
  <2>3. QED BY <1>1, <2>2
<1>3. ASSUME NEW k \in 0 .. n - 1, k \in I PROVE k + 1 \in I
  <2>1. PICK a : a = Body(a, k) BY <1>3
  <2> DEFINE b == [i \in 0 .. k + 1 |-> IF i = k + 1 THEN dispatch(a[k], msgs[i]) ELSE a[i]]
  <2>2. k \in Nat BY <1>1
  <2>3. ASSUME NEW i \in 0 .. k + 1
        PROVE  b[i] = IF i = 0 THEN x ELSE dispatch(b[i - 1], msgs[i])
    <3>1. CASE i = k + 1
      <4>1. i - 1 = k /\ i - 1 \in 0 .. k + 1 /\ i - 1 # k + 1 /\ i # 0 BY <3>1, <2>2
      <4>2. b[i - 1] = a[k] BY <4>1
      <4>3. QED BY <3>1, <4>1, <4>2
    <3>2. CASE i # k + 1
      <4>1. i \in 0 .. k BY <3>2, <2>2
      <4>2. b[i] = a[i] BY <3>2
      <4>3. a[i] = IF i = 0 THEN x ELSE dispatch(a[i - 1], msgs[i]) BY <4>1, <2>1
      <4>4. i # 0 => b[i - 1] = a[i - 1] BY <4>1, <2>2
      <4>5. QED BY <4>2, <4>3, <4>4
    <3>3. QED BY <3>1, <3>2
  <2>4. b = Body(b, k + 1) BY <2>3
  <2>5. k + 1 \in 0 .. n BY <1>1
  <2>6. QED BY <2>4, <2>5
<1>4. n \in I
  <2> HIDE DEF I, n
  <2>1. 0 .. n \subseteq I BY <1>1, <1>2, <1>3, Induction
  <2>2. QED BY <2>1, <1>1
<1>5. A = Body(A, n) BY <1>4
<1>6. Dispatched(x, msgs) = A[n] BY DEF Dispatched
<1> HIDE DEF A
<1>7. /\ A[0] = x
      /\ \A i \in 1 .. n : A[i] = dispatch(A[i - 1], msgs[i])
  BY <1>1, <1>5
<1>8. QED BY <1>6, <1>7

-----------------------------------------------------------------------------
(* What a connection reads of the stream. *)

Conn ==
  [life : {"none", "live", "freed"}, status : {"NOINIT", "HANDSHAKE", "SECURE"}, hs : 0 .. 9,
   bio : Seq(Record), out : Seq(Record), enc : Seq(Msg),
   session : {"NOT_AUTHED", "WAIT_STEPUP", "AUTHED", "PURGE"}]
Work == [c : Conn, tx : Seq(Record), sent : Seq(Msg), got : Seq(Msg)]

LEMMA Halves ==
    \A l \in Nat : /\ l \div 2 \in Nat /\ 2 * (l \div 2) <= l /\ l <= 2 * (l \div 2) + 1
                   /\ (l < 2 => l \div 2 = 0) /\ (l >= 2 => l \div 2 >= 1)
OBVIOUS

LEMMA HeadIsFirst ==
    ASSUME NEW S, NEW s \in Seq(S), s # <<>>
    PROVE  Head(s) = s[1]
OBVIOUS

LEMMA FlightRecord ==
    ASSUME NEW j \in 0 .. 9
    PROVE  Flight(j) \in Record /\ <<Flight(j)>> \in Seq(Record) /\ Flight(j).flight = j
           /\ Len(<<Flight(j)>>) = 1
<1>1. Flight(j) \in Record BY EmptySeq DEF Flight, Record
<1>2. QED BY <1>1 DEF Flight

(* Less than a record is as nothing. *)
LEMMA ShortRead ==
    ASSUME NEW c \in Conn, Len(c.bio) < 2
    PROVE  /\ Records(c) = <<>> /\ ~HasFlight(c) /\ ~SSL_pending(c)
           /\ \A e : SSL_read_ahead(e, c) = c
<1>1. Len(c.bio) \in Nat BY LenProperties DEF Conn
<1>2. Len(c.bio) \div 2 = 0 BY <1>1, Halves
<1>3. Records(c) = <<>>
  <2>1. Records(c) = [i \in 1 .. 0 |-> c.bio[2 * i]] BY <1>2 DEF Records
  <2>2. Records(c) \in [1 .. 0 -> Record] BY <2>1
  <2>3. Records(c) \in Seq(Record) /\ Len(Records(c)) = 0 BY <2>2, FunctionIsSeq
  <2>4. QED BY <2>3, EmptySeq
<1>4. QED BY <1>3 DEF HasFlight, SSL_pending, SSL_read_ahead

LEMMA RecordsAre ==
    ASSUME NEW c \in Conn, NEW w \in Seq(Record), NEW Q \in Seq(Record),
           c.bio \o w = Units(Q)
    PROVE  /\ Len(c.bio) \in Nat /\ Len(c.bio) \div 2 \in 0 .. Len(Q)
           /\ Records(c) = SubSeq(Q, 1, Len(c.bio) \div 2)
           /\ Records(c) \in Seq(Record) /\ Len(Records(c)) = Len(c.bio) \div 2
           /\ \A i \in 1 .. Len(c.bio) \div 2 : Records(c)[i] = Q[i]
           /\ \A n \in 0 .. Len(c.bio) \div 2 :
                \E b \in Seq(Record) :
                  /\ ReadRecords(c, n) = [c EXCEPT !.bio = b]
                  /\ Len(b) = Len(c.bio) - 2 * n
                  /\ b \o w = Units(SubSeq(Q, n + 1, Len(Q)))
<1>1. c.bio \in Seq(Record) BY DEF Conn
<1> DEFINE b0 == c.bio
           m == Len(b0) \div 2
<1>2. /\ m \in 0 .. Len(Q)
      /\ [i \in 1 .. m |-> b0[2 * i]] = SubSeq(Q, 1, m)
      /\ \A j \in 0 .. m :
           /\ SubSeq(b0, 2 * j + 1, Len(b0)) \in Seq(Record)
           /\ Len(SubSeq(b0, 2 * j + 1, Len(b0))) = Len(b0) - 2 * j
           /\ SubSeq(b0, 2 * j + 1, Len(b0)) \o w = Units(SubSeq(Q, j + 1, Len(Q)))
  <2> HIDE DEF b0
  <2>1. b0 \in Seq(Record) /\ b0 \o w = Units(Q) BY <1>1 DEF b0
  <2>2. QED BY <2>1, WholeRecords
<1>3. Len(b0) \in Nat BY <1>1, LenProperties
<1>4. Records(c) = SubSeq(Q, 1, m) BY <1>2 DEF Records
<1>5. /\ SubSeq(Q, 1, m) \in Seq(Record) /\ Len(SubSeq(Q, 1, m)) = m
      /\ \A i \in 1 .. m : SubSeq(Q, 1, m)[i] = Q[i]
  <2> HIDE DEF m
  <2>1. QED BY <1>2, CutAndJoin
<1>6. ASSUME NEW n \in 0 .. m
      PROVE  \E b \in Seq(Record) :
                  /\ ReadRecords(c, n) = [c EXCEPT !.bio = b]
                  /\ Len(b) = Len(c.bio) - 2 * n
                  /\ b \o w = Units(SubSeq(Q, n + 1, Len(Q)))
  <2> DEFINE d == SubSeq(b0, 2 * n + 1, Len(b0))
  <2>1. ReadRecords(c, n) = [c EXCEPT !.bio = d] BY DEF ReadRecords
  <2>2. d \in Seq(Record) /\ Len(d) = Len(c.bio) - 2 * n /\ d \o w = Units(SubSeq(Q, n + 1, Len(Q)))
    BY <1>2
  <2> HIDE DEF d
  <2>3. QED BY <2>1, <2>2
<1>7. QED BY <1>2, <1>3, <1>4, <1>5, <1>6

(* The records that are in a BIO and in the stream behind it. *)
OnLine(c, w, Q) == c.bio \o w = Units(Q)
Lead(j, B) == <<Flight(j)>> \o B

(* n records are read, and leave Q. *)
Reads(c, n, w, Q) ==
  \E b \in Seq(Record) :
    /\ ReadRecords(c, n) = [c EXCEPT !.bio = b]
    /\ Len(b) = Len(c.bio) - 2 * n
    /\ b \o w = Units(Q)

(* A flight is read when it is whole and first in the line. *)
LEMMA FlightFirst ==
    ASSUME NEW c \in Conn, NEW w \in Seq(Record), NEW j \in 1 .. 9, NEW B \in Seq(Record),
           OnLine(c, w, Lead(j, B)), Len(c.bio) >= 2
    PROVE  HasFlight(c) /\ Head(Records(c)).flight = j /\ Reads(c, 1, w, B)
<1>0. c.bio \o w = Units(<<Flight(j)>> \o B) BY DEF OnLine, Lead
<1> DEFINE Q == <<Flight(j)>> \o B
<1>1. <<Flight(j)>> \in Seq(Record) /\ Len(<<Flight(j)>>) = 1 /\ Flight(j).flight = j
  BY FlightRecord
<1>2. /\ Q \in Seq(Record) /\ Len(Q) = 1 + Len(B)
      /\ Q[1] = Flight(j) /\ SubSeq(Q, 2, Len(Q)) = B
  <2> DEFINE F == <<Flight(j)>>
  <2>1. F \in Seq(Record) /\ Len(F) = 1 /\ F[1] = Flight(j) /\ Len(B) \in Nat
    BY <1>1, LenProperties
  <2> HIDE DEF F
  <2>2. /\ F \o B \in Seq(Record) /\ Len(F \o B) = Len(F) + Len(B)
        /\ \A i \in 1 .. Len(F) + Len(B) : (F \o B)[i] = IF i <= Len(F) THEN F[i] ELSE B[i - Len(F)]
    BY <2>1, ConcatProperties
  <2>3. (F \o B)[1] = F[1] BY <2>1, <2>2
  <2>4. SubSeq(F \o B, Len(F) + 0 + 1, Len(F \o B)) = SubSeq(B, 0 + 1, Len(B))
    <3>1. 0 \in 0 .. Len(B) BY <2>1
    <3>2. QED BY <2>1, <3>1, CutOfJoin
  <2>5. SubSeq(B, 1, Len(B)) = B BY SubSeqFull
  <2>6. Len(F) + 0 + 1 = 2 /\ 0 + 1 = 1 BY <2>1
  <2>7. SubSeq(F \o B, 2, Len(F \o B)) = B BY <2>4, <2>5, <2>6
  <2>8. QED BY <2>1, <2>2, <2>3, <2>7 DEF F
<1> HIDE DEF Q
<1>3. c.bio \o w = Units(Q) BY <1>0 DEF Q
<1>4. /\ Len(c.bio) \in Nat
      /\ Records(c) \in Seq(Record) /\ Len(Records(c)) = Len(c.bio) \div 2
      /\ \A i \in 1 .. Len(c.bio) \div 2 : Records(c)[i] = Q[i]
      /\ \A n \in 0 .. Len(c.bio) \div 2 :
           \E b \in Seq(Record) :
             /\ ReadRecords(c, n) = [c EXCEPT !.bio = b]
             /\ Len(b) = Len(c.bio) - 2 * n
             /\ b \o w = Units(SubSeq(Q, n + 1, Len(Q)))
  BY <1>2, <1>3, RecordsAre, ZenonT(60)
<1>5. 1 \in 1 .. Len(c.bio) \div 2 /\ 1 \in 0 .. Len(c.bio) \div 2 /\ Len(c.bio) \div 2 # 0
  <2>1. Len(c.bio) \in Nat BY <1>4
  <2>2. Len(c.bio) \div 2 \in Nat /\ Len(c.bio) \div 2 >= 1 BY <2>1, Halves
  <2> DEFINE h == Len(c.bio) \div 2
  <2> HIDE DEF h
  <2>3. h \in Nat /\ h >= 1 => 1 \in 1 .. h /\ 1 \in 0 .. h /\ h # 0 OBVIOUS
  <2>4. QED BY <2>2, <2>3 DEF h
<1>6. Records(c) # <<>> /\ Records(c)[1] = Flight(j)
  <2>1. Records(c) # <<>> BY <1>4, <1>5, EmptySeq
  <2>2. Records(c)[1] = Q[1] BY <1>4, <1>5
  <2>3. QED BY <2>1, <2>2, <1>2
<1>7. HasFlight(c) /\ Head(Records(c)).flight = j
  <2>1. Head(Records(c)) = Records(c)[1]
    <3>1. Records(c) \in Seq(Record) /\ Records(c) # <<>> BY <1>4, <1>6
    <3>2. QED BY <3>1, HeadIsFirst
  <2>2. j # 0 OBVIOUS
  <2>3. QED BY <2>1, <2>2, <1>1, <1>6 DEF HasFlight
<1>8. PICK b \in Seq(Record) :
        /\ ReadRecords(c, 1) = [c EXCEPT !.bio = b]
        /\ Len(b) = Len(c.bio) - 2 * 1
        /\ b \o w = Units(SubSeq(Q, 1 + 1, Len(Q)))
  BY <1>4, <1>5
<1>9. b \o w = Units(B)
  <2>1. 1 + 1 = 2 OBVIOUS
  <2>2. QED BY <2>1, <1>2, <1>8
<1>10. QED BY <1>7, <1>8, <1>9 DEF Reads

(* What may follow the messages in the line. *)
Tails == {<<>>} \cup {<<Flight(j)>> : j \in 1 .. 9}

(* How many records SSL_read answers before it meets a flight. *)
Ready(c) ==
  LET flights == {i \in DOMAIN Records(c) : Records(c)[i].flight # 0}
  IN  IF flights = {} THEN Len(Records(c)) ELSE Min(flights) - 1

(* How many of them there are. *)
Whole(c, R) == IF Len(c.bio) \div 2 <= Len(R) THEN Len(c.bio) \div 2 ELSE Len(R)

LEMMA MessagesFirst ==
    ASSUME NEW c \in Conn, NEW w \in Seq(Record), NEW k \in 0 .. 2, NEW R \in Seq(Msg),
           NEW T \in Tails, OnLine(c, w, Bring(k, R) \o T), NEW n, n = Whole(c, R)
    PROVE  /\ n \in 0 .. Len(R)
           /\ Ready(c) = n
           /\ FlattenSeq([i \in 1 .. n |-> Records(c)[i].msgs]) = SubSeq(R, 1, n)
           /\ Reads(c, n, w, Bring(k, SubSeq(R, n + 1, Len(R))) \o T)
           /\ R # <<>> => ~HasFlight(c)
<1> DEFINE m == Len(c.bio) \div 2
           B == Bring(k, R)
           Q == B \o T
<1>1. /\ B \in Seq(Record) /\ Len(B) = Len(R)
      /\ \A i \in 1 .. Len(R) : B[i] = [flight |-> 0, keys |-> k, msgs |-> <<R[i]>>]
  BY BringSeq
<1>2. T \in Seq(Record) /\ Len(T) \in 0 .. 1 /\ (Len(T) = 1 => T[1].flight # 0)
  <2>1. CASE T = <<>> BY <2>1, EmptySeq
  <2>2. CASE T \in {<<Flight(j)>> : j \in 1 .. 9}
    <3>1. PICK j \in 1 .. 9 : T = <<Flight(j)>> BY <2>2
    <3>2. QED BY <3>1, FlightRecord
  <2>3. QED BY <2>1, <2>2 DEF Tails
<1> HIDE DEF B
<1>3. /\ Q \in Seq(Record) /\ Len(Q) = Len(B) + Len(T)
      /\ \A i \in 1 .. Len(B) + Len(T) : Q[i] = IF i <= Len(B) THEN B[i] ELSE T[i - Len(B)]
  <2>1. B \in Seq(Record) /\ T \in Seq(Record) BY <1>1, <1>2
  <2>2. QED BY <2>1, ConcatProperties
<1> HIDE DEF Q
<1>4. /\ Len(c.bio) \in Nat /\ m \in 0 .. Len(Q)
      /\ Records(c) \in Seq(Record) /\ Len(Records(c)) = m
      /\ \A i \in 1 .. m : Records(c)[i] = Q[i]
      /\ \A l \in 0 .. m :
           \E b \in Seq(Record) :
             /\ ReadRecords(c, l) = [c EXCEPT !.bio = b]
             /\ Len(b) = Len(c.bio) - 2 * l
             /\ b \o w = Units(SubSeq(Q, l + 1, Len(Q)))
  <2>1. c.bio \o w = Units(Q) BY DEF Q, B, OnLine
  <2>2. QED BY <1>3, <2>1, RecordsAre
<1>w. n = IF m <= Len(R) THEN m ELSE Len(R) BY DEF Whole
<1> HIDE DEF m
<1>5. Len(R) \in Nat /\ n \in 0 .. Len(R) /\ n \in 0 .. m /\ m \in Nat
  BY <1>4, <1>w, LenProperties
<1>6. \A i \in 1 .. n : Records(c)[i] = [flight |-> 0, keys |-> k, msgs |-> <<R[i]>>]
  <2> SUFFICES ASSUME NEW i \in 1 .. n
               PROVE  Records(c)[i] = [flight |-> 0, keys |-> k, msgs |-> <<R[i]>>]
    OBVIOUS
  <2>1. i \in 1 .. m /\ i \in 1 .. Len(R) /\ Len(R) = Len(B) /\ Len(T) \in Nat
    BY <1>1, <1>2, <1>5
  <2>2. i \in 1 .. Len(B) + Len(T) /\ i <= Len(B) BY <2>1, <1>5
  <2>3. Records(c)[i] = Q[i] /\ Q[i] = B[i] BY <2>1, <2>2, <1>3, <1>4
  <2>4. QED BY <2>1, <2>3, <1>1
<1>7. DOMAIN Records(c) = 1 .. m BY <1>4, LenProperties
<1> DEFINE fl == {i \in DOMAIN Records(c) : Records(c)[i].flight # 0}
<1>9. Ready(c) = n
  <2>1. CASE m <= Len(R)
    <3>1. n = m /\ fl = {} BY <1>6, <1>7, <2>1, <1>w
    <3>2. QED BY <3>1, <1>4 DEF Ready
  <2>2. CASE ~(m <= Len(R))
    <3>1. n = Len(R) /\ m = Len(R) + 1 /\ Len(T) = 1
      <4>1. Len(B) = Len(R) /\ Len(T) \in 0 .. 1 /\ Len(Q) = Len(B) + Len(T)
        BY <1>1, <1>2, <1>3
      <4>2. m \in 0 .. Len(R) + Len(T) BY <4>1, <1>4
      <4>3. \A a, h \in Nat, t \in 0 .. 1 : h \in 0 .. a + t /\ ~(h <= a) => h = a + 1 /\ t = 1
        OBVIOUS
      <4>4. m = Len(R) + 1 /\ Len(T) = 1 BY <4>1, <4>2, <4>3, <2>2, <1>5
      <4>5. QED BY <4>4, <2>2, <1>w
    <3>2. Records(c)[m].flight # 0
      <4>1. Q[m] = T[1] BY <3>1, <1>1, <1>3, <1>5
      <4>2. m \in 1 .. m BY <3>1, <1>5
      <4>3. QED BY <4>1, <4>2, <3>1, <1>2, <1>4
    <3>3. \A i \in 1 .. m : i # m => i \in 1 .. n BY <3>1, <1>5
    <3>4. \A i \in 1 .. n : Records(c)[i].flight = 0
      <4> SUFFICES ASSUME NEW i \in 1 .. n PROVE Records(c)[i].flight = 0
        OBVIOUS
      <4>1. Records(c)[i] = [flight |-> 0, keys |-> k, msgs |-> <<R[i]>>] BY <1>6
      <4>2. QED BY <4>1
    <3>5. m \in fl /\ \A i \in fl : i = m BY <3>1, <3>2, <3>3, <3>4, <1>5, <1>7
    <3>6. fl = {m} BY <3>5
    <3>7. Min(fl) = m
      <4> HIDE DEF fl
      <4>1. QED BY <3>6, <1>5 DEF Min
    <3>8. fl # {} /\ Min(fl) - 1 = n
      <4>1. m - 1 = n BY <3>1, <1>5
      <4>2. fl # {} BY <3>6
      <4> HIDE DEF fl
      <4>3. QED BY <4>1, <4>2, <3>7
    <3>9. QED BY <3>8 DEF Ready
  <2>3. QED BY <2>1, <2>2
<1>10. /\ SubSeq(R, 1, n) \in Seq(Msg) /\ Len(SubSeq(R, 1, n)) = n
       /\ \A i \in 1 .. n : SubSeq(R, 1, n)[i] = R[i]
       /\ SubSeq(R, n + 1, Len(R)) \in Seq(Msg)
       /\ SubSeq(R, 1, n) \o SubSeq(R, n + 1, Len(R)) = R
  BY <1>5, CutAndJoin
<1>11. FlattenSeq([i \in 1 .. n |-> Records(c)[i].msgs]) = SubSeq(R, 1, n)
  <2> DEFINE P == SubSeq(R, 1, n)
  <2>1. FlattenSeq([i \in 1 .. Len(P) |-> <<P[i]>>]) = P
    <3> HIDE DEF P
    <3>1. P \in Seq(Msg) BY <1>10 DEF P
    <3>2. QED BY <3>1, FlattenSingles
  <2>2. \A i \in 1 .. n : Records(c)[i].msgs = <<P[i]>>
    <3> SUFFICES ASSUME NEW i \in 1 .. n PROVE Records(c)[i].msgs = <<P[i]>>
      OBVIOUS
    <3>1. Records(c)[i] = [flight |-> 0, keys |-> k, msgs |-> <<R[i]>>] BY <1>6
    <3>2. P[i] = R[i] BY <1>10
    <3> HIDE DEF P
    <3>3. QED BY <3>1, <3>2
  <2>3. [i \in 1 .. n |-> Records(c)[i].msgs] = [i \in 1 .. Len(P) |-> <<P[i]>>]
    BY <2>2, <1>10
  <2>4. QED BY <2>1, <2>3
<1>12. \E b \in Seq(Record) :
         /\ ReadRecords(c, n) = [c EXCEPT !.bio = b]
         /\ Len(b) = Len(c.bio) - 2 * n
         /\ b \o w = Units(Bring(k, SubSeq(R, n + 1, Len(R))) \o T)
  <2> DEFINE u == SubSeq(R, 1, n)
             v == SubSeq(R, n + 1, Len(R))
  <2>1. PICK b \in Seq(Record) :
           /\ ReadRecords(c, n) = [c EXCEPT !.bio = b]
           /\ Len(b) = Len(c.bio) - 2 * n
           /\ b \o w = Units(SubSeq(Q, n + 1, Len(Q)))
    BY <1>4, <1>5
  <2>2. u \in Seq(Msg) /\ v \in Seq(Msg) /\ u \o v = R /\ Len(u) = n BY <1>10
  <2> HIDE DEF u, v
  <2>3. B = Bring(k, u) \o Bring(k, v)
    <3>1. Bring(k, u \o v) = Bring(k, u) \o Bring(k, v) BY <2>2, BringJoin
    <3>2. QED BY <2>2, <3>1 DEF B
  <2>4. Bring(k, u) \in Seq(Record) /\ Bring(k, v) \in Seq(Record) /\ Len(Bring(k, u)) = n
    BY <2>2, BringSeq
  <2> DEFINE x == Bring(k, u)
             y == Bring(k, v) \o T
  <2>5. Q = x \o y /\ y \in Seq(Record) /\ x \in Seq(Record) /\ Len(x) = n
    <3>1. (Bring(k, u) \o Bring(k, v)) \o T = Bring(k, u) \o (Bring(k, v) \o T)
      <4>1. Bring(k, u) \in Seq(Record) /\ Bring(k, v) \in Seq(Record) /\ T \in Seq(Record)
        BY <2>4, <1>2
      <4>2. QED BY <4>1, ConcatAssociative, SMTT(40)
    <3>2. y \in Seq(Record) BY <2>4, <1>2, ConcatProperties
    <3>3. QED BY <3>1, <3>2, <2>3, <2>4 DEF Q
  <2> HIDE DEF x, y
  <2>6. SubSeq(Q, n + 1, Len(Q)) = y
    <3>1. 0 \in 0 .. Len(y) BY <2>5, LenProperties
    <3>2. SubSeq(x \o y, Len(x) + 0 + 1, Len(x \o y)) = SubSeq(y, 0 + 1, Len(y))
      BY <2>5, <3>1, CutOfJoin
    <3>3. SubSeq(y, 1, Len(y)) = y BY <2>5, SubSeqFull
    <3>4. Len(x) + 0 + 1 = n + 1 /\ 0 + 1 = 1 BY <2>5, <1>5
    <3>5. QED BY <3>2, <3>3, <3>4, <2>5
  <2>7. b \o w = Units(y) BY <2>1, <2>6
  <2>8. QED BY <2>1, <2>7 DEF y, v
<1>13. ASSUME R # <<>> PROVE ~HasFlight(c)
  <2>1. CASE m = 0
    <3>1. Records(c) = <<>> BY <2>1, <1>4, EmptySeq
    <3>2. QED BY <3>1 DEF HasFlight
  <2>2. CASE m # 0
    <3>1. Len(R) # 0 BY <1>13, EmptySeq
    <3>2. 1 \in 1 .. n BY <2>2, <3>1, <1>4, <1>5, <1>w
    <3>3. Records(c)[1].flight = 0
      <4>1. Records(c)[1] = [flight |-> 0, keys |-> k, msgs |-> <<R[1]>>] BY <3>2, <1>6
      <4>2. QED BY <4>1
    <3>4. Head(Records(c)) = Records(c)[1] BY <1>4
    <3>5. QED BY <3>3, <3>4 DEF HasFlight
  <2>3. QED BY <2>1, <2>2
<1>14. QED BY <1>5, <1>9, <1>11, <1>12, <1>13 DEF Reads

-----------------------------------------------------------------------------
(* What a handler sends. *)

LEMMA KryptNothing ==
    ASSUME NEW x \in Work, x.c.out = <<>>
    PROVE  net_do_krypt(x) = x
<1>1. x.tx \in Seq(Record) /\ x.c \in Conn BY DEF Work
<1>2. x.tx \o <<>> = x.tx BY <1>1, ConcatEmptySeq
<1>3. [x.c EXCEPT !.out = <<>>] = x.c BY <1>1 DEF Conn
<1>4. QED BY <1>1, <1>2, <1>3 DEF net_do_krypt, Work

LEMMA KryptWork ==
    ASSUME NEW x \in Work
    PROVE  /\ net_do_krypt(x) \in Work
           /\ net_do_krypt(x).sent = x.sent /\ net_do_krypt(x).got = x.got
           /\ net_do_krypt(x).c = [x.c EXCEPT !.out = <<>>]
           /\ net_do_krypt(x).tx = x.tx \o x.c.out
<1>1. x.tx \in Seq(Record) /\ x.c.out \in Seq(Record) BY DEF Work, Conn
<1>2. x.tx \o x.c.out \in Seq(Record) BY <1>1, ConcatProperties
<1>3. <<>> \in Seq(Record) BY EmptySeq
<1>4. QED BY <1>2, <1>3 DEF net_do_krypt, Work, Conn

LEMMA SendWork ==
    ASSUME NEW x \in Work, NEW msg \in Msg
    PROVE  /\ net_send_msg(x, msg) \in Work
           /\ net_send_msg(x, msg).sent = Append(x.sent, msg)
           /\ net_send_msg(x, msg).got = x.got
           /\ net_send_msg(x, msg).c.bio = x.c.bio
           /\ net_send_msg(x, msg).c.session = x.c.session
           /\ net_send_msg(x, msg).c.life = x.c.life
<1> DEFINE e2 == Append(x.c.enc, msg)
           s2 == Append(x.sent, msg)
           y == [x EXCEPT !.c.enc = e2, !.sent = s2]
<1>1. e2 \in Seq(Msg) /\ s2 \in Seq(Msg)
  <2>1. x.c.enc \in Seq(Msg) /\ x.sent \in Seq(Msg) BY DEF Work, Conn
  <2>2. QED BY <2>1, AppendProperties
<1> HIDE DEF e2, s2
<1>2. /\ y \in Work /\ y.sent = s2 /\ y.got = x.got /\ y.c.bio = x.c.bio
      /\ y.c.session = x.c.session /\ y.c.life = x.c.life
  BY <1>1 DEF Work, Conn
<1> DEFINE record == IF Finished(y.c) THEN <<Data(y.c, y.c.enc)>> ELSE <<>>
           t2 == y.tx \o y.c.out \o record
<1> HIDE DEF y
<1>3. Data(y.c, y.c.enc) \in Record BY <1>2 DEF Data, Record, Keys, Work, Conn
<1>4. record \in Seq(Record) BY <1>3, EmptySeq
<1>5. t2 \in Seq(Record)
  <2>1. y.tx \in Seq(Record) /\ y.c.out \in Seq(Record) BY <1>2 DEF Work, Conn
  <2>2. y.tx \o y.c.out \in Seq(Record) BY <2>1, ConcatProperties
  <2> HIDE DEF record
  <2>3. QED BY <2>2, <1>4, ConcatProperties
<1>6. krypt_encrypt_buf(y) = [y EXCEPT !.tx = t2, !.c.out = <<>>, !.c.enc = <<>>]
  BY DEF krypt_encrypt_buf
<1> HIDE DEF t2, record
<1>7. <<>> \in Seq(Record) /\ <<>> \in Seq(Msg) BY EmptySeq
<1>8. /\ krypt_encrypt_buf(y) \in Work /\ krypt_encrypt_buf(y).sent = y.sent
      /\ krypt_encrypt_buf(y).got = y.got /\ krypt_encrypt_buf(y).c.bio = y.c.bio
      /\ krypt_encrypt_buf(y).c.session = y.c.session
      /\ krypt_encrypt_buf(y).c.life = y.c.life
  <2> DEFINE z == [y EXCEPT !.tx = t2, !.c.out = <<>>, !.c.enc = <<>>]
  <2>1. y \in Work BY <1>2
  <2>2. z \in Work BY <2>1, <1>5, <1>7 DEF Work, Conn
  <2>3. /\ z.sent = y.sent /\ z.got = y.got /\ z.c.bio = y.c.bio
        /\ z.c.session = y.c.session /\ z.c.life = y.c.life
    BY <2>1 DEF Work, Conn
  <2> HIDE DEF z
  <2>4. krypt_encrypt_buf(y) = z BY <1>6 DEF z
  <2>5. QED BY <2>2, <2>3, <2>4
<1>9. net_send_msg(x, msg) = IF x.c.status # "SECURE" THEN y ELSE krypt_encrypt_buf(y)
  BY DEF net_send_msg, y, e2, s2
<1>10. QED BY <1>2, <1>8, <1>9 DEF s2

(* On a secure connection, with no handshake under way and nothing in the buffers,
   a message is sent at once, in a record of its own. *)
LEMMA SendSecure ==
    ASSUME NEW x \in Work, NEW msg \in Msg, x.c.status = "SECURE", Finished(x.c),
           x.c.out = <<>>, x.c.enc = <<>>
    PROVE  /\ net_send_msg(x, msg) =
                [x EXCEPT !.tx = x.tx \o Bring(Keys(x.c), <<msg>>), !.sent = Append(x.sent, msg)]
           /\ net_send_msg(x, msg).c = x.c
           /\ net_send_msg(x, msg).tx = x.tx \o Bring(Keys(x.c), <<msg>>)
           /\ Bring(Keys(x.c), <<msg>>) \in Seq(Record)
<1> DEFINE s2 == Append(x.sent, msg)
           y == [x EXCEPT !.c.enc = <<msg>>, !.sent = s2]
           b == Bring(Keys(x.c), <<msg>>)
<1>1. Append(x.c.enc, msg) = <<msg>> OBVIOUS
<1>2. y.c = [x.c EXCEPT !.enc = <<msg>>] /\ y.tx = x.tx /\ Finished(y.c) /\ Keys(y.c) = Keys(x.c)
      /\ y.c.enc = <<msg>> /\ y.c.out = <<>>
  BY DEF Finished, Keys, Work, Conn
<1>3. <<Data(y.c, y.c.enc)>> = b /\ b \in Seq(Record)
  <2>1. Keys(x.c) \in 0 .. 2 /\ <<msg>> \in Seq(Msg) /\ Len(<<msg>>) = 1 /\ <<msg>>[1] = msg
    BY DEF Keys
  <2> DEFINE ms == <<msg>>
  <2>2. b = [i \in 1 .. 1 |-> [flight |-> 0, keys |-> Keys(x.c), msgs |-> <<ms[i]>>]]
    BY <2>1 DEF Bring
  <2>3. b = <<[flight |-> 0, keys |-> Keys(x.c), msgs |-> <<msg>>]>> BY <2>1, <2>2
  <2>4. b \in Seq(Record)
    <3> HIDE DEF ms
    <3>1. ms \in Seq(Msg) /\ Keys(x.c) \in 0 .. 2 BY <2>1 DEF ms
    <3>2. Bring(Keys(x.c), ms) \in Seq(Record) BY <3>1, BringSeq
    <3>3. QED BY <3>2 DEF ms
  <2>5. QED BY <2>3, <2>4, <1>2 DEF Data
<1>4. x.tx \o <<>> = x.tx
  <2>1. x.tx \in Seq(Record) BY DEF Work
  <2>2. QED BY <2>1, ConcatEmptySeq
<1>5. net_send_msg(x, msg) = krypt_encrypt_buf(y) BY <1>1 DEF net_send_msg
<1> HIDE DEF b
<1>6. krypt_encrypt_buf(y) = [y EXCEPT !.tx = x.tx \o b, !.c.out = <<>>, !.c.enc = <<>>]
  <2> HIDE DEF y
  <2>1. QED BY <1>2, <1>3, <1>4 DEF krypt_encrypt_buf
<1>7. [[x.c EXCEPT !.enc = <<msg>>] EXCEPT !.out = <<>>, !.enc = <<>>] = x.c
  BY DEF Work, Conn
<1> HIDE DEF s2
<1>8. [y EXCEPT !.tx = x.tx \o b, !.c.out = <<>>, !.c.enc = <<>>]
        = [x EXCEPT !.tx = x.tx \o b, !.sent = s2]
  BY <1>7 DEF Work
<1>9. /\ [x EXCEPT !.tx = x.tx \o b, !.sent = s2].c = x.c
      /\ [x EXCEPT !.tx = x.tx \o b, !.sent = s2].tx = x.tx \o b
  BY DEF Work
<1>10. QED
  <2> HIDE DEF y
  <2>1. net_send_msg(x, msg) = [x EXCEPT !.tx = x.tx \o b, !.sent = s2]
    BY <1>5, <1>6, <1>8
  <2>2. QED BY <2>1, <1>9, <1>3 DEF b, s2

-----------------------------------------------------------------------------
(* Prefixes. *)

LEMMA PrefixJoin ==
    ASSUME NEW S, NEW s \in Seq(S), NEW r \in Seq(S)
    PROVE  IsPrefix(s, s \o r)
<1>1. Len(s) \in Nat /\ Len(r) \in Nat /\ Len(s \o r) = Len(s) + Len(r)
  BY LenProperties, ConcatProperties
<1>2. SubSeq(s \o r, 1, Len(s)) = s
  <2>1. 0 \in 0 .. Len(r) /\ Len(s) + 0 = Len(s) BY <1>1
  <2>2. SubSeq(s \o r, 1, Len(s) + 0) = s \o SubSeq(r, 1, 0) BY <2>1, CutOfJoin
  <2>3. SubSeq(r, 1, 0) = <<>> BY SubSeqEmpty
  <2>4. s \o <<>> = s BY ConcatEmptySeq
  <2>5. QED BY <2>1, <2>2, <2>3, <2>4
<1>3. SubSeq(s, 1, Len(s)) = s BY SubSeqFull
<1>4. QED BY <1>1, <1>2, <1>3 DEF IsPrefix

LEMMA PrefixRest ==
    ASSUME NEW S, NEW s \in Seq(S), NEW t \in Seq(S), IsPrefix(s, t)
    PROVE  \E r \in Seq(S) : t = s \o r
<1>1. Len(s) \in Nat /\ Len(t) \in Nat /\ Len(s) <= Len(t) BY LenProperties DEF IsPrefix
<1>2. SubSeq(s, 1, Len(s)) = s BY SubSeqFull
<1>3. SubSeq(t, 1, Len(s)) = s BY <1>1, <1>2 DEF IsPrefix
<1> DEFINE n == Len(s)
<1>4. n \in 0 .. Len(t) BY <1>1
<1>5. SubSeq(t, n + 1, Len(t)) \in Seq(S) /\ SubSeq(t, 1, n) \o SubSeq(t, n + 1, Len(t)) = t
  <2> HIDE DEF n
  <2>1. QED BY <1>4, CutAndJoin
<1>6. QED BY <1>3, <1>5

LEMMA PrefixTrans ==
    ASSUME NEW S, NEW s \in Seq(S), NEW t \in Seq(S), NEW u \in Seq(S),
           IsPrefix(s, t), IsPrefix(t, u)
    PROVE  IsPrefix(s, u)
<1>1. PICK a \in Seq(S) : t = s \o a BY PrefixRest
<1>2. PICK b \in Seq(S) : u = t \o b BY PrefixRest
<1>3. u = s \o (a \o b) BY <1>1, <1>2, ConcatAssociative
<1>4. a \o b \in Seq(S) BY ConcatProperties
<1>5. QED BY <1>3, <1>4, PrefixJoin

LEMMA PrefixAppend ==
    ASSUME NEW S, NEW s \in Seq(S), NEW e \in S
    PROVE  IsPrefix(s, Append(s, e))
<1>1. <<e>> \in Seq(S) OBVIOUS
<1>2. Append(s, e) = s \o <<e>> BY AppendIsConcat
<1>3. QED BY <1>1, <1>2, PrefixJoin

LEMMA PrefixSelf ==
    ASSUME NEW S, NEW s \in Seq(S)
    PROVE  IsPrefix(s, s)
<1>1. <<>> \in Seq(S) /\ s \o <<>> = s BY EmptySeq, ConcatEmptySeq
<1> DEFINE e == <<>>
<1>2. e \in Seq(S) /\ s \o e = s BY <1>1
<1> HIDE DEF e
<1>3. QED BY <1>2, PrefixJoin

-----------------------------------------------------------------------------
(* What a message does. *)

LEMMA ControlMsg ==
    \A op \in {"provRequest", "provResponse", "auth", "secureStepUp", "success", "netinfo",
              "address"} :
      Control(op) \in Msg /\ Control(op).op = op
BY DEF Control, Message, Msg

LEMMA StepUpWork ==
    ASSUME NEW x \in Work
    PROVE  LET y == net_step_up([x EXCEPT !.c.session = "WAIT_STEPUP"])
           IN  /\ y \in Work /\ y.sent = x.sent /\ y.got = x.got
               /\ y.c.bio = x.c.bio /\ y.c.life = x.c.life
<1> DEFINE t2 == Append(x.tx, Flight(5))
           y == [x EXCEPT !.c.session = "WAIT_STEPUP", !.c.hs = 5, !.tx = t2,
                          !.c.status = "HANDSHAKE"]
<1>1. t2 \in Seq(Record)
  <2>1. x.tx \in Seq(Record) /\ Flight(5) \in Record BY FlightRecord DEF Work
  <2>2. QED BY <2>1, AppendProperties
<1>2. net_step_up([x EXCEPT !.c.session = "WAIT_STEPUP"]) = y
  BY DEF net_step_up, Work, Conn
<1> HIDE DEF t2
<1>3. y \in Work /\ y.sent = x.sent /\ y.got = x.got /\ y.c.bio = x.c.bio /\ y.c.life = x.c.life
  <2> DEFINE c == [x.c EXCEPT !.session = "WAIT_STEPUP", !.hs = 5, !.status = "HANDSHAKE"]
  <2>1. c \in Conn /\ c.bio = x.c.bio /\ c.life = x.c.life
    <3>1. x.c \in Conn /\ 5 \in 0 .. 9 BY DEF Work
    <3>2. QED BY <3>1 DEF Conn
  <2>2. y = [x EXCEPT !.c = c, !.tx = t2] BY DEF Work, Conn
  <2> HIDE DEF c
  <2>3. [x EXCEPT !.c = c, !.tx = t2] \in Work BY <1>1, <2>1 DEF Work
  <2>4. y.c = c /\ y.sent = x.sent /\ y.got = x.got BY <2>2 DEF Work
  <2> HIDE DEF y
  <2>5. QED BY <2>1, <2>2, <2>3, <2>4
<1>4. QED BY <1>2, <1>3

LEMMA DispatchWork ==
    ASSUME NEW x \in Work, NEW msg \in Msg
    PROVE  /\ dispatch(x, msg) \in Work
           /\ dispatch(x, msg).got = Append(x.got, msg)
           /\ IsPrefix(x.sent, dispatch(x, msg).sent)
           /\ dispatch(x, msg).c.bio = x.c.bio
           /\ dispatch(x, msg).c.life = x.c.life
<1> DEFINE g2 == Append(x.got, msg)
           y == [x EXCEPT !.got = g2]
           Good(z) == /\ z \in Work /\ z.got = g2 /\ IsPrefix(x.sent, z.sent)
                      /\ z.c.bio = x.c.bio /\ z.c.life = x.c.life
<1>1. g2 \in Seq(Msg)
  <2>1. x.got \in Seq(Msg) BY DEF Work
  <2>2. QED BY <2>1, AppendProperties
<1> HIDE DEF g2
<1>2. y \in Work /\ y.got = g2 /\ y.sent = x.sent /\ y.c = x.c /\ x.sent \in Seq(Msg) /\ x.c \in Conn
  BY <1>1 DEF Work
<1> HIDE DEF y
<1>3. ASSUME NEW m \in Msg PROVE Good(net_send_msg(y, m))
  <2>1. IsPrefix(x.sent, Append(x.sent, m)) BY <1>2, PrefixAppend
  <2> DEFINE z == net_send_msg(y, m)
  <2>2. z \in Work /\ z.sent = Append(y.sent, m) /\ z.got = y.got /\ z.c.bio = y.c.bio
        /\ z.c.life = y.c.life
    <3>1. y \in Work BY <1>2
    <3>2. QED BY <3>1, SendWork
  <2> HIDE DEF z
  <2>3. Good(z) BY <1>2, <2>1, <2>2
  <2>4. QED BY <2>3 DEF z
<1>4. IsPrefix(x.sent, x.sent) BY <1>2, PrefixSelf
<1>5. Good(y) BY <1>2, <1>4
<1>6. Good(authRequest(y))
  <2>1. Control("secureStepUp") \in Msg BY ControlMsg
  <2> DEFINE z == net_send_msg(y, Control("secureStepUp"))
  <2>2. Good(z) BY <1>3, <2>1
  <2>3. authRequest(y) = net_step_up([z EXCEPT !.c.session = "WAIT_STEPUP"])
    BY DEF authRequest
  <2> HIDE DEF z
  <2>4. QED BY <2>2, <2>3, StepUpWork
<1>7. Good([y EXCEPT !.c.session = "AUTHED"]) BY <1>5 DEF Work, Conn
<1>8. Control("netinfo") \in Msg /\ Control("address") \in Msg /\ Control("auth") \in Msg
  BY ControlMsg
<1>9. dispatch(x, msg) =
        CASE msg.op = "auth"     -> authRequest(y)
          [] msg.op = "success"  -> net_send_msg(y, Control("netinfo"))
          [] msg.op = "netinfo"  -> net_send_msg(y, Control("address"))
          [] msg.op = "address"  -> [y EXCEPT !.c.session = "AUTHED"]
          [] msg.op = "provResponse" -> net_send_msg(y, Control("auth"))
          [] msg.op \in {"provRequest", "secureStepUp", "frame"} -> y
  BY DEF dispatch, y, g2
<1>10. msg.op \in {"provRequest", "provResponse", "auth", "secureStepUp", "success", "netinfo",
                  "address", "frame"}
  BY DEF Msg
<1>11. /\ Good(net_send_msg(y, Control("netinfo"))) /\ Good(net_send_msg(y, Control("address")))
       /\ Good(net_send_msg(y, Control("auth")))
  BY <1>3, <1>8
<1> HIDE DEF Good
<1>12. Good(dispatch(x, msg)) BY <1>5, <1>6, <1>7, <1>9, <1>10, <1>11
<1>13. QED BY <1>12 DEF Good, g2

(* A frame is handed over; so is the message that leads to the second handshake. *)
LEMMA DispatchPlain ==
    ASSUME NEW x \in Work, NEW msg \in Msg, msg.op \in {"provRequest", "secureStepUp", "frame"}
    PROVE  dispatch(x, msg) = [x EXCEPT !.got = Append(x.got, msg)]
BY DEF dispatch

-----------------------------------------------------------------------------
(* What a queue of messages does. *)

LEMMA GrowByOne ==
    ASSUME NEW S, NEW g \in Seq(S), NEW s \in Seq(S), NEW i \in 0 .. Len(s) - 1
    PROVE  /\ g \o SubSeq(s, 1, i) \in Seq(S)
           /\ g \o SubSeq(s, 1, i + 1) \in Seq(S)
           /\ Append(g \o SubSeq(s, 1, i), s[i + 1]) = g \o SubSeq(s, 1, i + 1)
<1>1. Len(s) \in Nat BY LenProperties
<1>2. i \in 0 .. Len(s) /\ i + 1 \in 0 .. Len(s) /\ i + 1 \in 1 .. Len(s) /\ 1 \in 1 .. Len(s)
      /\ (i + 1) - 1 = i
  BY <1>1
<1> DEFINE a == SubSeq(s, 1, i)
           j == i + 1
           b == SubSeq(s, 1, j)
           e == s[j]
<1>3. a \in Seq(S) BY <1>2, CutAndJoin
<1>4. b \in Seq(S)
  <2> HIDE DEF j
  <2>1. j \in 0 .. Len(s) BY <1>2 DEF j
  <2>2. QED BY <2>1, CutAndJoin
<1>5. e \in S BY <1>2, ElementOfSeq
<1>6. b = a \o <<e>>
  <2> HIDE DEF j
  <2>1. j \in 1 .. Len(s) /\ 1 \in 1 .. Len(s) /\ j - 1 = i BY <1>2 DEF j
  <2>2. SubSeq(s, 1, j) = SubSeq(s, 1, j - 1) \o <<s[j]>> BY <2>1, SubSeqRecursiveSecond
  <2>3. QED BY <2>1, <2>2
<1> HIDE DEF a, b, e, j
<1>7. g \o a \in Seq(S) /\ g \o b \in Seq(S) /\ <<e>> \in Seq(S)
  BY <1>3, <1>4, <1>5, ConcatProperties
<1>8. Append(g \o a, e) = (g \o a) \o <<e>> BY <1>5, <1>7, AppendIsConcat
<1>9. (g \o a) \o <<e>> = g \o (a \o <<e>>) BY <1>3, <1>7, ConcatAssociative
<1>10. QED BY <1>6, <1>7, <1>8, <1>9 DEF a, b, e, j

LEMMA GrowFrom ==
    ASSUME NEW S, NEW g \in Seq(S), NEW s \in Seq(S)
    PROVE  g \o SubSeq(s, 1, 0) = g /\ g \o SubSeq(s, 1, Len(s)) = g \o s
BY SubSeqEmpty, SubSeqFull, ConcatEmptySeq

LEMMA DispatchedWork ==
    ASSUME NEW x \in Work, NEW msgs \in Seq(Msg)
    PROVE  /\ Dispatched(x, msgs) \in Work
           /\ Dispatched(x, msgs).got = x.got \o msgs
           /\ IsPrefix(x.sent, Dispatched(x, msgs).sent)
           /\ Dispatched(x, msgs).c.bio = x.c.bio
           /\ Dispatched(x, msgs).c.life = x.c.life
<1>1. PICK a : /\ Dispatched(x, msgs) = a[Len(msgs)]
               /\ a[0] = x
               /\ \A i \in 1 .. Len(msgs) : a[i] = dispatch(a[i - 1], msgs[i])
  BY DispatchedSteps
<1> DEFINE n == Len(msgs)
           Good(i) == /\ a[i] \in Work /\ a[i].got = x.got \o SubSeq(msgs, 1, i)
                      /\ IsPrefix(x.sent, a[i].sent)
                      /\ a[i].c.bio = x.c.bio /\ a[i].c.life = x.c.life
           I == {i \in 0 .. n : Good(i)}
<1>2. n \in Nat /\ x.got \in Seq(Msg) /\ x.sent \in Seq(Msg) BY LenProperties DEF Work
<1>3. x.got \o SubSeq(msgs, 1, 0) = x.got /\ x.got \o SubSeq(msgs, 1, n) = x.got \o msgs
  BY <1>2, GrowFrom
<1>4. IsPrefix(x.sent, x.sent) BY <1>2, PrefixSelf
<1>5. 0 \in I BY <1>1, <1>2, <1>3, <1>4
<1>6. ASSUME NEW i \in 0 .. n - 1, Good(i) PROVE Good(i + 1)
  <2> DEFINE b == a[i]
             m == msgs[i + 1]
             d == dispatch(b, m)
  <2>1. i + 1 \in 1 .. n /\ (i + 1) - 1 = i BY <1>2
  <2>2. a[i + 1] = d BY <2>1, <1>1
  <2>3. m \in Msg /\ b \in Work BY <2>1, <1>6, ElementOfSeq
  <2>4. Append(x.got \o SubSeq(msgs, 1, i), m) = x.got \o SubSeq(msgs, 1, i + 1)
    BY <1>2, GrowByOne
  <2>5. /\ b.got = x.got \o SubSeq(msgs, 1, i) /\ IsPrefix(x.sent, b.sent)
        /\ b.c.bio = x.c.bio /\ b.c.life = x.c.life
    BY <1>6
  <2> HIDE DEF b, m
  <2>6. /\ d \in Work /\ d.got = Append(b.got, m) /\ IsPrefix(b.sent, d.sent)
        /\ d.c.bio = b.c.bio /\ d.c.life = b.c.life
    BY <2>3, DispatchWork
  <2> HIDE DEF d
  <2>7. IsPrefix(x.sent, d.sent)
    <3>1. b.sent \in Seq(Msg) /\ d.sent \in Seq(Msg) BY <2>3, <2>6 DEF Work
    <3>2. QED BY <3>1, <2>5, <2>6, <1>2, PrefixTrans
  <2>8. QED BY <2>2, <2>4, <2>5, <2>6, <2>7
<1>7. \A i \in 0 .. n - 1 : i \in I => i + 1 \in I
  <2> SUFFICES ASSUME NEW i \in 0 .. n - 1, i \in I PROVE i + 1 \in I
    OBVIOUS
  <2>1. i + 1 \in 0 .. n BY <1>2
  <2> HIDE DEF Good
  <2>2. QED BY <2>1, <1>6
<1>8. n \in I
  <2> HIDE DEF I, n
  <2>1. 0 .. n \subseteq I BY <1>2, <1>5, <1>7, Induction
  <2>2. QED BY <2>1, <1>2
<1>9. QED BY <1>1, <1>3, <1>8

-----------------------------------------------------------------------------
(* What a connection that is as secure as it will be does with messages.   *)

Later == [op : {"success", "netinfo", "address", "frame"}, n : Nat]
Talk == Seq(Later)

LEMMA TalkIsSeq ==
    ASSUME NEW A \in Talk
    PROVE  A \in Seq(Msg)
<1>1. Later \subseteq Msg BY DEF Later, Msg
<1>2. A \in [1 .. Len(A) -> Later] /\ Len(A) \in Nat BY LenProperties DEF Talk
<1>3. A \in [1 .. Len(A) -> Msg] BY <1>1, <1>2
<1>4. QED BY <1>2, <1>3, FunctionIsSeq

LEMMA TalkJoin ==
    ASSUME NEW A \in Talk, NEW B \in Talk
    PROVE  A \o B \in Talk
BY ConcatProperties DEF Talk

LEMMA NoTalk == <<>> \in Talk
BY EmptySeq DEF Talk

LEMMA BringNone == \A k : Bring(k, <<>>) = <<>>
<1> SUFFICES ASSUME NEW k PROVE Bring(k, <<>>) = <<>>
  OBVIOUS
<1>1. Len(<<>>) = 0 OBVIOUS
<1>2. Bring(k, <<>>) = [i \in 1 .. 0 |-> [flight |-> 0, keys |-> k, msgs |-> <<<<>>[i]>>]]
  BY <1>1 DEF Bring
<1> DEFINE e(i) == [flight |-> 0, keys |-> k, msgs |-> <<<<>>[i]>>]
<1>3. Bring(k, <<>>) \in [1 .. 0 -> Record]
  <2>1. Bring(k, <<>>) = [i \in 1 .. 0 |-> e(i)] BY <1>2
  <2> HIDE DEF e
  <2>2. [i \in 1 .. 0 |-> e(i)] \in [1 .. 0 -> Record] OBVIOUS
  <2>3. QED BY <2>1, <2>2
<1>4. Bring(k, <<>>) \in Seq(Record) /\ Len(Bring(k, <<>>)) = 0 BY <1>3, FunctionIsSeq
<1>5. QED BY <1>4, EmptySeq

(* What x became: it was handed A and sent S, each message in a record. *)
Talked(x, z, A, S) ==
  /\ z \in Work
  /\ z.got = x.got \o A
  /\ z.sent = x.sent \o S
  /\ z.tx = x.tx \o Bring(Keys(x.c), S)
  /\ z.c = [x.c EXCEPT !.session = z.c.session]

Ripe(x) ==
  /\ x \in Work
  /\ x.c.status = "SECURE" /\ Finished(x.c) /\ x.c.out = <<>> /\ x.c.enc = <<>>

LEMMA TalkOfNothing ==
    ASSUME NEW x \in Work
    PROVE  Talked(x, x, <<>>, <<>>)
<1>1. x.got \in Seq(Msg) /\ x.sent \in Seq(Msg) /\ x.tx \in Seq(Record) /\ x.c \in Conn
  BY DEF Work
<1>2. x.got \o <<>> = x.got /\ x.sent \o <<>> = x.sent /\ x.tx \o <<>> = x.tx
  BY <1>1, ConcatEmptySeq
<1>3. x.c = [x.c EXCEPT !.session = x.c.session] BY <1>1 DEF Conn
<1>4. QED BY <1>2, <1>3, BringNone DEF Talked

LEMMA SendTalk ==
    ASSUME NEW x, Ripe(x), NEW m \in Later
    PROVE  Talked(x, net_send_msg(x, m), <<>>, <<m>>)
<1> DEFINE z == net_send_msg(x, m)
           b == Bring(Keys(x.c), <<m>>)
<1>1. x \in Work /\ m \in Msg BY DEF Ripe, Later, Msg
<1>2. z \in Work /\ z.sent = Append(x.sent, m) /\ z.got = x.got BY <1>1, SendWork
<1>3. z.c = x.c /\ z.tx = x.tx \o b BY <1>1, SendSecure DEF Ripe
<1>4. x.c \in Conn /\ x.sent \in Seq(Msg) /\ x.got \in Seq(Msg) BY <1>1 DEF Work
<1>5. Append(x.sent, m) = x.sent \o <<m>> /\ x.got \o <<>> = x.got
  BY <1>1, <1>4, AppendIsConcat, ConcatEmptySeq
<1>6. x.c = [x.c EXCEPT !.session = x.c.session] BY <1>4 DEF Conn
<1> HIDE DEF z
<1>7. Talked(x, z, <<>>, <<m>>) BY <1>2, <1>3, <1>5, <1>6 DEF Talked
<1>8. QED BY <1>7 DEF z

LEMMA TalkStep ==
    ASSUME NEW x, Ripe(x), NEW m \in Later
    PROVE  \E S \in Talk : Talked(x, dispatch(x, m), <<m>>, S)
<1> DEFINE g2 == Append(x.got, m)
           y == [x EXCEPT !.got = g2]
<1>1. x \in Work /\ m \in Msg /\ x.got \in Seq(Msg) /\ x.c \in Conn
  BY DEF Ripe, Later, Msg, Work
<1>2. g2 \in Seq(Msg) /\ g2 = x.got \o <<m>> BY <1>1, AppendProperties, AppendIsConcat
<1> HIDE DEF g2
<1>3. y \in Work /\ y.got = g2 /\ y.sent = x.sent /\ y.c = x.c /\ y.tx = x.tx
  BY <1>1, <1>2 DEF Work
<1>4. dispatch(x, m) =
        CASE m.op = "success"  -> net_send_msg(y, Control("netinfo"))
          [] m.op = "netinfo"  -> net_send_msg(y, Control("address"))
          [] m.op = "address"  -> [y EXCEPT !.c.session = "AUTHED"]
          [] m.op = "frame" -> y
  <2>1. m.op \in {"success", "netinfo", "address", "frame"} BY DEF Later
  <2>2. QED BY <2>1 DEF dispatch, y, g2
<1> HIDE DEF y
<1>5. Ripe(y) BY <1>3 DEF Ripe
<1>6. ASSUME NEW l \in Later
      PROVE  Talked(x, net_send_msg(y, l), <<m>>, <<l>>) /\ <<l>> \in Talk
  <2> DEFINE z == net_send_msg(y, l)
  <2>1. Talked(y, z, <<>>, <<l>>) BY <1>5, SendTalk
  <2> HIDE DEF z
  <2>2. z.got = g2
    <3>1. z.got = y.got \o <<>> BY <2>1 DEF Talked
    <3>2. g2 \o <<>> = g2 BY <1>2, ConcatEmptySeq
    <3>3. QED BY <3>1, <3>2, <1>3
  <2>3. Talked(x, z, <<m>>, <<l>>) BY <2>1, <2>2, <1>2, <1>3 DEF Talked
  <2>4. <<l>> \in Talk BY DEF Talk
  <2>5. QED BY <2>3, <2>4 DEF z
<1>7. Control("netinfo") \in Later /\ Control("address") \in Later
  BY DEF Control, Message, Later
<1>8. ASSUME NEW z, z \in Work, z.got = g2, z.sent = x.sent, z.tx = x.tx,
             z.c = [x.c EXCEPT !.session = z.c.session]
      PROVE  \E S \in Talk : Talked(x, z, <<m>>, S)
  <2>1. x.sent \in Seq(Msg) /\ x.tx \in Seq(Record) BY <1>1 DEF Work
  <2>2. x.sent \o <<>> = x.sent /\ x.tx \o <<>> = x.tx BY <2>1, ConcatEmptySeq
  <2>3. Talked(x, z, <<m>>, <<>>) BY <1>8, <1>2, <2>2, BringNone DEF Talked
  <2>4. QED BY <2>3, NoTalk
<1>9. CASE m.op = "success"
  <2>1. dispatch(x, m) = net_send_msg(y, Control("netinfo")) BY <1>4, <1>9
  <2>2. QED BY <2>1, <1>6, <1>7
<1>10. CASE m.op = "netinfo"
  <2>1. dispatch(x, m) = net_send_msg(y, Control("address")) BY <1>4, <1>10
  <2>2. QED BY <2>1, <1>6, <1>7
<1>11. CASE m.op = "address"
  <2> DEFINE c == [y.c EXCEPT !.session = "AUTHED"]
             z == [y EXCEPT !.c = c]
  <2>1. c \in Conn /\ c.session = "AUTHED" BY <1>1, <1>3 DEF Conn
  <2>2. z \in Work /\ z.got = g2 /\ z.sent = x.sent /\ z.tx = x.tx /\ z.c = c
    <3> HIDE DEF c
    <3>1. QED BY <1>3, <2>1 DEF Work
  <2>3. z.c = [x.c EXCEPT !.session = z.c.session] BY <2>1, <2>2, <1>3
  <2>4. dispatch(x, m) = z BY <1>4, <1>11
  <2> HIDE DEF z
  <2>5. QED BY <2>2, <2>3, <2>4, <1>8
<1>12. CASE m.op = "frame"
  <2>1. dispatch(x, m) = y BY <1>4, <1>12
  <2>2. y.c = [x.c EXCEPT !.session = y.c.session] BY <1>1, <1>3 DEF Conn
  <2>3. QED BY <2>1, <2>2, <1>3, <1>8
<1>13. QED
  <2>1. m.op \in {"success", "netinfo", "address", "frame"} BY DEF Later
  <2>2. QED BY <2>1, <1>9, <1>10, <1>11, <1>12

(* One after the other. *)
LEMMA TalkChain ==
    ASSUME NEW x, Ripe(x), NEW y, NEW z,
           NEW A \in Seq(Msg), NEW S \in Talk, NEW B \in Seq(Msg), NEW U \in Talk,
           Talked(x, y, A, S), Talked(y, z, B, U)
    PROVE  Talked(x, z, A \o B, S \o U) /\ Ripe(y)
<1>1. x \in Work /\ y \in Work /\ z \in Work BY DEF Ripe, Talked
<1>2. S \in Seq(Msg) /\ U \in Seq(Msg) BY TalkIsSeq
<1>3. x.got \in Seq(Msg) /\ x.sent \in Seq(Msg) /\ x.tx \in Seq(Record) /\ x.c \in Conn
  BY <1>1 DEF Work
<1>4. y.c = [x.c EXCEPT !.session = y.c.session] /\ z.c = [y.c EXCEPT !.session = z.c.session]
  BY DEF Talked
<1>5. /\ y.c.hs = x.c.hs /\ y.c.status = x.c.status /\ y.c.out = x.c.out /\ y.c.enc = x.c.enc
      /\ z.c = [x.c EXCEPT !.session = z.c.session]
  BY <1>3, <1>4 DEF Conn
<1>6. Keys(y.c) = Keys(x.c) /\ Ripe(y) /\ Keys(x.c) \in 0 .. 2
  BY <1>1, <1>5 DEF Keys, Ripe, Finished
<1> DEFINE k == Keys(x.c)
<1>7. Bring(k, S) \in Seq(Record) /\ Bring(k, U) \in Seq(Record)
  <2> HIDE DEF k
  <2>1. k \in 0 .. 2 BY <1>6 DEF k
  <2>2. QED BY <2>1, <1>2, BringSeq
<1>8. Bring(k, S \o U) = Bring(k, S) \o Bring(k, U)
  <2> HIDE DEF k
  <2>1. k \in 0 .. 2 BY <1>6 DEF k
  <2>2. QED BY <2>1, <1>2, BringJoin
<1>9. /\ (x.got \o A) \o B = x.got \o (A \o B)
      /\ (x.sent \o S) \o U = x.sent \o (S \o U)
      /\ (x.tx \o Bring(k, S)) \o Bring(k, U) = x.tx \o (Bring(k, S) \o Bring(k, U))
  <2>1. A \in Seq(Msg) /\ B \in Seq(Msg) /\ x.got \in Seq(Msg) BY <1>3
  <2>2. (x.got \o A) \o B = x.got \o (A \o B)
    <3> DEFINE a == x.got
    <3>1. a \in Seq(Msg) BY <2>1
    <3> HIDE DEF a
    <3>2. (a \o A) \o B = a \o (A \o B) BY <3>1, ConcatAssociative
    <3>3. QED BY <3>2 DEF a
  <2>3. (x.sent \o S) \o U = x.sent \o (S \o U)
    <3> DEFINE a == x.sent
               b == S
               d == U
    <3>1. a \in Seq(Msg) /\ b \in Seq(Msg) /\ d \in Seq(Msg) BY <1>2, <1>3
    <3> HIDE DEF a, b, d
    <3>2. (a \o b) \o d = a \o (b \o d) BY <3>1, ConcatAssociative, SMTT(40)
    <3>3. QED BY <3>2 DEF a, b, d
  <2>4. (x.tx \o Bring(k, S)) \o Bring(k, U) = x.tx \o (Bring(k, S) \o Bring(k, U))
    <3> DEFINE a == x.tx
               b == Bring(k, S)
               d == Bring(k, U)
    <3>1. a \in Seq(Record) /\ b \in Seq(Record) /\ d \in Seq(Record) BY <1>3, <1>7
    <3> HIDE DEF a, b, d
    <3>2. (a \o b) \o d = a \o (b \o d) BY <3>1, ConcatAssociative
    <3>3. QED BY <3>2 DEF a, b, d
  <2>5. QED BY <2>2, <2>3, <2>4
<1>10. /\ y.got = x.got \o A /\ y.sent = x.sent \o S /\ y.tx = x.tx \o Bring(k, S)
       /\ z.got = y.got \o B /\ z.sent = y.sent \o U /\ z.tx = y.tx \o Bring(k, U)
  BY <1>6 DEF Talked
<1>11. z.tx = x.tx \o Bring(k, S \o U) BY <1>8, <1>9, <1>10
<1>12. QED BY <1>1, <1>5, <1>6, <1>9, <1>10, <1>11 DEF Talked

LEMMA TalkWork ==
    ASSUME NEW x, Ripe(x), NEW A \in Talk
    PROVE  \E S \in Talk : Talked(x, Dispatched(x, A), A, S)
<1>0. A \in Seq(Msg) BY TalkIsSeq
<1>1. PICK a : /\ Dispatched(x, A) = a[Len(A)]
               /\ a[0] = x
               /\ \A i \in 1 .. Len(A) : a[i] = dispatch(a[i - 1], A[i])
  BY <1>0, DispatchedSteps
<1> DEFINE n == Len(A)
           Good(i) == \E S \in Talk : Talked(x, a[i], SubSeq(A, 1, i), S)
           I == {i \in 0 .. n : Good(i)}
<1>2. n \in Nat BY LenProperties DEF Talk
<1>3. SubSeq(A, 1, 0) = <<>> /\ SubSeq(A, 1, n) = A BY <1>0, SubSeqEmpty, SubSeqFull
<1>4. Good(0)
  <2>1. x \in Work BY DEF Ripe
  <2>2. Talked(x, x, <<>>, <<>>) BY <2>1, TalkOfNothing
  <2>3. QED BY <2>2, <1>1, <1>3, NoTalk
<1>5. ASSUME NEW i \in 0 .. n - 1, Good(i) PROVE Good(i + 1)
  <2> DEFINE m == A[i + 1]
             P == SubSeq(A, 1, i)
  <2>1. i + 1 \in 1 .. n /\ (i + 1) - 1 = i /\ i \in 0 .. n BY <1>2
  <2>2. a[i + 1] = dispatch(a[i], m) BY <2>1, <1>1
  <2>3. m \in Later BY <2>1, ElementOfSeq DEF Talk
  <2>4. P \in Seq(Msg) BY <1>0, <2>1, CutAndJoin
  <2>5. SubSeq(A, 1, i + 1) = P \o <<m>>
    <3> DEFINE j == i + 1
    <3> HIDE DEF j
    <3>1. j \in 1 .. Len(A) /\ 1 \in 1 .. Len(A) /\ j - 1 = i BY <2>1, <1>2 DEF j
    <3>2. SubSeq(A, 1, j) = SubSeq(A, 1, j - 1) \o <<A[j]>>
      BY <1>0, <3>1, SubSeqRecursiveSecond
    <3>3. QED BY <3>1, <3>2 DEF j
  <2>6. PICK S \in Talk : Talked(x, a[i], P, S) BY <1>5
  <2>7. x \in Work /\ <<m>> \in Seq(Msg) BY <2>3 DEF Ripe, Later, Msg
  <2> HIDE DEF m, P
  <2>8. Ripe(a[i])
    <3>1. a[i] \in Work /\ x.c \in Conn /\ a[i].c = [x.c EXCEPT !.session = a[i].c.session]
      BY <2>6, <2>7 DEF Talked, Work
    <3>2. QED BY <3>1 DEF Ripe, Conn, Finished
  <2>9. PICK U \in Talk : Talked(a[i], a[i + 1], <<m>>, U) BY <2>2, <2>3, <2>8, TalkStep
  <2>10. Talked(x, a[i + 1], P \o <<m>>, S \o U) BY <2>4, <2>6, <2>7, <2>9, TalkChain
  <2>11. S \o U \in Talk BY TalkJoin
  <2>12. QED BY <2>5, <2>10, <2>11
<1>6. \A i \in 0 .. n - 1 : i \in I => i + 1 \in I
  <2> SUFFICES ASSUME NEW i \in 0 .. n - 1, i \in I PROVE i + 1 \in I
    OBVIOUS
  <2>1. i + 1 \in 0 .. n BY <1>2
  <2> HIDE DEF Good
  <2>2. QED BY <2>1, <1>5
<1>7. n \in I
  <2>1. 0 \in I BY <1>2, <1>4
  <2> HIDE DEF I, n
  <2>2. 0 .. n \subseteq I BY <1>2, <1>6, <2>1, Induction
  <2>3. QED BY <2>2, <1>2
<1>8. QED BY <1>1, <1>3, <1>7

-----------------------------------------------------------------------------
(* What net_on_input does on any line. *)

LEMMA KryptTwice ==
    ASSUME NEW x \in Work
    PROVE  net_do_krypt(net_do_krypt(x)) = net_do_krypt(x)
<1> DEFINE y == net_do_krypt(x)
<1>1. y \in Work /\ y.c = [x.c EXCEPT !.out = <<>>] /\ x.c \in Conn BY KryptWork DEF Work
<1> HIDE DEF y
<1>2. y.c.out = <<>> BY <1>1 DEF Conn
<1>3. net_do_krypt(y) = y BY <1>1, <1>2, KryptNothing
<1>4. QED BY <1>3 DEF y

LEMMA SecureWithout ==
    ASSUME NEW e, NEW x, NEW c, c = SSL_read_ahead(e, x.c), ~SSL_pending(c)
    PROVE  Secure(e, x) = net_do_krypt(net_do_krypt([x EXCEPT !.c = c]))
<1> DEFINE d == [x |-> net_do_krypt([x EXCEPT !.c = c]), msgs |-> <<>>]
<1>1. Decrypted(e, x) = d BY DEF Decrypted
<1>2. d.x = net_do_krypt([x EXCEPT !.c = c]) /\ d.msgs = <<>> OBVIOUS
<1> HIDE DEF d
<1>3. Secure(e, x) = CatchRenegotiation(d.x) BY <1>1, <1>2 DEF Secure
<1>4. QED BY <1>2, <1>3 DEF CatchRenegotiation

(* What is left when n records were read, and SSL_peek looked for more. *)
LeftBy(e, x, c, n) == net_do_krypt([x EXCEPT !.c = SSL_read_ahead(e, ReadRecords(c, n))])

LEMMA SecureWith ==
    ASSUME NEW e, NEW x, NEW c, c = SSL_read_ahead(e, x.c), SSL_pending(c), NEW n, n = Ready(c),
           NEW A, FlattenSeq([i \in 1 .. n |-> Records(c)[i].msgs]) = A
    PROVE  Secure(e, x) = IF A = <<>> THEN LeftBy(e, x, c, n) ELSE on_input(LeftBy(e, x, c, n), A)
<1> DEFINE l == Ready(c)
           ms == FlattenSeq([i \in 1 .. l |-> Records(c)[i].msgs])
           z == [x EXCEPT !.c = SSL_read_ahead(e, ReadRecords(c, l))]
           d == [x |-> z, msgs |-> ms]
<1>1. Decrypted(e, x) = d BY DEF Decrypted, Ready
<1> HIDE DEF l
<1>2. d.x = z /\ d.msgs = ms OBVIOUS
<1> HIDE DEF d, z, ms
<1>3. Secure(e, x) = IF ms = <<>> THEN net_do_krypt(z) ELSE on_input(net_do_krypt(z), ms)
  BY <1>1, <1>2 DEF Secure, CatchRenegotiation
<1>4. l = n BY DEF l
<1>5. ms = A BY <1>4 DEF ms
<1>6. net_do_krypt(z) = LeftBy(e, x, c, n) BY <1>4 DEF z, LeftBy
<1>7. QED BY <1>3, <1>5, <1>6

LEMMA ReadConn ==
    ASSUME NEW e \in End, NEW c \in Conn
    PROVE  /\ Records(c) \in Seq(Record)
           /\ SSL_write_flight(e, c) \in Conn /\ SSL_write_flight(e, c).bio = c.bio
           /\ SSL_do_handshake(e, c) \in Conn /\ SSL_read_ahead(e, c) \in Conn
<1>1. c.bio \in Seq(Record) /\ Len(c.bio) \in Nat BY LenProperties DEF Conn
<1>2. Records(c) \in Seq(Record)
  <2> DEFINE b == c.bio
             m == Len(b) \div 2
  <2>1. b \in Seq(Record) /\ m \in Nat /\ 2 * m <= Len(b) /\ Len(b) \in Nat
    BY <1>1, Halves
  <2>2. Records(c) = [i \in 1 .. m |-> b[2 * i]] BY DEF Records
  <2> HIDE DEF b, m
  <2>3. \A i \in 1 .. m : 2 * i \in 1 .. Len(b) BY <2>1
  <2>4. \A i \in 1 .. m : b[2 * i] \in Record
    <3> SUFFICES ASSUME NEW i \in 1 .. m PROVE b[2 * i] \in Record
      OBVIOUS
    <3>1. 2 * i \in 1 .. Len(b) BY <2>3
    <3>2. QED BY <2>1, <3>1, ElementOfSeq
  <2>5. [i \in 1 .. m |-> b[2 * i]] \in [1 .. m -> Record] BY <2>4
  <2>6. QED BY <2>1, <2>2, <2>5, FunctionIsSeq
<1>3. ASSUME NEW d \in Conn
      PROVE  SSL_write_flight(e, d) \in Conn /\ SSL_write_flight(e, d).bio = d.bio
  <2>1. CASE ~Finished(d) /\ Speaker(d.hs + 1) = e
    <3> DEFINE o == Append(d.out, Flight(d.hs + 1))
               h == d.hs + 1
    <3>1. h \in 0 .. 9
      <4>1. d.hs \in 0 .. 9 /\ d.hs # 9 BY <2>1 DEF Conn, Finished
      <4>2. QED BY <4>1
    <3>2. o \in Seq(Record)
      <4> HIDE DEF h
      <4>1. Flight(h) \in Record BY <3>1, FlightRecord
      <4>2. d.out \in Seq(Record) /\ Flight(h) \in Record BY <4>1 DEF Conn
      <4>3. Append(d.out, Flight(h)) \in Seq(Record) BY <4>2, AppendProperties
      <4>4. QED BY <4>3 DEF h
    <3>3. SSL_write_flight(e, d) = [d EXCEPT !.hs = h, !.out = o]
      BY <2>1 DEF SSL_write_flight
    <3> HIDE DEF h, o
    <3>4. QED BY <3>1, <3>2, <3>3 DEF Conn
  <2>2. CASE ~(~Finished(d) /\ Speaker(d.hs + 1) = e) BY <2>2 DEF SSL_write_flight
  <2>3. QED BY <2>1, <2>2
<1>4. ASSUME HasFlight(c)
      PROVE  [ReadRecords(c, 1) EXCEPT !.hs = Head(Records(c)).flight] \in Conn
  <2> DEFINE b == SubSeq(c.bio, 2 * 1 + 1, Len(c.bio))
             h == Head(Records(c)).flight
  <2>1. h \in 0 .. 9
    <3>1. Records(c) # <<>> BY <1>4 DEF HasFlight
    <3>2. Head(Records(c)) \in Record BY <1>2, <3>1, HeadTailProperties
    <3>3. QED BY <3>2 DEF Record
  <2>2. b \in Seq(Record)
    <3> DEFINE u == c.bio
    <3>1. u \in Seq(Record) BY <1>1
    <3> HIDE DEF u
    <3>2. SubSeq(u, 2 * 1 + 1, Len(u)) \in Seq(Record) BY <3>1
    <3>3. QED BY <3>2 DEF u
  <2>3. [ReadRecords(c, 1) EXCEPT !.hs = Head(Records(c)).flight] = [c EXCEPT !.bio = b, !.hs = h]
    BY DEF ReadRecords
  <2> HIDE DEF b, h
  <2>4. QED BY <2>1, <2>2, <2>3 DEF Conn
<1>5. SSL_do_handshake(e, c) \in Conn
  <2>1. CASE HasFlight(c)
    <3> DEFINE d == [ReadRecords(c, 1) EXCEPT !.hs = Head(Records(c)).flight]
    <3>1. SSL_do_handshake(e, c) = SSL_write_flight(e, d) /\ d \in Conn
      BY <2>1, <1>4 DEF SSL_do_handshake
    <3> HIDE DEF d
    <3>2. QED BY <3>1, <1>3
  <2>2. CASE ~HasFlight(c)
    <3>1. SSL_do_handshake(e, c) = SSL_write_flight(e, c) BY <2>2 DEF SSL_do_handshake
    <3>2. QED BY <3>1, <1>3
  <2>3. QED BY <2>1, <2>2
<1>6. QED BY <1>2, <1>3, <1>5 DEF SSL_read_ahead

(* The lines that a connection may have, and the messages in them. *)
Arranged(Q, R) ==
  \E k \in 1 .. 2 :
    \/ \E T \in Tails : Q = Bring(k, R) \o T
    \/ \E j \in 1 .. 9 : Q = Lead(j, Bring(k, R))

LEMMA TailsSeq ==
    ASSUME NEW T \in Tails
    PROVE  T \in Seq(Record)
<1>1. CASE T = <<>> BY <1>1, EmptySeq
<1>2. CASE T \in {<<Flight(j)>> : j \in 1 .. 9}
  <2>1. PICK j \in 1 .. 9 : T = <<Flight(j)>> BY <1>2
  <2>2. QED BY <2>1, FlightRecord
<1>3. QED BY <1>1, <1>2 DEF Tails

LEMMA BringNoTail ==
    ASSUME NEW k \in 0 .. 2, NEW R \in Seq(Msg)
    PROVE  Bring(k, R) \o <<>> = Bring(k, R)
<1> DEFINE B == Bring(k, R)
<1>1. B \in Seq(Record) BY BringSeq
<1> HIDE DEF B
<1>2. B \o <<>> = B BY <1>1, ConcatEmptySeq
<1>3. QED BY <1>2 DEF B

LEMMA LeadSeq ==
    ASSUME NEW j \in 1 .. 9, NEW B \in Seq(Record)
    PROVE  Lead(j, B) \in Seq(Record)
<1> DEFINE F == <<Flight(j)>>
<1>1. F \in Seq(Record) /\ Lead(j, B) = F \o B BY FlightRecord DEF Lead
<1> HIDE DEF F
<1>2. QED BY <1>1, ConcatProperties

LEMMA ArrangedSeq ==
    ASSUME NEW R \in Seq(Msg), NEW Q, Arranged(Q, R)
    PROVE  Q \in Seq(Record)
<1>1. PICK k \in 1 .. 2 :
        \/ \E T \in Tails : Q = Bring(k, R) \o T
        \/ \E j \in 1 .. 9 : Q = Lead(j, Bring(k, R))
  BY DEF Arranged
<1> DEFINE B == Bring(k, R)
<1>2. B \in Seq(Record)
  <2>1. k \in 0 .. 2 OBVIOUS
  <2>2. QED BY <2>1, BringSeq
<1> HIDE DEF B
<1>3. CASE \E T \in Tails : Q = Bring(k, R) \o T
  <2>1. PICK T \in Tails : Q = B \o T BY <1>3 DEF B
  <2>2. T \in Seq(Record) BY TailsSeq
  <2>3. QED BY <1>2, <2>1, <2>2, ConcatProperties
<1>4. CASE \E j \in 1 .. 9 : Q = Lead(j, Bring(k, R))
  <2>1. PICK j \in 1 .. 9 : Q = Lead(j, B) BY <1>4 DEF B
  <2>2. QED BY <1>2, <2>1, LeadSeq
<1>5. QED BY <1>1, <1>3, <1>4

(* A flight is first, or messages are. *)
LEMMA Ahead ==
    ASSUME NEW c \in Conn, NEW w \in Seq(Record), NEW Q, NEW R \in Seq(Msg),
           Arranged(Q, R), OnLine(c, w, Q)
    PROVE  /\ HasFlight(c) =>
                \E k \in 1 .. 2, j \in 1 .. 9 :
                  Head(Records(c)).flight = j /\ Reads(c, 1, w, Bring(k, R))
           /\ ~HasFlight(c) /\ Records(c) # <<>> =>
                \E k \in 1 .. 2, T \in Tails : Q = Bring(k, R) \o T
<1>1. PICK k \in 1 .. 2 :
        \/ \E T \in Tails : Q = Bring(k, R) \o T
        \/ \E j \in 1 .. 9 : Q = Lead(j, Bring(k, R))
  BY DEF Arranged
<1>2. Bring(k, R) \in Seq(Record) /\ k \in 0 .. 2
  <2>1. k \in 0 .. 2 OBVIOUS
  <2>2. QED BY <2>1, BringSeq
<1>3. Len(c.bio) < 2 => Records(c) = <<>> /\ ~HasFlight(c) BY ShortRead
<1>4. Len(c.bio) \in Nat BY LenProperties DEF Conn
<1>5. Len(c.bio) < 2 \/ Len(c.bio) >= 2 BY <1>4
<1>6. CASE \E j \in 1 .. 9 : Q = Lead(j, Bring(k, R))
  <2>1. PICK j \in 1 .. 9 : Q = Lead(j, Bring(k, R)) BY <1>6
  <2>2. CASE Len(c.bio) < 2 BY <2>2, <1>3
  <2>3. CASE Len(c.bio) >= 2
    <3>1. OnLine(c, w, Lead(j, Bring(k, R))) BY <2>1
    <3>2. HasFlight(c) /\ Head(Records(c)).flight = j /\ Reads(c, 1, w, Bring(k, R))
      BY <3>1, <2>3, <1>2, FlightFirst
    <3>3. QED BY <3>2
  <2>4. QED BY <2>2, <2>3, <1>5
<1>7. CASE \E T \in Tails : Q = Bring(k, R) \o T
  <2>1. PICK T \in Tails : Q = Bring(k, R) \o T BY <1>7
  <2>2. CASE R # <<>>
    <3>1. OnLine(c, w, Bring(k, R) \o T) BY <2>1
    <3>2. ~HasFlight(c) BY <3>1, <1>2, <2>2, MessagesFirst
    <3>3. QED BY <3>2, <2>1
  <2>3. CASE R = <<>>
    <3>1. Bring(k, R) = <<>> /\ Q = T
      <4>1. Bring(k, R) = <<>> BY <2>3, BringNone
      <4>2. T \in Seq(Record) BY TailsSeq
      <4>3. <<>> \o T = T BY <4>2, ConcatEmptySeq
      <4>4. QED BY <4>1, <4>3, <2>1
    <3>2. CASE T = <<>>
      <4>1. Len(c.bio) \div 2 \in 0 .. Len(Q)
        <5>1. Q \in Seq(Record) /\ c.bio \o w = Units(Q)
          BY <3>1, <3>2, EmptySeq DEF OnLine
        <5>2. QED BY <5>1, RecordsAre
      <4>2. Len(Q) = 0 BY <3>1, <3>2
      <4>3. \A l \in Nat : l \div 2 \in 0 .. 0 => l < 2 BY Halves
      <4>4. Len(c.bio) < 2 BY <4>1, <4>2, <4>3, <1>4
      <4>5. QED BY <4>4, <1>3
    <3>3. CASE T \in {<<Flight(j)>> : j \in 1 .. 9}
      <4>1. PICK j \in 1 .. 9 : T = <<Flight(j)>> BY <3>3
      <4>2. Q = Lead(j, Bring(k, R))
        <5> DEFINE F == <<Flight(j)>>
        <5>1. F \in Seq(Record) /\ Q = F /\ Lead(j, <<>>) = F \o <<>>
          BY <4>1, <3>1, FlightRecord DEF Lead
        <5> HIDE DEF F
        <5>2. F \o <<>> = F BY <5>1, ConcatEmptySeq
        <5>3. QED BY <5>1, <5>2, <3>1
      <4>3. \E i \in 1 .. 9 : Q = Lead(i, Bring(k, R)) BY <4>2
      <4>4. QED BY <4>3, <1>6
    <3>4. QED BY <3>2, <3>3 DEF Tails
  <2>4. QED BY <2>2, <2>3
<1>8. QED BY <1>1, <1>6, <1>7

LEMMA ReadsConn ==
    ASSUME NEW c \in Conn, NEW n, NEW w, NEW Q, Reads(c, n, w, Q), NEW d, d = ReadRecords(c, n)
    PROVE  /\ d \in Conn /\ d = [c EXCEPT !.bio = d.bio]
           /\ OnLine(d, w, Q) /\ Len(d.bio) = Len(c.bio) - 2 * n
<1>1. PICK b \in Seq(Record) :
        /\ ReadRecords(c, n) = [c EXCEPT !.bio = b]
        /\ Len(b) = Len(c.bio) - 2 * n
        /\ b \o w = Units(Q)
  BY DEF Reads
<1>2. d = [c EXCEPT !.bio = b] BY <1>1
<1>3. d \in Conn /\ d.bio = b BY <1>2 DEF Conn
<1>4. QED BY <1>1, <1>2, <1>3 DEF OnLine

LEMMA SetConn ==
    ASSUME NEW x \in Work, NEW c \in Conn, NEW y, y = [x EXCEPT !.c = c]
    PROVE  y \in Work /\ y.c = c /\ y.tx = x.tx /\ y.sent = x.sent /\ y.got = x.got
BY DEF Work

(* What was handed over is the first of the messages of the line. *)
Heard(x, y, R) ==
  /\ y \in Work /\ IsPrefix(x.sent, y.sent)
  /\ \E A \in Seq(Msg), B \in Seq(Msg) : R = A \o B /\ y.got = x.got \o A

LEMMA HeardNothing ==
    ASSUME NEW x \in Work, NEW y \in Work, NEW R \in Seq(Msg), y.sent = x.sent, y.got = x.got
    PROVE  Heard(x, y, R)
<1>1. x.sent \in Seq(Msg) /\ x.got \in Seq(Msg) BY DEF Work
<1>2. x.got \o <<>> = x.got /\ <<>> \o R = R /\ <<>> \in Seq(Msg)
  BY <1>1, ConcatEmptySeq, EmptySeq
<1>3. IsPrefix(x.sent, y.sent) BY <1>1, PrefixSelf
<1> DEFINE A == <<>>
<1>4. A \in Seq(Msg) /\ R = A \o R /\ y.got = x.got \o A BY <1>2
<1> HIDE DEF A
<1>5. QED BY <1>3, <1>4 DEF Heard

LEMMA FreedWork ==
    ASSUME NEW x \in Work
    PROVE  /\ Freed(x) \in Work /\ Freed(x).c = Fresh("freed")
           /\ Freed(x).tx = x.tx /\ Freed(x).sent = x.sent /\ Freed(x).got = x.got
<1>1. Fresh("freed") \in Conn BY EmptySeq DEF Fresh, Conn
<1>2. QED BY <1>1, SetConn DEF Freed

LEMMA OnInputHeard ==
    ASSUME NEW x \in Work, NEW A \in Seq(Msg), NEW B \in Seq(Msg), NEW R, R = A \o B
    PROVE  Heard(x, on_input(x, A), R)
<1>1. CASE x.c.session = "PURGE"
  <2>1. on_input(x, A) = Freed(x) BY <1>1 DEF on_input
  <2>2. Freed(x) \in Work /\ Freed(x).sent = x.sent /\ Freed(x).got = x.got BY FreedWork
  <2>3. R \in Seq(Msg) BY ConcatProperties
  <2>4. QED BY <2>1, <2>2, <2>3, HeardNothing
<1>2. CASE x.c.session # "PURGE"
  <2>1. on_input(x, A) = Dispatched(x, A) BY <1>2 DEF on_input
  <2>2. QED BY <2>1, DispatchedWork DEF Heard
<1>3. QED BY <1>1, <1>2

LEMMA HeardAfter ==
    ASSUME NEW x \in Work, NEW y \in Work, NEW z, NEW R,
           IsPrefix(x.sent, y.sent), y.got = x.got, Heard(y, z, R)
    PROVE  Heard(x, z, R)
<1>1. x.sent \in Seq(Msg) /\ y.sent \in Seq(Msg) /\ z \in Work /\ z.sent \in Seq(Msg)
      /\ IsPrefix(y.sent, z.sent)
  BY DEF Work, Heard
<1> DEFINE a == x.sent
           b == y.sent
           d == z.sent
<1>2. IsPrefix(a, b) /\ IsPrefix(b, d) /\ a \in Seq(Msg) /\ b \in Seq(Msg) /\ d \in Seq(Msg)
  BY <1>1
<1> HIDE DEF a, b, d
<1>3. IsPrefix(a, d) BY <1>2, PrefixTrans
<1>4. IsPrefix(x.sent, z.sent) BY <1>3 DEF a, d
<1>5. QED BY <1>1, <1>4 DEF Heard

(* After a flight that was first come the messages. *)
LEMMA HandshakeLine ==
    ASSUME NEW e \in End, NEW c \in Conn, NEW w \in Seq(Record), NEW Q, NEW R \in Seq(Msg),
           Arranged(Q, R), OnLine(c, w, Q), NEW d, d = SSL_do_handshake(e, c)
    PROVE  /\ d \in Conn
           /\ HasFlight(c) => \E k \in 1 .. 2, T \in Tails : OnLine(d, w, Bring(k, R) \o T)
           /\ \E P : Arranged(P, R) /\ OnLine(d, w, P)
<1>1. d \in Conn BY ReadConn
<1>2. ASSUME HasFlight(c)
      PROVE  \E k \in 1 .. 2, T \in Tails : OnLine(d, w, Bring(k, R) \o T)
  <2>1. PICK k \in 1 .. 2, j \in 1 .. 9 :
          Head(Records(c)).flight = j /\ Reads(c, 1, w, Bring(k, R))
    BY <1>2, Ahead
  <2> DEFINE b == ReadRecords(c, 1)
             h == [b EXCEPT !.hs = j]
  <2>2. b \in Conn /\ OnLine(b, w, Bring(k, R)) BY <2>1, ReadsConn
  <2>3. d = SSL_write_flight(e, h) BY <1>2, <2>1 DEF SSL_do_handshake
  <2> HIDE DEF b
  <2>4. h \in Conn /\ h.bio = b.bio
    <3>1. j \in 0 .. 9 /\ b \in Conn BY <2>2
    <3>2. QED BY <3>1 DEF Conn
  <2> HIDE DEF h
  <2>5. d.bio = b.bio BY <2>3, <2>4, ReadConn
  <2>6. k \in 0 .. 2 OBVIOUS
  <2>7. Bring(k, R) \o <<>> = Bring(k, R) BY <2>6, BringNoTail
  <2>8. OnLine(d, w, Bring(k, R) \o <<>>) BY <2>2, <2>5, <2>7 DEF OnLine
  <2>9. <<>> \in Tails BY DEF Tails
  <2>10. QED BY <2>8, <2>9
<1>3. ASSUME ~HasFlight(c) PROVE OnLine(d, w, Q)
  <2>1. d.bio = c.bio BY <1>3, ReadConn DEF SSL_do_handshake
  <2>2. QED BY <2>1 DEF OnLine
<1>4. QED BY <1>1, <1>2, <1>3 DEF Arranged

LEMMA SecureHeard ==
    ASSUME NEW e \in End, NEW x \in Work, NEW w \in Seq(Record), NEW Q, NEW R \in Seq(Msg),
           Arranged(Q, R), OnLine(x.c, w, Q)
    PROVE  Heard(x, Secure(e, x), R)
<1> DEFINE c == SSL_read_ahead(e, x.c)
<1>1. x.c \in Conn /\ c \in Conn BY ReadConn DEF Work
<1>2. ASSUME NEW d \in Conn
      PROVE  LET y == net_do_krypt([x EXCEPT !.c = d])
             IN  y \in Work /\ y.sent = x.sent /\ y.got = x.got
  <2> DEFINE y == [x EXCEPT !.c = d]
  <2>1. y \in Work /\ y.sent = x.sent /\ y.got = x.got BY SetConn
  <2> HIDE DEF y
  <2>2. net_do_krypt(y) \in Work /\ net_do_krypt(y).sent = x.sent /\ net_do_krypt(y).got = x.got
    BY <2>1, KryptWork
  <2>3. QED BY <2>2 DEF y
<1>3. CASE ~SSL_pending(c)
  <2> DEFINE y == net_do_krypt([x EXCEPT !.c = c])
  <2>1. Secure(e, x) = net_do_krypt(y) BY <1>3, SecureWithout
  <2>2. net_do_krypt(y) = y
    <3>1. [x EXCEPT !.c = c] \in Work BY <1>1, SetConn
    <3>2. QED BY <3>1, KryptTwice
  <2>3. y \in Work /\ y.sent = x.sent /\ y.got = x.got BY <1>1, <1>2
  <2> HIDE DEF y
  <2>4. QED BY <2>1, <2>2, <2>3, HeardNothing
<1>4. CASE SSL_pending(c)
  <2>1. \E k \in 1 .. 2, T \in Tails : OnLine(c, w, Bring(k, R) \o T)
    <3>1. CASE HasFlight(x.c)
      <4>1. c = SSL_do_handshake(e, x.c) BY <3>1 DEF SSL_read_ahead
      <4>2. QED BY <3>1, <4>1, <1>1, HandshakeLine
    <3>2. CASE ~HasFlight(x.c)
      <4>1. c = x.c BY <3>2 DEF SSL_read_ahead
      <4>2. Records(x.c) # <<>> BY <4>1, <1>4 DEF SSL_pending
      <4>3. \E k \in 1 .. 2, T \in Tails : Q = Bring(k, R) \o T
        <5> DEFINE a == x.c
        <5>1. a \in Conn /\ OnLine(a, w, Q) /\ ~HasFlight(a) /\ Records(a) # <<>>
          BY <4>2, <3>2, <1>1
        <5> HIDE DEF a
        <5>2. QED BY <5>1, Ahead, SMTT(40)
      <4>4. QED BY <4>1, <4>3
    <3>3. QED BY <3>1, <3>2
  <2>2. PICK k \in 1 .. 2, T \in Tails : OnLine(c, w, Bring(k, R) \o T) BY <2>1
  <2> HIDE DEF c
  <2> DEFINE n == Whole(c, R)
             A == SubSeq(R, 1, n)
             B == SubSeq(R, n + 1, Len(R))
             d == SSL_read_ahead(e, ReadRecords(c, n))
             y == LeftBy(e, x, c, n)
  <2>3. k \in 0 .. 2 OBVIOUS
  <2>4. /\ n \in 0 .. Len(R) /\ Ready(c) = n
        /\ FlattenSeq([i \in 1 .. n |-> Records(c)[i].msgs]) = A
        /\ Reads(c, n, w, Bring(k, B) \o T)
    <3> HIDE DEF n
    <3>1. n = Whole(c, R) BY DEF n
    <3>2. QED BY <3>1, <2>2, <2>3, <1>1, MessagesFirst
  <2>5. A \in Seq(Msg) /\ B \in Seq(Msg) /\ R = A \o B
    <3> HIDE DEF n
    <3>1. QED BY <2>4, CutAndJoin
  <2>6. ReadRecords(c, n) \in Conn BY <1>1, <2>4, ReadsConn
  <2>7. d \in Conn BY <2>6, ReadConn
  <2>8. y \in Work /\ y.sent = x.sent /\ y.got = x.got
    <3>1. y = net_do_krypt([x EXCEPT !.c = d]) BY DEF LeftBy
    <3> HIDE DEF d
    <3>2. QED BY <3>1, <1>2, <2>7
  <2>9. Secure(e, x) = IF A = <<>> THEN y ELSE on_input(y, A)
    <3>1. c = SSL_read_ahead(e, x.c) BY DEF c
    <3> HIDE DEF n, A
    <3>2. n = Ready(c) /\ FlattenSeq([i \in 1 .. n |-> Records(c)[i].msgs]) = A BY <2>4
    <3>3. QED BY <3>1, <3>2, <1>4, SecureWith
  <2> HIDE DEF y, A, B
  <2>10. Heard(y, on_input(y, A), R) BY <2>5, <2>8, OnInputHeard
  <2>11. Heard(y, y, R) BY <2>8, HeardNothing
  <2>12. Heard(y, Secure(e, x), R) BY <2>9, <2>10, <2>11
  <2>13. IsPrefix(x.sent, y.sent)
    <3>1. x.sent \in Seq(Msg) BY DEF Work
    <3>2. QED BY <3>1, <2>8, PrefixSelf
  <2>14. QED BY <2>8, <2>12, <2>13, HeardAfter
<1>5. QED BY <1>3, <1>4

LEMMA OnSecureWork ==
    ASSUME NEW e \in End, NEW x \in Work, kind \in {"switch", "prov", "p2p"}, NEW y, y = on_secure(e, x)
    PROVE  y \in Work /\ y.c.bio = x.c.bio /\ y.got = x.got /\ IsPrefix(x.sent, y.sent)
<1> DEFINE Good(z) == z \in Work /\ z.c.bio = x.c.bio /\ z.got = x.got /\ IsPrefix(x.sent, z.sent)
<1>1. x.sent \in Seq(Msg) /\ x.c \in Conn BY DEF Work
<1>2. IsPrefix(x.sent, x.sent) BY <1>1, PrefixSelf
<1> DEFINE c == [x.c EXCEPT !.session = "AUTHED"]
           a == [x EXCEPT !.c = c]
<1>3. c \in Conn /\ c.bio = x.c.bio BY <1>1 DEF Conn
<1>4. [x EXCEPT !.c.session = "AUTHED"] = a OBVIOUS
<1> HIDE DEF c
<1>5. a \in Work /\ a.c = c /\ a.sent = x.sent /\ a.got = x.got BY <1>3, SetConn
<1> HIDE DEF a
<1>6. Good(x) /\ Good(a) BY <1>2, <1>3, <1>5
<1>7. ASSUME NEW z \in Work, z.c.bio = x.c.bio, z.got = x.got, z.sent = x.sent, NEW m \in Msg
      PROVE  Good(net_send_msg(z, m))
  <2> DEFINE s == net_send_msg(z, m)
  <2>1. s \in Work /\ s.sent = Append(x.sent, m) /\ s.got = x.got /\ s.c.bio = x.c.bio
    BY <1>7, SendWork
  <2>2. IsPrefix(x.sent, Append(x.sent, m)) BY <1>1, PrefixAppend
  <2> HIDE DEF s
  <2>3. Good(s) BY <2>1, <2>2
  <2>4. QED BY <2>3 DEF s
<1>8. Control(Opening) \in Msg /\ Control("success") \in Msg BY ControlMsg DEF Opening
<1>9. Good(net_send_msg(x, Control(Opening))) /\ Good(net_send_msg(a, Control("success")))
  BY <1>3, <1>5, <1>7, <1>8
<1>10. y = CASE kind = "p2p" -> a
             [] kind # "p2p" /\ e = "client" -> net_send_msg(x, Control(Opening))
             [] kind # "p2p" /\ e = "server" ->
                  IF x.c.session # "WAIT_STEPUP" THEN x ELSE net_send_msg(a, Control("success"))
  BY <1>4 DEF on_secure
<1>11. e = "client" \/ e = "server" BY DEF End
<1> HIDE DEF Good
<1>12. Good(y) BY <1>6, <1>9, <1>10, <1>11
<1>13. QED BY <1>12 DEF Good

LEMMA HandshakeHeard ==
    ASSUME NEW e \in End, NEW x \in Work, NEW w \in Seq(Record), NEW Q, NEW R \in Seq(Msg),
           Arranged(Q, R), OnLine(x.c, w, Q), kind \in {"switch", "prov", "p2p"}
    PROVE  Heard(x, Handshake(e, x), R)
<1> DEFINE d == SSL_do_handshake(e, x.c)
           y == net_do_krypt([x EXCEPT !.c = d])
           z == [y EXCEPT !.c.status = "SECURE"]
           v == on_secure(e, z)
<1>1. x.c \in Conn /\ x.sent \in Seq(Msg) BY DEF Work
<1>2. d \in Conn /\ \E P : Arranged(P, R) /\ OnLine(d, w, P) BY <1>1, HandshakeLine
<1>3. Handshake(e, x) = IF ~Finished(d) THEN y ELSE Peeked(e, v) BY DEF Handshake
<1> HIDE DEF d
<1>4. y \in Work /\ y.sent = x.sent /\ y.got = x.got /\ y.c.bio = d.bio
  <2> DEFINE u == [x EXCEPT !.c = d]
  <2>1. u \in Work /\ u.sent = x.sent /\ u.got = x.got /\ u.c = d BY <1>2, SetConn
  <2> HIDE DEF u
  <2>2. net_do_krypt(u) \in Work /\ net_do_krypt(u).sent = x.sent /\ net_do_krypt(u).got = x.got
        /\ net_do_krypt(u).c = [d EXCEPT !.out = <<>>]
    BY <2>1, KryptWork
  <2>3. [d EXCEPT !.out = <<>>].bio = d.bio BY <1>2 DEF Conn
  <2>4. QED BY <2>2, <2>3 DEF u
<1> HIDE DEF y
<1>5. z \in Work /\ z.sent = x.sent /\ z.got = x.got /\ z.c.bio = d.bio
  BY <1>4 DEF Work, Conn
<1> HIDE DEF z
<1>6. v \in Work /\ v.c.bio = d.bio /\ v.got = x.got /\ IsPrefix(x.sent, v.sent)
  BY <1>5, OnSecureWork
<1> HIDE DEF v
<1>7. \E P : Arranged(P, R) /\ OnLine(v.c, w, P) BY <1>2, <1>6 DEF OnLine
<1>8. Heard(v, Peeked(e, v), R)
  <2>1. Heard(v, v, R) BY <1>6, HeardNothing
  <2>2. Heard(v, Secure(e, v), R) BY <1>6, <1>7, SecureHeard
  <2>3. QED BY <2>1, <2>2 DEF Peeked
<1>9. Heard(x, Peeked(e, v), R) BY <1>6, <1>8, HeardAfter
<1>10. Heard(x, y, R) BY <1>4, HeardNothing
<1>11. QED BY <1>3, <1>9, <1>10

-----------------------------------------------------------------------------
(* What net_on_input does on the lines that there are.                     *)

(* It is what is read, without what is said. *)
Took(x, z, w, Q) ==
  /\ z \in Work /\ z = [x EXCEPT !.c = z.c]
  /\ z.c = [x.c EXCEPT !.bio = z.c.bio]
  /\ OnLine(z.c, w, Q) /\ Len(z.c.bio) <= 1

Handed(z, A) == IF A = <<>> THEN z ELSE on_input(z, A)

LEMMA NoLine ==
    ASSUME NEW c \in Conn, NEW w \in Seq(Record), OnLine(c, w, <<>>)
    PROVE  c.bio = <<>> /\ w = <<>> /\ Len(c.bio) = 0
<1> DEFINE b == c.bio
           n == <<>>
<1>1. n \in Seq(Record) /\ Len(n) = 0 /\ b \in Seq(Record) /\ b \o w = Units(n)
  BY EmptySeq DEF Conn, OnLine
<1> HIDE DEF b, n
<1>2. Len(Units(n)) = 0
  <2>1. Len(Units(n)) = 2 * Len(n) BY <1>1, UnitsSeq
  <2>2. 2 * 0 = 0 OBVIOUS
  <2>3. QED BY <2>1, <2>2, <1>1
<1>3. Len(b \o w) = Len(b) + Len(w) /\ Len(b) \in Nat /\ Len(w) \in Nat
  BY <1>1, ConcatProperties, LenProperties
<1>4. Len(b) = 0 /\ Len(w) = 0 BY <1>1, <1>2, <1>3
<1>5. b = <<>> /\ w = <<>> BY <1>1, <1>4, EmptySeq
<1>6. QED BY <1>4, <1>5 DEF b

LEMMA NoFlight ==
    ASSUME NEW c \in Conn, NEW w \in Seq(Record), NEW k \in 0 .. 2, NEW R \in Seq(Msg),
           OnLine(c, w, Bring(k, R))
    PROVE  /\ ~HasFlight(c)
           /\ OnLine(c, w, Bring(k, R) \o <<>>)
           /\ Len(c.bio) >= 2 => R # <<>>
           /\ Len(c.bio) \div 2 <= Len(R)
<1>1. OnLine(c, w, Bring(k, R) \o <<>>) /\ <<>> \in Tails BY BringNoTail DEF Tails
<1>2. ASSUME R = <<>> PROVE Len(c.bio) = 0
  <2>1. OnLine(c, w, <<>>) BY <1>2, BringNone
  <2>2. QED BY <2>1, NoLine
<1>3. Len(c.bio) < 2 => ~HasFlight(c) BY ShortRead
<1>4. R # <<>> => ~HasFlight(c)
  <2> DEFINE n == Whole(c, R)
             T == <<>>
  <2>1. n = Whole(c, R) /\ T \in Tails /\ OnLine(c, w, Bring(k, R) \o T) BY <1>1
  <2> HIDE DEF n, T
  <2>2. QED BY <2>1, MessagesFirst
<1>5. Len(c.bio) \div 2 <= Len(R)
  <2> DEFINE B == Bring(k, R)
             m == Len(c.bio) \div 2
  <2>1. B \in Seq(Record) /\ Len(B) = Len(R) /\ Len(B) \in Nat BY BringSeq, LenProperties
  <2>2. c.bio \o w = Units(B) BY DEF OnLine
  <2> HIDE DEF B
  <2>3. m \in 0 .. Len(B) BY <2>1, <2>2, RecordsAre
  <2> HIDE DEF m
  <2>4. m <= Len(R) BY <2>1, <2>3
  <2>5. QED BY <2>4 DEF m
<1>6. Len(c.bio) \in Nat /\ (Len(c.bio) < 2 \/ Len(c.bio) >= 2)
  <2>1. Len(c.bio) \in Nat BY LenProperties DEF Conn
  <2>2. QED BY <2>1
<1>7. Len(c.bio) >= 2 => R # <<>>
  <2>1. ~(0 >= 2) OBVIOUS
  <2>2. QED BY <2>1, <1>2
<1>8. ~HasFlight(c) BY <1>2, <1>3, <1>4, <1>6, <1>7
<1>9. QED BY <1>1, <1>5, <1>7, <1>8

LEMMA SecureReads ==
    ASSUME NEW e \in End, NEW x \in Work, NEW w \in Seq(Record), NEW k \in 0 .. 2,
           NEW R \in Seq(Msg), Finished(x.c), x.c.out = <<>>, OnLine(x.c, w, Bring(k, R))
    PROVE  \E n \in 0 .. Len(R), z \in Work :
             /\ Took(x, z, w, Bring(k, SubSeq(R, n + 1, Len(R))))
             /\ Secure(e, x) = Handed(z, SubSeq(R, 1, n))
             /\ Peeked(e, x) = Secure(e, x)
<1> DEFINE c == x.c
<1>1. c \in Conn /\ Finished(c) /\ c.out = <<>> /\ OnLine(c, w, Bring(k, R)) /\ Len(c.bio) \in Nat
  BY LenProperties DEF Work, Conn
<1>2. x.c = c /\ [x EXCEPT !.c = c] = x BY DEF Work
<1>n. Len(R) \in Nat BY LenProperties
<1>3. CASE Len(c.bio) < 2
  <2>1. c = SSL_read_ahead(e, c) /\ ~SSL_pending(c) BY <1>1, <1>3, ShortRead
  <2>2. Secure(e, x) = net_do_krypt(net_do_krypt(x)) BY <1>2, <2>1, SecureWithout
  <2>3. net_do_krypt(x) = x BY KryptNothing
  <2>4. Peeked(e, x) = x BY <2>1 DEF Peeked
  <2>5. c = [c EXCEPT !.bio = c.bio] /\ Len(c.bio) <= 1 BY <1>1, <1>3 DEF Conn
  <2>6. SubSeq(R, 1, 0) = <<>> /\ SubSeq(R, 0 + 1, Len(R)) = R /\ 0 \in 0 .. Len(R)
    <3>1. 0 + 1 = 1 /\ 0 \in 0 .. Len(R) BY <1>n
    <3>2. QED BY <3>1, SubSeqEmpty, SubSeqFull
  <2>7. Took(x, x, w, Bring(k, SubSeq(R, 0 + 1, Len(R))))
    BY <1>1, <1>2, <2>5, <2>6 DEF Took
  <2>8. Secure(e, x) = Handed(x, SubSeq(R, 1, 0)) /\ Peeked(e, x) = Secure(e, x)
    BY <2>2, <2>3, <2>4, <2>6 DEF Handed
  <2>9. QED BY <2>6, <2>7, <2>8
<1>4. CASE ~(Len(c.bio) < 2)
  <2>1. Len(c.bio) >= 2 BY <1>1, <1>4
  <2>2. /\ ~HasFlight(c) /\ OnLine(c, w, Bring(k, R) \o <<>>)
        /\ R # <<>> /\ Len(c.bio) \div 2 <= Len(R)
    <3> HIDE DEF c
    <3>1. QED BY <1>1, <2>1, NoFlight
  <2>3. <<>> \in Tails BY DEF Tails
  <2> DEFINE n == Whole(c, R)
             A == SubSeq(R, 1, n)
             B == SubSeq(R, n + 1, Len(R))
             d == ReadRecords(c, n)
             z == [x EXCEPT !.c = d]
  <2>4. /\ n \in 0 .. Len(R) /\ Ready(c) = n
        /\ FlattenSeq([i \in 1 .. n |-> Records(c)[i].msgs]) = A
        /\ Reads(c, n, w, Bring(k, B) \o <<>>)
    <3> DEFINE T == <<>>
    <3> HIDE DEF n, c
    <3>1. n = Whole(c, R) /\ T \in Tails /\ OnLine(c, w, Bring(k, R) \o T) /\ c \in Conn
      BY <1>1, <2>2, <2>3 DEF n
    <3>2. Reads(c, n, w, Bring(k, B) \o T)
      <4> HIDE DEF T
      <4>1. QED BY <3>1, MessagesFirst
    <3>3. QED
      <4> HIDE DEF T
      <4>1. n \in 0 .. Len(R) /\ Ready(c) = n BY <3>1, MessagesFirst
      <4>2. FlattenSeq([i \in 1 .. n |-> Records(c)[i].msgs]) = A BY <3>1, MessagesFirst
      <4>3. QED BY <4>1, <4>2, <3>2 DEF T
  <2>5. A \in Seq(Msg) /\ B \in Seq(Msg) /\ Len(A) = n
    <3> HIDE DEF n
    <3>1. QED BY <2>4, CutAndJoin
  <2>6. Bring(k, B) \o <<>> = Bring(k, B)
    <3> HIDE DEF B
    <3>1. QED BY <2>5, BringNoTail
  <2>7. /\ d \in Conn /\ d = [c EXCEPT !.bio = d.bio]
        /\ OnLine(d, w, Bring(k, B)) /\ Len(d.bio) = Len(c.bio) - 2 * n
    <3>1. Reads(c, n, w, Bring(k, B)) BY <2>4, <2>6
    <3> HIDE DEF c, n, B
    <3>2. QED BY <3>1, <1>1, ReadsConn
  <2>8. n = Len(c.bio) \div 2 BY <2>2 DEF Whole
  <2>9. Len(d.bio) < 2 /\ Len(d.bio) <= 1 /\ n >= 1
    <3> DEFINE l == Len(c.bio)
               m == l \div 2
    <3>1. l \in Nat /\ m \in Nat /\ l <= 2 * m + 1 /\ 2 * m <= l /\ m >= 1
      BY <1>1, <2>1, Halves
    <3>2. Len(d.bio) = l - 2 * m /\ n = m BY <2>7, <2>8
    <3> HIDE DEF l, m, d, n
    <3>3. QED BY <3>1, <3>2
  <2>10. SSL_pending(c)
    <3>1. Len(Records(c)) # 0
      <4>1. c.bio \o w = Units(Bring(k, R)) /\ Bring(k, R) \in Seq(Record)
        BY <1>1, BringSeq DEF OnLine
      <4>2. Len(Records(c)) = Len(c.bio) \div 2
        <5> HIDE DEF c
        <5>1. QED BY <4>1, <1>1, RecordsAre
      <4> DEFINE h == Len(Records(c))
      <4>3. h = n BY <4>2, <2>8
      <4> HIDE DEF h, n
      <4>4. h # 0 BY <4>3, <2>9
      <4>5. QED BY <4>4 DEF h
    <3>2. Records(c) # <<>> BY <3>1
    <3>3. QED BY <3>2, <1>1 DEF SSL_pending
  <2>11. c = SSL_read_ahead(e, c) BY <2>2 DEF SSL_read_ahead
  <2>12. d = SSL_read_ahead(e, d)
    <3> HIDE DEF d
    <3>1. QED BY <2>7, <2>9, ShortRead
  <2>13. z \in Work /\ z.c = d /\ LeftBy(e, x, c, n) = z
    <3>1. z \in Work /\ z.c = d
      <4> HIDE DEF d
      <4>1. QED BY <2>7, SetConn
    <3>2. z.c.out = <<>>
      <4>1. d.out = c.out
        <5> HIDE DEF d, c
        <5>1. QED BY <1>1, <2>7 DEF Conn
      <4>2. QED BY <4>1, <3>1, <1>1
    <3>3. net_do_krypt(z) = z
      <4> HIDE DEF z
      <4>1. QED BY <3>1, <3>2, KryptNothing
    <3>4. QED BY <3>1, <3>3, <2>12 DEF LeftBy
  <2>14. A # <<>>
    <3>1. Len(A) = n /\ n >= 1 /\ n \in Nat BY <2>4, <2>5, <2>9, <1>n
    <3> HIDE DEF n, A
    <3>2. QED BY <3>1, EmptySeq
  <2>15. Secure(e, x) = on_input(z, A)
    <3>1. Secure(e, x) = IF A = <<>> THEN LeftBy(e, x, c, n) ELSE on_input(LeftBy(e, x, c, n), A)
      <4> HIDE DEF n, A
      <4>1. c = SSL_read_ahead(e, x.c) /\ n = Ready(c) BY <2>4, <2>11
      <4>2. QED BY <4>1, <2>4, <2>10, SecureWith
    <3>2. QED BY <3>1, <2>13, <2>14
  <2>16. Peeked(e, x) = Secure(e, x) BY <2>10 DEF Peeked
  <2>17. Took(x, z, w, Bring(k, B))
    <3>1. z = [x EXCEPT !.c = z.c] BY <2>13
    <3>2. QED
      <4> HIDE DEF z, d
      <4>1. QED BY <3>1, <2>7, <2>9, <2>13 DEF Took
  <2>18. Secure(e, x) = Handed(z, A) BY <2>14, <2>15 DEF Handed
  <2> HIDE DEF z
  <2>19. QED BY <2>4, <2>13, <2>16, <2>17, <2>18
<1>5. QED BY <1>3, <1>4

(* An end was handed A, sent S in the records t, and has Q in its line. *)
Turned(x, y, w, Q, A, S, t) ==
  /\ y \in Work
  /\ OnLine(y.c, w, Q) /\ Len(y.c.bio) <= 1
  /\ y.c.out = <<>> /\ y.c.enc = <<>> /\ y.c.life = x.c.life
  /\ y.got = x.got \o A /\ y.sent = x.sent \o S /\ y.tx = x.tx \o t

(* Or it was freed. *)
Gone(x, y) ==
  /\ y \in Work /\ y.c = Fresh("freed")
  /\ y.tx = x.tx /\ y.sent = x.sent /\ y.got = x.got

LEMMA TookTalked ==
    ASSUME NEW x, Ripe(x), NEW z, NEW w, NEW Q, Took(x, z, w, Q), NEW y, NEW A, NEW S,
           Talked(z, y, A, S), NEW k, k = Keys(x.c)
    PROVE  /\ Turned(x, y, w, Q, A, S, Bring(k, S))
           /\ y.c.hs = x.c.hs /\ y.c.status = x.c.status
<1>1. x \in Work /\ x.c \in Conn /\ z.c \in Conn BY DEF Ripe, Took, Work
<1>2. z.tx = x.tx /\ z.sent = x.sent /\ z.got = x.got BY <1>1 DEF Took, Work
<1>3. /\ z.c.hs = x.c.hs /\ z.c.status = x.c.status /\ z.c.out = <<>> /\ z.c.enc = <<>>
      /\ z.c.life = x.c.life
  <2>1. z.c = [x.c EXCEPT !.bio = z.c.bio] /\ x.c.out = <<>> /\ x.c.enc = <<>>
    BY DEF Took, Ripe
  <2>2. QED BY <2>1, <1>1 DEF Conn
<1>4. Keys(z.c) = k BY <1>3 DEF Keys
<1>5. y.c = [z.c EXCEPT !.session = y.c.session] BY DEF Talked
<1>6. /\ y.c.hs = z.c.hs /\ y.c.status = z.c.status /\ y.c.out = z.c.out /\ y.c.enc = z.c.enc
      /\ y.c.life = z.c.life /\ y.c.bio = z.c.bio
  BY <1>1, <1>5 DEF Conn
<1>7. OnLine(y.c, w, Q) /\ Len(y.c.bio) <= 1 BY <1>6 DEF Took, OnLine
<1>8. y \in Work /\ y.got = z.got \o A /\ y.sent = z.sent \o S /\ y.tx = z.tx \o Bring(k, S)
  BY <1>4 DEF Talked
<1>9. QED BY <1>2, <1>3, <1>6, <1>7, <1>8 DEF Turned

Chat(x, y, w, k, R) ==
  \/ Gone(x, y)
  \/ /\ y.c.hs = x.c.hs /\ y.c.status = x.c.status
     /\ \E A \in Talk, B \in Talk, S \in Talk :
          R = A \o B /\ Turned(x, y, w, Bring(k, B), A, S, Bring(k, S))

LEMMA TalkRead ==
    ASSUME NEW e \in End, NEW x, Ripe(x), NEW w \in Seq(Record), NEW R \in Talk,
           NEW k, k = Keys(x.c), OnLine(x.c, w, Bring(k, R)), NEW y, y = Secure(e, x)
    PROVE  Peeked(e, x) = y /\ Chat(x, y, w, k, R)
<1>1. x \in Work /\ Finished(x.c) /\ x.c.out = <<>> /\ k \in 0 .. 2 /\ R \in Seq(Msg)
  BY TalkIsSeq DEF Ripe, Keys
<1>2. PICK n \in 0 .. Len(R), z \in Work :
        /\ Took(x, z, w, Bring(k, SubSeq(R, n + 1, Len(R))))
        /\ Secure(e, x) = Handed(z, SubSeq(R, 1, n))
        /\ Peeked(e, x) = Secure(e, x)
  BY <1>1, SecureReads
<1> DEFINE A == SubSeq(R, 1, n)
           B == SubSeq(R, n + 1, Len(R))
<1>3. A \in Talk /\ B \in Talk /\ R = A \o B BY CutAndJoin DEF Talk
<1> HIDE DEF A, B
<1>4. Took(x, z, w, Bring(k, B)) /\ y = Handed(z, A) /\ Peeked(e, x) = y BY <1>2 DEF A, B
<1>5. Ripe(z)
  <2>1. z.c = [x.c EXCEPT !.bio = z.c.bio] /\ x.c \in Conn BY <1>1, <1>4 DEF Took, Work
  <2>2. QED BY <2>1 DEF Ripe, Conn, Finished
<1>6. ASSUME NEW S \in Talk, Talked(z, y, A, S)
      PROVE  /\ y.c.hs = x.c.hs /\ y.c.status = x.c.status
             /\ \E C \in Talk, D \in Talk, U \in Talk :
                  R = C \o D /\ Turned(x, y, w, Bring(k, D), C, U, Bring(k, U))
  <2>1. /\ Turned(x, y, w, Bring(k, B), A, S, Bring(k, S))
        /\ y.c.hs = x.c.hs /\ y.c.status = x.c.status
    BY <1>4, <1>6, TookTalked
  <2>2. QED BY <2>1, <1>3
<1>7. CASE A = <<>>
  <2>1. y = z BY <1>4, <1>7 DEF Handed
  <2>2. Talked(z, y, A, <<>>) BY <2>1, <1>7, TalkOfNothing
  <2>3. QED BY <2>2, <1>4, <1>6, NoTalk DEF Chat
<1>8. CASE A # <<>> /\ z.c.session = "PURGE"
  <2>1. y = Freed(z) BY <1>4, <1>8 DEF Handed, on_input
  <2>2. z.tx = x.tx /\ z.sent = x.sent /\ z.got = x.got BY <1>1, <1>4 DEF Took, Work
  <2>3. Gone(x, y) BY <2>1, <2>2, FreedWork DEF Gone
  <2>4. QED BY <2>3, <1>4 DEF Chat
<1>9. CASE A # <<>> /\ z.c.session # "PURGE"
  <2>1. y = Dispatched(z, A) BY <1>4, <1>9 DEF Handed, on_input
  <2>2. \E S \in Talk : Talked(z, y, A, S) BY <2>1, <1>3, <1>5, TalkWork
  <2>3. QED BY <2>2, <1>4, <1>6 DEF Chat
<1>10. QED BY <1>7, <1>8, <1>9 DEF Chat

(* What the handshake changes in a connection. *)
Advanced(c, d, h, o) == d = [c EXCEPT !.bio = d.bio, !.hs = h, !.out = o]

(* A flight is read, and answered unless it is the last of a handshake. *)
LEMMA FlightRead ==
    ASSUME NEW e \in End, NEW c \in Conn, NEW w \in Seq(Record), NEW j \in 1 .. 9,
           NEW B \in Seq(Record), OnLine(c, w, Lead(j, B)), Len(c.bio) >= 2, c.out = <<>>,
           NEW d, d = SSL_do_handshake(e, c)
    PROVE  /\ d = SSL_read_ahead(e, c) /\ d \in Conn
           /\ OnLine(d, w, B) /\ Len(d.bio) = Len(c.bio) - 2
           /\ j \in {4, 9} => Advanced(c, d, j, <<>>)
           /\ j \notin {4, 9} /\ Speaker(j + 1) = e => Advanced(c, d, j + 1, <<Flight(j + 1)>>)
<1>1. HasFlight(c) /\ Head(Records(c)).flight = j /\ Reads(c, 1, w, B) BY FlightFirst
<1> DEFINE b == ReadRecords(c, 1)
           h == [b EXCEPT !.hs = j]
<1>2. b \in Conn /\ b = [c EXCEPT !.bio = b.bio] /\ OnLine(b, w, B) /\ Len(b.bio) = Len(c.bio) - 2
  <2>1. 2 * 1 = 2 OBVIOUS
  <2>2. b \in Conn /\ b = [c EXCEPT !.bio = b.bio] /\ OnLine(b, w, B)
        /\ Len(b.bio) = Len(c.bio) - 2 * 1
    BY <1>1, ReadsConn
  <2>3. QED BY <2>1, <2>2
<1>3. d = SSL_write_flight(e, h) /\ d = SSL_read_ahead(e, c)
  BY <1>1 DEF SSL_do_handshake, SSL_read_ahead
<1> HIDE DEF b
<1>4. j \in 0 .. 9 /\ (j \notin {4, 9} => j + 1 \in 0 .. 9) OBVIOUS
<1>5. h \in Conn /\ h = [c EXCEPT !.bio = b.bio, !.hs = j] /\ h.hs = j /\ h.bio = b.bio /\ h.out = <<>>
  BY <1>2, <1>4 DEF Conn
<1> HIDE DEF h
<1>6. d \in Conn /\ d.bio = b.bio BY <1>3, <1>5, ReadConn
<1>7. OnLine(d, w, B) BY <1>2, <1>6 DEF OnLine
<1>8. ASSUME j \in {4, 9} PROVE Advanced(c, d, j, <<>>)
  <2>1. d = h BY <1>3, <1>5, <1>8 DEF SSL_write_flight, Finished
  <2>2. [c EXCEPT !.bio = b.bio, !.hs = j] = [c EXCEPT !.bio = b.bio, !.hs = j, !.out = <<>>]
    BY DEF Conn
  <2>3. d = [c EXCEPT !.bio = d.bio, !.hs = j, !.out = <<>>] BY <2>1, <2>2, <1>5
  <2>4. QED BY <2>3 DEF Advanced
<1>9. ASSUME j \notin {4, 9}, Speaker(j + 1) = e
      PROVE  Advanced(c, d, j + 1, <<Flight(j + 1)>>)
  <2> DEFINE f == Flight(j + 1)
             i == j + 1
  <2>1. ~Finished(h) /\ Speaker(h.hs + 1) = e BY <1>5, <1>9 DEF Finished
  <2>2. Append(h.out, Flight(h.hs + 1)) = <<f>> /\ h.hs + 1 = i
    <3> DEFINE g == Flight(h.hs + 1)
    <3>1. h.hs + 1 = i /\ h.out = <<>> /\ g = f BY <1>5
    <3> HIDE DEF g, f, i
    <3>2. Append(h.out, g) = <<g>> BY <3>1
    <3>3. QED BY <3>1, <3>2 DEF g
  <2>3. d = [h EXCEPT !.hs = i, !.out = <<f>>] BY <2>1, <2>2, <1>3 DEF SSL_write_flight
  <2> HIDE DEF f, i
  <2>4. d = [c EXCEPT !.bio = b.bio, !.hs = i, !.out = <<f>>] BY <2>3, <1>5 DEF Conn
  <2>5. d = [c EXCEPT !.bio = d.bio, !.hs = i, !.out = <<f>>] BY <2>4, <1>6
  <2>6. QED BY <2>5 DEF f, i, Advanced
<1>10. QED BY <1>2, <1>3, <1>6, <1>7, <1>8, <1>9

-----------------------------------------------------------------------------
(* net_on_input, by what the end was waiting for. *)

LastFlight(k) == IF k = "p2p" THEN 4 ELSE 9
LastKeys(k) == IF k = "p2p" THEN 1 ELSE 2

Came(e, x) == IF x.c.status = "HANDSHAKE" THEN Handshake(e, x) ELSE Secure(e, x)
Fit(x) == x \in Work /\ x.tx = <<>> /\ x.c.out = <<>> /\ x.c.enc = <<>>

(* A call of on_input that brings nothing, and one that is answered. *)
LEMMA AddNothing ==
    ASSUME NEW x \in Work
    PROVE  x.got \o <<>> = x.got /\ x.sent \o <<>> = x.sent /\ x.tx \o <<>> = x.tx
<1>1. x.got \in Seq(Msg) /\ x.sent \in Seq(Msg) /\ x.tx \in Seq(Record) BY DEF Work
<1>2. QED BY <1>1, ConcatEmptySeq

LEMMA LeadNothing ==
    ASSUME NEW j \in 1 .. 9
    PROVE  Lead(j, <<>>) = <<Flight(j)>> /\ Lead(j, <<>>) \in Seq(Record)
<1> DEFINE F == <<Flight(j)>>
<1>1. F \in Seq(Record) /\ Lead(j, <<>>) = F \o <<>> BY FlightRecord DEF Lead
<1> HIDE DEF F
<1>2. F \o <<>> = F BY <1>1, ConcatEmptySeq
<1>3. QED BY <1>1, <1>2 DEF F

LEMMA NoTx ==
    ASSUME NEW t \in Seq(Record)
    PROVE  <<>> \o t = t
BY ConcatEmptySeq

(* What was left in the BIO for a connection to write goes out. *)
LEMMA KryptFlight ==
    ASSUME NEW x, Fit(x), NEW d \in Conn, NEW y, y = net_do_krypt([x EXCEPT !.c = d])
    PROVE  /\ y \in Work /\ y.c = [d EXCEPT !.out = <<>>]
           /\ y.sent = x.sent /\ y.got = x.got /\ y.tx = d.out
<1> DEFINE z == [x EXCEPT !.c = d]
<1>1. z \in Work /\ z.c = d /\ z.tx = x.tx /\ z.sent = x.sent /\ z.got = x.got
  BY SetConn DEF Fit
<1> HIDE DEF z
<1>2. y = net_do_krypt(z) BY DEF z
<1>3. /\ y \in Work /\ y.sent = x.sent /\ y.got = x.got /\ y.c = [d EXCEPT !.out = <<>>]
      /\ y.tx = <<>> \o d.out
  BY <1>1, <1>2, KryptWork, ZenonT(60) DEF Fit
<1>4. d.out \in Seq(Record) BY DEF Conn
<1> DEFINE o == d.out
<1>5. o \in Seq(Record) BY <1>4
<1> HIDE DEF o
<1>6. <<>> \o o = o BY <1>5, NoTx
<1>7. QED BY <1>3, <1>6 DEF o

LEMMA CameNothing ==
    ASSUME NEW e \in End, NEW x, Fit(x), Len(x.c.bio) < 2,
           x.c.status = "HANDSHAKE" => ~Finished(x.c) /\ Speaker(x.c.hs + 1) # e
    PROVE  Came(e, x) = x
<1>1. x \in Work /\ x.c \in Conn /\ x.c.out = <<>> /\ [x EXCEPT !.c = x.c] = x
  BY DEF Fit, Work
<1>2. ~HasFlight(x.c) /\ ~SSL_pending(x.c) /\ SSL_read_ahead(e, x.c) = x.c
  BY <1>1, ShortRead
<1>3. net_do_krypt(x) = x BY <1>1, KryptNothing
<1>4. CASE x.c.status = "HANDSHAKE"
  <2>1. SSL_do_handshake(e, x.c) = x.c
    BY <1>2, <1>4 DEF SSL_do_handshake, SSL_write_flight
  <2>2. Handshake(e, x) = x BY <2>1, <1>1, <1>3, <1>4 DEF Handshake
  <2>3. QED BY <2>2, <1>4 DEF Came
<1>5. CASE x.c.status # "HANDSHAKE"
  <2>1. Secure(e, x) = net_do_krypt(net_do_krypt(x)) BY <1>1, <1>2, SecureWithout
  <2>2. QED BY <2>1, <1>3, <1>5 DEF Came
<1>6. QED BY <1>4, <1>5

(* In the middle of a handshake a flight is answered by the next one. *)
LEMMA CameAnswers ==
    ASSUME NEW e \in End, NEW x, Fit(x), NEW w \in Seq(Record), NEW j \in {1, 2, 5, 6, 7},
           Speaker(j + 1) = e, OnLine(x.c, w, Lead(j, <<>>)), Len(x.c.bio) >= 2,
           NEW y, y = Came(e, x)
    PROVE  /\ Turned(x, y, w, <<>>, <<>>, <<>>, Lead(j + 1, <<>>))
           /\ y.c.hs = j + 1 /\ y.c.status = x.c.status /\ y.c.session = x.c.session
<1> DEFINE d == SSL_do_handshake(e, x.c)
           z == net_do_krypt([x EXCEPT !.c = d])
<1>1. x \in Work /\ x.c \in Conn /\ x.c.out = <<>> /\ x.c.enc = <<>> /\ <<>> \in Seq(Record)
  BY EmptySeq DEF Fit, Work
<1>2. j \in 1 .. 9 /\ j \notin {4, 9} /\ j + 1 \notin {4, 9} /\ j + 1 \in 1 .. 9 /\ j + 1 \in 0 .. 9
  OBVIOUS
<1>3. /\ d = SSL_read_ahead(e, x.c) /\ d \in Conn /\ OnLine(d, w, <<>>)
      /\ d = [x.c EXCEPT !.bio = d.bio, !.hs = j + 1, !.out = <<Flight(j + 1)>>]
  <2> DEFINE c == x.c
             B == <<>>
  <2>1. /\ c \in Conn /\ j \in 1 .. 9 /\ B \in Seq(Record) /\ OnLine(c, w, Lead(j, B))
        /\ Len(c.bio) >= 2 /\ c.out = <<>> /\ j \notin {4, 9} /\ Speaker(j + 1) = e
        /\ d = SSL_do_handshake(e, c)
    BY <1>1, <1>2
  <2> HIDE DEF c, d, B
  <2>2. d = SSL_read_ahead(e, c) /\ d \in Conn /\ OnLine(d, w, B) BY <2>1, FlightRead
  <2>4. Advanced(c, d, j + 1, <<Flight(j + 1)>>) BY <2>1, FlightRead
  <2>3. QED BY <2>2, <2>4 DEF c, B, Advanced
<1>4. Handshake(e, x) = IF ~Finished(d) THEN z ELSE Peeked(e, on_secure(e, [z EXCEPT !.c.status = "SECURE"]))
  BY DEF Handshake
<1> HIDE DEF d
<1>5. d.bio = <<>> /\ Len(d.bio) = 0 BY <1>3, NoLine
<1>6. /\ d.hs = j + 1 /\ d.out = <<Flight(j + 1)>> /\ d.enc = <<>> /\ d.life = x.c.life
      /\ d.status = x.c.status /\ d.session = x.c.session
  <2> DEFINE b == d.bio
             i == j + 1
             o == <<Flight(j + 1)>>
  <2>1. d = [x.c EXCEPT !.bio = b, !.hs = i, !.out = o] /\ x.c.enc = <<>> BY <1>1, <1>3
  <2> HIDE DEF b, i, o
  <2>2. /\ d.hs = i /\ d.out = o /\ d.enc = <<>> /\ d.life = x.c.life
        /\ d.status = x.c.status /\ d.session = x.c.session
    BY <2>1, <1>1 DEF Conn
  <2>3. QED BY <2>2 DEF i, o
<1>7. ~Finished(d) /\ ~SSL_pending(d) BY <1>2, <1>6 DEF Finished, SSL_pending
<1>8. z \in Work /\ z.c = [d EXCEPT !.out = <<>>] /\ z.sent = x.sent /\ z.got = x.got /\ z.tx = d.out
  BY <1>3, KryptFlight
<1>9. y = z
  <2>1. Handshake(e, x) = z BY <1>4, <1>7
  <2>2. Secure(e, x) = net_do_krypt(z) BY <1>3, <1>7, SecureWithout
  <2>3. net_do_krypt(z) = z
    <3>1. [x EXCEPT !.c = d] \in Work BY <1>1, <1>3, SetConn
    <3>2. QED BY <3>1, KryptTwice
  <2>4. QED BY <2>1, <2>2, <2>3 DEF Came
<1> HIDE DEF z
<1>10. /\ z.c.bio = <<>> /\ z.c.out = <<>> /\ z.c.enc = <<>> /\ z.c.hs = j + 1
       /\ z.c.status = x.c.status /\ z.c.session = x.c.session /\ z.c.life = x.c.life
  BY <1>3, <1>5, <1>6, <1>8 DEF Conn
<1>11. OnLine(z.c, w, <<>>) /\ Len(z.c.bio) <= 1 BY <1>3, <1>5, <1>10 DEF OnLine
<1>12. z.tx = x.tx \o Lead(j + 1, <<>>)
  <2> DEFINE t == Lead(j + 1, <<>>)
  <2>1. t = <<Flight(j + 1)>> /\ t \in Seq(Record) BY <1>2, LeadNothing
  <2>2. z.tx = t BY <2>1, <1>6, <1>8
  <2> HIDE DEF t
  <2>3. <<>> \o t = t BY <2>1, NoTx
  <2>4. z.tx = x.tx \o t BY <2>2, <2>3 DEF Fit
  <2>5. QED BY <2>4 DEF t
<1>13. z.got = x.got \o <<>> /\ z.sent = x.sent \o <<>> BY <1>1, <1>8, AddNothing
<1>14. QED BY <1>8, <1>9, <1>10, <1>11, <1>12, <1>13 DEF Turned

LEMMA TurnedFrom ==
    ASSUME NEW x, NEW z, z.got = x.got, z.sent = x.sent, z.tx = x.tx, z.c.life = x.c.life,
           NEW y, NEW w, NEW Q, NEW A, NEW S, NEW t
    PROVE  (Turned(z, y, w, Q, A, S, t) => Turned(x, y, w, Q, A, S, t)) /\ (Gone(z, y) => Gone(x, y))
BY DEF Turned, Gone

(* The last flight of a handshake is the server's: SECURE, and on_secure. *)
LEMMA CameEnds ==
    ASSUME NEW x, Fit(x), NEW w \in Seq(Record), NEW j \in {3, 8}, kind \in {"switch", "prov", "p2p"},
           OnLine(x.c, w, Lead(j, <<>>)), Len(x.c.bio) >= 2, x.c.status = "HANDSHAKE",
           kind = "p2p" => j = 3, kind # "p2p" /\ j = 3 => x.c.session # "WAIT_STEPUP",
           NEW y, y = Came("server", x)
    PROVE  /\ y.c.hs = j + 1 /\ y.c.status = "SECURE"
           /\ kind # "p2p" /\ j = 3 => y.c.session = x.c.session
           /\ \E S \in Talk : /\ Turned(x, y, w, <<>>, <<>>, S, Lead(j + 1, Bring(LastKeys(kind), S)))
                              /\ j + 1 < LastFlight(kind) => S = <<>>
<1> DEFINE d == SSL_do_handshake("server", x.c)
           z == net_do_krypt([x EXCEPT !.c = d])
           u == [z EXCEPT !.c.status = "SECURE"]
           v == on_secure("server", u)
<1>1. x \in Work /\ x.c \in Conn /\ x.c.out = <<>> /\ x.c.enc = <<>> /\ <<>> \in Seq(Record)
  BY EmptySeq DEF Fit, Work
<1>2. /\ j \in 1 .. 9 /\ j \notin {4, 9} /\ j + 1 \in {4, 9} /\ j + 1 \in 1 .. 9 /\ j + 1 \in 0 .. 9
      /\ Speaker(j + 1) = "server" /\ "server" \in End
  BY DEF Speaker, End
<1>3. d \in Conn /\ OnLine(d, w, <<>>) /\ Advanced(x.c, d, j + 1, <<Flight(j + 1)>>)
  <2> DEFINE c == x.c
             B == <<>>
             e == "server"
  <2>1. /\ c \in Conn /\ j \in 1 .. 9 /\ B \in Seq(Record) /\ OnLine(c, w, Lead(j, B))
        /\ Len(c.bio) >= 2 /\ c.out = <<>> /\ j \notin {4, 9} /\ Speaker(j + 1) = e
        /\ d = SSL_do_handshake(e, c) /\ e \in End
    BY <1>1, <1>2
  <2> HIDE DEF c, d, B, e
  <2>2. d \in Conn /\ OnLine(d, w, B) BY <2>1, FlightRead
  <2>3. Advanced(c, d, j + 1, <<Flight(j + 1)>>) BY <2>1, FlightRead
  <2>4. QED BY <2>2, <2>3 DEF c, B
<1>4. Handshake("server", x) = IF ~Finished(d) THEN z ELSE Peeked("server", v)
  BY DEF Handshake
<1> HIDE DEF d
<1>5. d.bio = <<>> /\ Len(d.bio) = 0 BY <1>3, NoLine
<1>6. /\ d.hs = j + 1 /\ d.out = <<Flight(j + 1)>> /\ d.enc = <<>> /\ d.life = x.c.life
      /\ d.session = x.c.session
  <2> DEFINE b == d.bio
             i == j + 1
             o == <<Flight(j + 1)>>
  <2>1. d = [x.c EXCEPT !.bio = b, !.hs = i, !.out = o] /\ x.c.enc = <<>>
    BY <1>1, <1>3 DEF Advanced
  <2> HIDE DEF b, i, o
  <2>2. /\ d.hs = i /\ d.out = o /\ d.enc = <<>> /\ d.life = x.c.life /\ d.session = x.c.session
    BY <2>1, <1>1 DEF Conn
  <2>3. QED BY <2>2 DEF i, o
<1>7. z \in Work /\ z.c = [d EXCEPT !.out = <<>>] /\ z.sent = x.sent /\ z.got = x.got /\ z.tx = d.out
  BY <1>3, KryptFlight
<1> HIDE DEF z
<1>8. /\ u \in Work /\ u.sent = x.sent /\ u.got = x.got /\ u.tx = d.out
      /\ u.c = [d EXCEPT !.out = <<>>, !.status = "SECURE"]
  <2>1. d \in Conn BY <1>3
  <2>2. QED BY <2>1, <1>7 DEF Work, Conn
<1> HIDE DEF u
<1>9. /\ u.c \in Conn /\ u.c.bio = <<>> /\ u.c.out = <<>> /\ u.c.enc = <<>> /\ u.c.hs = j + 1
      /\ u.c.status = "SECURE" /\ u.c.session = x.c.session /\ u.c.life = x.c.life
  <2>1. u.c \in Conn BY <1>8 DEF Work
  <2>2. QED BY <2>1, <1>3, <1>5, <1>6, <1>8 DEF Conn
<1> DEFINE Good(q, S) ==
             /\ q \in Work /\ q.got = x.got /\ q.sent = x.sent \o S
             /\ q.tx = Lead(j + 1, Bring(LastKeys(kind), S))
             /\ q.c = [u.c EXCEPT !.session = q.c.session]
<1>10. /\ u.tx = Lead(j + 1, <<>>) /\ Bring(LastKeys(kind), <<>>) = <<>> /\ u.sent = x.sent \o <<>>
       /\ Lead(j + 1, <<>>) = <<Flight(j + 1)>>
  <2>1. Lead(j + 1, <<>>) = <<Flight(j + 1)>> BY <1>2, LeadNothing
  <2>2. u.tx = <<Flight(j + 1)>> /\ u.sent = x.sent BY <1>6, <1>8
  <2>3. x.sent \o <<>> = x.sent BY <1>1, AddNothing
  <2>4. QED BY <2>1, <2>2, <2>3, BringNone
<1>11. Good(u, <<>>)
  <2>1. u.c = [u.c EXCEPT !.session = u.c.session] BY <1>9 DEF Conn
  <2>2. QED BY <2>1, <1>8, <1>10
<1>12. \E S \in Talk : /\ Good(v, S)
                       /\ j + 1 < LastFlight(kind) => S = <<>>
                       /\ kind # "p2p" /\ j = 3 => v.c.session = x.c.session
  <2>1. CASE kind = "p2p"
    <3> DEFINE c == [u.c EXCEPT !.session = "AUTHED"]
               a == [u EXCEPT !.c = c]
    <3>1. v = a BY <2>1 DEF on_secure
    <3>2. c \in Conn /\ c = [u.c EXCEPT !.session = c.session] BY <1>9 DEF Conn
    <3> HIDE DEF c
    <3>3. a \in Work /\ a.c = c /\ a.tx = u.tx /\ a.sent = u.sent /\ a.got = u.got
      BY <3>2, <1>8, SetConn
    <3> HIDE DEF a, v
    <3>4. Good(v, <<>>) BY <3>1, <3>2, <3>3, <1>8, <1>10
    <3>5. kind = "p2p" BY <2>1
    <3> HIDE DEF Good
    <3>6. QED BY <3>4, <3>5, NoTalk
  <2>2. CASE kind # "p2p" /\ u.c.session # "WAIT_STEPUP"
    <3>1. v = u BY <2>2 DEF on_secure
    <3>2. v.c.session = x.c.session BY <3>1, <1>9
    <3> HIDE DEF Good
    <3>3. QED BY <3>1, <3>2, <1>11, NoTalk
  <2>3. CASE kind # "p2p" /\ u.c.session = "WAIT_STEPUP"
    <3> DEFINE c == [u.c EXCEPT !.session = "AUTHED"]
               a == [u EXCEPT !.c = c]
               m == Control("success")
               b == Bring(2, <<m>>)
    <3>1. v = net_send_msg(a, m) BY <2>3 DEF on_secure
    <3>2. c \in Conn /\ c = [u.c EXCEPT !.session = c.session]
          /\ c.hs = j + 1 /\ c.status = "SECURE" /\ c.out = <<>> /\ c.enc = <<>>
      BY <1>9 DEF Conn
    <3> HIDE DEF c
    <3>3. a \in Work /\ a.c = c /\ a.tx = u.tx /\ a.sent = u.sent /\ a.got = u.got
      BY <3>2, <1>8, SetConn
    <3> HIDE DEF a
    <3>4. j = 8 BY <2>3, <1>9
    <3>5. Keys(a.c) = 2 /\ Finished(a.c) BY <3>2, <3>3, <3>4 DEF Keys, Finished
    <3>6. m \in Later /\ Ripe(a) BY <3>2, <3>3, <3>5 DEF Control, Message, Later, Ripe
    <3> HIDE DEF m, v
    <3>7. Talked(a, v, <<>>, <<m>>) BY <3>1, <3>6, SendTalk
    <3>8. /\ v \in Work /\ v.got = a.got \o <<>> /\ v.sent = a.sent \o <<m>>
          /\ v.tx = a.tx \o b /\ v.c = [a.c EXCEPT !.session = v.c.session]
      BY <3>5, <3>7 DEF Talked
    <3>9. v.got = x.got /\ v.sent = x.sent \o <<m>> BY <3>3, <3>8, <1>1, <1>8, AddNothing
    <3>10. v.tx = Lead(j + 1, Bring(LastKeys(kind), <<m>>))
      <4>1. LastKeys(kind) = 2 BY <2>3 DEF LastKeys
      <4>2. v.tx = <<Flight(j + 1)>> \o b BY <3>3, <3>8, <1>10
      <4>3. QED BY <4>1, <4>2 DEF Lead
    <3>11. v.c = [u.c EXCEPT !.session = v.c.session] BY <3>2, <3>3, <3>8, <1>9 DEF Conn
    <3>12. Good(v, <<m>>) BY <3>8, <3>9, <3>10, <3>11
    <3>13. <<m>> \in Talk /\ ~(j + 1 < LastFlight(kind))
      BY <3>4, <3>6, <2>3 DEF Talk, LastFlight
    <3> HIDE DEF Good
    <3>14. QED BY <3>4, <3>12, <3>13
  <2>4. QED BY <2>1, <2>2, <2>3
<1> HIDE DEF v
<1>13. PICK S \in Talk : /\ Good(v, S)
                         /\ j + 1 < LastFlight(kind) => S = <<>>
                         /\ kind # "p2p" /\ j = 3 => v.c.session = x.c.session
  BY <1>12
<1>14. /\ v.c.bio = <<>> /\ v.c.out = <<>> /\ v.c.enc = <<>> /\ v.c.hs = j + 1
       /\ v.c.status = "SECURE" /\ v.c.life = x.c.life
  <2>1. v.c = [u.c EXCEPT !.session = v.c.session] BY <1>13
  <2>2. QED BY <2>1, <1>9 DEF Conn
<1>15. y = v
  <2>1. Finished(d) BY <1>2, <1>6 DEF Finished
  <2>2. Peeked("server", v) = v
    <3>1. v.c \in Conn /\ Len(v.c.bio) < 2
      <4>1. v.c \in Conn BY <1>13 DEF Work
      <4>2. Len(v.c.bio) = 0 BY <1>5, <1>14
      <4>3. QED BY <4>1, <4>2
    <3>2. ~SSL_pending(v.c) BY <3>1, ShortRead
    <3>3. QED BY <3>2 DEF Peeked
  <2>3. QED BY <2>1, <2>2, <1>4 DEF Came
<1>16. Turned(x, v, w, <<>>, <<>>, S, Lead(j + 1, Bring(LastKeys(kind), S)))
  <2> DEFINE t == Lead(j + 1, Bring(LastKeys(kind), S))
  <2>1. v \in Work /\ v.got = x.got /\ v.sent = x.sent \o S /\ v.tx = t BY <1>13
  <2>2. OnLine(v.c, w, <<>>) /\ Len(v.c.bio) <= 1
    <3>1. v.c.bio = d.bio BY <1>5, <1>14
    <3>2. QED BY <3>1, <1>3, <1>5 DEF OnLine
  <2>3. x.got \o <<>> = x.got BY <1>1, AddNothing
  <2>4. x.tx \o t = t
    <3>1. v.tx \in Seq(Record) BY <2>1 DEF Work
    <3>2. t \in Seq(Record) BY <2>1, <3>1
    <3> HIDE DEF t
    <3>3. <<>> \o t = t BY <3>2, NoTx
    <3>4. QED BY <3>3 DEF Fit
  <2> HIDE DEF t
  <2>5. Turned(x, v, w, <<>>, <<>>, S, t) BY <2>1, <2>2, <2>3, <2>4, <1>14 DEF Turned
  <2>6. QED BY <2>5 DEF t
<1>17. QED BY <1>13, <1>14, <1>15, <1>16

(* SSL_read that goes through the end of a handshake reads on. *)
LEMMA SecureSame ==
    ASSUME NEW e, NEW x \in Work, NEW d \in Conn, d = SSL_read_ahead(e, x.c),
           d = SSL_read_ahead(e, d), NEW z, z = [x EXCEPT !.c = d]
    PROVE  Secure(e, x) = Secure(e, z)
<1>1. z.c = d /\ \A q : [z EXCEPT !.c = q] = [x EXCEPT !.c = q] BY DEF Work
<1>2. CASE ~SSL_pending(d)
  <2>1. ASSUME NEW s, d = SSL_read_ahead(e, s.c)
        PROVE  Secure(e, s) = net_do_krypt(net_do_krypt([s EXCEPT !.c = d]))
    BY <1>2, <2>1, SecureWithout
  <2>2. [z EXCEPT !.c = d] = [x EXCEPT !.c = d] /\ d = SSL_read_ahead(e, z.c) BY <1>1
  <2>3. Secure(e, z) = net_do_krypt(net_do_krypt([z EXCEPT !.c = d])) BY <2>1, <2>2
  <2>4. Secure(e, x) = net_do_krypt(net_do_krypt([x EXCEPT !.c = d])) BY <2>1
  <2>5. QED BY <2>2, <2>3, <2>4
<1>3. CASE SSL_pending(d)
  <2> DEFINE n == Ready(d)
             A == FlattenSeq([i \in 1 .. n |-> Records(d)[i].msgs])
  <2>1. n = Ready(d) /\ FlattenSeq([i \in 1 .. n |-> Records(d)[i].msgs]) = A OBVIOUS
  <2> HIDE DEF n, A
  <2>2. ASSUME NEW s, d = SSL_read_ahead(e, s.c)
        PROVE  Secure(e, s) = IF A = <<>> THEN LeftBy(e, s, d, n) ELSE on_input(LeftBy(e, s, d, n), A)
    BY <1>3, <2>1, <2>2, SecureWith
  <2>3. LeftBy(e, z, d, n) = LeftBy(e, x, d, n) /\ d = SSL_read_ahead(e, z.c)
    BY <1>1 DEF LeftBy
  <2>4. Secure(e, z) = IF A = <<>> THEN LeftBy(e, z, d, n) ELSE on_input(LeftBy(e, z, d, n), A)
    BY <2>2, <2>3
  <2>5. Secure(e, x) = IF A = <<>> THEN LeftBy(e, x, d, n) ELSE on_input(LeftBy(e, x, d, n), A)
    BY <2>2
  <2>6. QED BY <2>3, <2>4, <2>5
<1>4. QED BY <1>2, <1>3

(* The last flight is read, maybe with messages after it. *)
Listens(x, y, w, k, R) ==
  \/ Gone(x, y)
  \/ /\ y.c.hs = LastFlight(kind) /\ y.c.status = "SECURE"
     /\ \E A \in Talk, B \in Talk, S \in Talk :
          R = A \o B /\ Turned(x, y, w, Bring(k, B), A, S, Bring(k, S))

LEMMA CameTalk ==
    ASSUME NEW e \in End, NEW x, Fit(x), NEW w \in Seq(Record), NEW R \in Talk,
           kind \in {"switch", "prov", "p2p"}, x.c.hs = LastFlight(kind), x.c.status = "SECURE",
           OnLine(x.c, w, Bring(LastKeys(kind), R)), NEW y, y = Came(e, x)
    PROVE  Listens(x, y, w, LastKeys(kind), R)
<1>1. Finished(x.c) /\ Keys(x.c) = LastKeys(kind)
  BY DEF Finished, Keys, LastFlight, LastKeys
<1>2. Ripe(x) BY <1>1 DEF Fit, Ripe
<1>3. y = Secure(e, x) BY DEF Came
<1> DEFINE k == LastKeys(kind)
<1>4. k = Keys(x.c) /\ OnLine(x.c, w, Bring(k, R)) BY <1>1
<1> HIDE DEF k
<1>5. Chat(x, y, w, k, R) BY <1>2, <1>3, <1>4, TalkRead
<1>6. QED BY <1>5 DEF Listens, k, Chat

(* The first handshake of two agents ends at the client. *)
LEMMA CameGreeted ==
    ASSUME NEW x, Fit(x), NEW w \in Seq(Record), NEW R \in Talk, kind = "p2p",
           OnLine(x.c, w, Lead(4, Bring(LastKeys(kind), R))), Len(x.c.bio) >= 2,
           x.c.status = "HANDSHAKE", NEW y, y = Came("client", x)
    PROVE  Listens(x, y, w, LastKeys(kind), R)
<1> DEFINE e == "client"
           k == LastKeys(kind)
           d == SSL_do_handshake(e, x.c)
           z == net_do_krypt([x EXCEPT !.c = d])
           u == [z EXCEPT !.c.status = "SECURE"]
           v == on_secure(e, u)
<1>1. x \in Work /\ x.c \in Conn /\ x.c.out = <<>> /\ x.c.enc = <<>> /\ R \in Seq(Msg) /\ k = 1
      /\ e \in End
  BY TalkIsSeq DEF Fit, Work, LastKeys, End
<1>2. d \in Conn /\ OnLine(d, w, Bring(k, R)) /\ Advanced(x.c, d, 4, <<>>)
  <2> DEFINE c == x.c
             B == Bring(k, R)
             j == 4
  <2>1. B \in Seq(Record)
    <3>1. k \in 0 .. 2 BY <1>1
    <3> HIDE DEF k
    <3>2. QED BY <1>1, <3>1, BringSeq
  <2>2. /\ c \in Conn /\ j \in 1 .. 9 /\ B \in Seq(Record) /\ OnLine(c, w, Lead(j, B))
        /\ Len(c.bio) >= 2 /\ c.out = <<>> /\ j \in {4, 9} /\ d = SSL_do_handshake(e, c)
    BY <1>1, <2>1
  <2> HIDE DEF c, d, B, j, e
  <2>3. d \in Conn /\ OnLine(d, w, B) /\ Advanced(c, d, j, <<>>) BY <1>1, <2>2, FlightRead
  <2>4. QED BY <2>3 DEF c, B, j
<1>3. Handshake(e, x) = IF ~Finished(d) THEN z ELSE Peeked(e, v) BY DEF Handshake
<1> HIDE DEF d
<1>4. d.hs = 4 /\ d.out = <<>> /\ d.enc = <<>> /\ d.life = x.c.life
  <2> DEFINE b == d.bio
  <2>1. d = [x.c EXCEPT !.bio = b, !.hs = 4, !.out = <<>>] /\ x.c.enc = <<>>
    BY <1>1, <1>2 DEF Advanced
  <2> HIDE DEF b
  <2>2. QED BY <2>1, <1>1 DEF Conn
<1>5. z \in Work /\ z.c = [d EXCEPT !.out = <<>>] /\ z.sent = x.sent /\ z.got = x.got /\ z.tx = d.out
  BY <1>2, KryptFlight
<1> HIDE DEF z
<1> DEFINE c == [d EXCEPT !.status = "SECURE", !.session = "AUTHED"]
           a == [z EXCEPT !.c = c]
<1>6. v = a
  <2>1. v = [u EXCEPT !.c.session = "AUTHED"] BY DEF on_secure
  <2>2. [d EXCEPT !.out = <<>>] = d BY <1>2, <1>4 DEF Conn
  <2>3. [u EXCEPT !.c.session = "AUTHED"] = a BY <2>2, <1>2, <1>5 DEF Work, Conn
  <2>4. QED BY <2>1, <2>3
<1>7. /\ c \in Conn /\ c.bio = d.bio /\ c.hs = 4 /\ c.status = "SECURE" /\ c.out = <<>> /\ c.enc = <<>>
      /\ c.life = x.c.life
  BY <1>2, <1>4 DEF Conn
<1> HIDE DEF c
<1>8. /\ a \in Work /\ a.c = c /\ a.sent = x.sent /\ a.got = x.got /\ a.tx = x.tx
  <2>1. a \in Work /\ a.c = c /\ a.sent = z.sent /\ a.got = z.got /\ a.tx = z.tx
    BY <1>5, <1>7, SetConn
  <2>2. z.tx = x.tx BY <1>4, <1>5 DEF Fit
  <2>3. QED BY <2>1, <2>2, <1>5
<1> HIDE DEF a, v
<1>9. y = Peeked(e, a)
  <2>1. Finished(d) BY <1>4 DEF Finished
  <2>2. QED BY <2>1, <1>3, <1>6 DEF Came
<1>10. Ripe(a) /\ k = Keys(a.c) /\ Fit(a) /\ a.c.hs = LastFlight(kind) /\ a.c.status = "SECURE"
       /\ a.c.life = x.c.life
  <2>1. Ripe(a) BY <1>7, <1>8 DEF Ripe, Finished
  <2>2. k = Keys(a.c) BY <1>1, <1>7, <1>8 DEF Keys
  <2>3. Fit(a) BY <1>7, <1>8 DEF Fit
  <2>4. a.c.hs = LastFlight(kind) BY <1>7, <1>8 DEF LastFlight
  <2>5. QED BY <2>1, <2>2, <2>3, <2>4, <1>7, <1>8
<1>11. OnLine(a.c, w, Bring(k, R))
  <2>1. a.c.bio = d.bio BY <1>7, <1>8
  <2> HIDE DEF k
  <2>2. QED BY <2>1, <1>2 DEF OnLine
<1>12. y = Came(e, a)
  <2>1. Peeked(e, a) = Secure(e, a)
    <3> DEFINE s == Secure(e, a)
    <3>1. s = Secure(e, a) OBVIOUS
    <3> HIDE DEF s, k, e
    <3>2. Peeked(e, a) = s BY <1>1, <1>10, <1>11, <3>1, TalkRead
    <3>3. QED BY <3>1, <3>2
  <2>2. QED BY <2>1, <1>9, <1>10 DEF Came
<1>13. Listens(a, y, w, k, R)
  <2>1. kind \in {"switch", "prov", "p2p"} OBVIOUS
  <2> HIDE DEF e
  <2>2. QED BY <2>1, <1>1, <1>10, <1>11, <1>12, CameTalk DEF k
<1>14. /\ Gone(a, y) => Gone(x, y)
       /\ \A Q, A, S, t : Turned(a, y, w, Q, A, S, t) => Turned(x, y, w, Q, A, S, t)
  BY <1>8, <1>10, TurnedFrom
<1>15. QED BY <1>13, <1>14 DEF Listens

(* The second handshake ends at the client, in SSL_read. *)
LEMMA CameRenewed ==
    ASSUME NEW x, Fit(x), NEW w \in Seq(Record), NEW R \in Talk, kind \in {"switch", "prov"},
           OnLine(x.c, w, Lead(9, Bring(LastKeys(kind), R))), Len(x.c.bio) >= 2,
           x.c.status = "SECURE", NEW y, y = Came("client", x)
    PROVE  Listens(x, y, w, LastKeys(kind), R)
<1> DEFINE e == "client"
           k == LastKeys(kind)
           d == SSL_do_handshake(e, x.c)
           a == [x EXCEPT !.c = d]
<1>1. x \in Work /\ x.c \in Conn /\ x.c.out = <<>> /\ x.c.enc = <<>> /\ R \in Seq(Msg) /\ k = 2
      /\ e \in End
  BY TalkIsSeq DEF Fit, Work, LastKeys, End
<1>2. /\ d \in Conn /\ OnLine(d, w, Bring(k, R)) /\ Advanced(x.c, d, 9, <<>>)
      /\ d = SSL_read_ahead(e, x.c)
  <2> DEFINE c == x.c
             B == Bring(k, R)
             j == 9
  <2>1. B \in Seq(Record)
    <3>1. k \in 0 .. 2 BY <1>1
    <3> HIDE DEF k
    <3>2. QED BY <1>1, <3>1, BringSeq
  <2>2. /\ c \in Conn /\ j \in 1 .. 9 /\ B \in Seq(Record) /\ OnLine(c, w, Lead(j, B))
        /\ Len(c.bio) >= 2 /\ c.out = <<>> /\ j \in {4, 9} /\ d = SSL_do_handshake(e, c)
    BY <1>1, <2>1
  <2> HIDE DEF c, d, B, j, e
  <2>3. d \in Conn /\ OnLine(d, w, B) /\ Advanced(c, d, j, <<>>) /\ d = SSL_read_ahead(e, c)
    BY <1>1, <2>2, FlightRead
  <2>4. QED BY <2>3 DEF c, B, j
<1> HIDE DEF d
<1>3. d.hs = 9 /\ d.out = <<>> /\ d.enc = <<>> /\ d.life = x.c.life /\ d.status = "SECURE"
  <2> DEFINE b == d.bio
  <2>1. d = [x.c EXCEPT !.bio = b, !.hs = 9, !.out = <<>>] /\ x.c.enc = <<>>
    BY <1>1, <1>2 DEF Advanced
  <2> HIDE DEF b
  <2>2. QED BY <2>1, <1>1 DEF Conn
<1>4. d = SSL_read_ahead(e, d)
  <2>1. k \in 0 .. 2 BY <1>1
  <2> HIDE DEF k
  <2>2. ~HasFlight(d) BY <1>1, <1>2, <2>1, NoFlight
  <2>3. QED BY <2>2 DEF SSL_read_ahead
<1>5. a \in Work /\ a.c = d /\ a.tx = x.tx /\ a.sent = x.sent /\ a.got = x.got
  BY <1>1, <1>2, SetConn
<1>6. y = Secure(e, a)
  <2>1. Secure(e, x) = Secure(e, a)
    <3>1. a = [x EXCEPT !.c = d] OBVIOUS
    <3> HIDE DEF a, e
    <3>2. QED BY <3>1, <1>1, <1>2, <1>4, SecureSame
  <2>2. QED BY <2>1 DEF Came
<1> HIDE DEF a
<1>7. Fit(a) /\ a.c.hs = LastFlight(kind) /\ a.c.status = "SECURE" /\ OnLine(a.c, w, Bring(k, R))
  BY <1>2, <1>3, <1>5 DEF Fit, LastFlight
<1>8. y = Came(e, a) BY <1>6, <1>7 DEF Came
<1>9. Listens(a, y, w, k, R)
  <2>1. kind \in {"switch", "prov", "p2p"} OBVIOUS
  <2> HIDE DEF e
  <2>2. QED BY <2>1, <1>1, <1>7, <1>8, CameTalk DEF k
<1>10. /\ Gone(a, y) => Gone(x, y)
       /\ \A Q, A, S, t : Turned(a, y, w, Q, A, S, t) => Turned(x, y, w, Q, A, S, t)
  BY <1>3, <1>5, TurnedFrom
<1>11. QED BY <1>9, <1>10, SMTT(40) DEF Listens

(* The messages under the anonymous keys: what an agent asks for first, and *)
(* what it is answered.                                                     *)
Auth == <<Control("auth")>>
StepUp == <<Control("secureStepUp")>>
Ask == <<Control("provRequest")>>
Grant == <<Control("provResponse")>>
Opener == <<Control(Opening)>>

Lone(M) == /\ M \in Seq(Msg) /\ Len(M) = 1 /\ M # <<>> /\ Bring(1, M) \in Seq(Record)
           /\ M = <<M[1]>>

LEMMA AuthIsSeq ==
    /\ Lone(Auth) /\ Lone(StepUp) /\ Lone(Ask) /\ Lone(Grant) /\ Lone(Opener)
    /\ Auth[1] = Control("auth") /\ StepUp[1] = Control("secureStepUp")
    /\ Ask[1] = Control("provRequest") /\ Grant[1] = Control("provResponse")
    /\ Opener = IF kind = "prov" THEN Ask ELSE Auth
<1>1. ASSUME NEW m \in Msg PROVE Lone(<<m>>) /\ <<m>>[1] = m
  <2>1. <<m>> \in Seq(Msg) /\ Len(<<m>>) = 1 /\ <<m>> # <<>> /\ <<m>>[1] = m /\ 1 \in 0 .. 2
    OBVIOUS
  <2>2. Bring(1, <<m>>) \in Seq(Record) BY <2>1, BringSeq
  <2>3. QED BY <2>1, <2>2 DEF Lone
<1>2. /\ Control("auth") \in Msg /\ Control("secureStepUp") \in Msg
      /\ Control("provRequest") \in Msg /\ Control("provResponse") \in Msg
  BY ControlMsg
<1>3. Opener = IF kind = "prov" THEN Ask ELSE Auth BY DEF Opener, Opening, Ask, Auth
<1>4. Lone(Auth) /\ Auth[1] = Control("auth") /\ Lone(Ask) /\ Ask[1] = Control("provRequest")
  BY <1>1, <1>2, Zenon DEF Auth, Ask
<1>5. /\ Lone(StepUp) /\ StepUp[1] = Control("secureStepUp")
      /\ Lone(Grant) /\ Grant[1] = Control("provResponse")
  BY <1>1, <1>2, Zenon DEF StepUp, Grant
<1>6. Lone(Opener) BY <1>3, <1>4, Zenon
<1>7. QED BY <1>3, <1>4, <1>5, <1>6

(* They are sent alone. *)
LEMMA SendAnonymous ==
    ASSUME NEW x \in Work, NEW msg \in Msg, x.c.status = "SECURE", x.c.hs = 4,
           x.c.out = <<>>, x.c.enc = <<>>, NEW y, y = net_send_msg(x, msg)
    PROVE  /\ y \in Work /\ y.c = x.c /\ y.got = x.got
           /\ y.sent = x.sent \o <<msg>> /\ y.tx = x.tx \o Bring(1, <<msg>>)
<1>1. Finished(x.c) /\ Keys(x.c) = 1 BY DEF Finished, Keys
<1>2. y \in Work /\ y.sent = Append(x.sent, msg) /\ y.got = x.got BY SendWork
<1>3. y.c = x.c /\ y.tx = x.tx \o Bring(1, <<msg>>) BY <1>1, SendSecure
<1>4. x.sent \in Seq(Msg) BY DEF Work
<1>5. Append(x.sent, msg) = x.sent \o <<msg>> BY <1>4, AppendIsConcat
<1>6. QED BY <1>2, <1>3, <1>5

(* The first handshake of an agent ends: it asks for a passport or to be    *)
(* authenticated.                                                           *)
LEMMA CameCalls ==
    ASSUME NEW x, Fit(x), NEW w \in Seq(Record), kind \in {"switch", "prov"},
           OnLine(x.c, w, Lead(4, <<>>)), Len(x.c.bio) >= 2,
           x.c.status = "HANDSHAKE", NEW y, y = Came("client", x)
    PROVE  /\ y.c.hs = 4 /\ y.c.status = "SECURE" /\ y.c.session = x.c.session
           /\ Turned(x, y, w, <<>>, <<>>, Opener, Bring(1, Opener))
<1> DEFINE e == "client"
           d == SSL_do_handshake(e, x.c)
           z == net_do_krypt([x EXCEPT !.c = d])
           c == [d EXCEPT !.status = "SECURE"]
           a == [z EXCEPT !.c = c]
           v == net_send_msg(a, Control(Opening))
<1>1. x \in Work /\ x.c \in Conn /\ x.c.out = <<>> /\ x.c.enc = <<>> /\ <<>> \in Seq(Record) /\ e \in End
  BY EmptySeq DEF Fit, Work, End
<1>2. d \in Conn /\ OnLine(d, w, <<>>) /\ Advanced(x.c, d, 4, <<>>)
  <2> DEFINE f == x.c
             B == <<>>
             j == 4
  <2>1. /\ f \in Conn /\ j \in 1 .. 9 /\ B \in Seq(Record) /\ OnLine(f, w, Lead(j, B))
        /\ Len(f.bio) >= 2 /\ f.out = <<>> /\ j \in {4, 9} /\ d = SSL_do_handshake(e, f)
    BY <1>1
  <2> HIDE DEF f, d, B, j, e
  <2>2. d \in Conn /\ OnLine(d, w, B) BY <1>1, <2>1, FlightRead
  <2>3. Advanced(f, d, j, <<>>) BY <1>1, <2>1, FlightRead
  <2>4. QED BY <2>2, <2>3 DEF f, B, j
<1>3. Handshake(e, x) =
        IF ~Finished(d) THEN z ELSE Peeked(e, on_secure(e, [z EXCEPT !.c.status = "SECURE"]))
  BY DEF Handshake
<1> HIDE DEF d
<1>4. /\ d.hs = 4 /\ d.out = <<>> /\ d.enc = <<>> /\ d.life = x.c.life /\ d.session = x.c.session
      /\ d.bio = <<>> /\ Len(d.bio) = 0
  <2> DEFINE b == d.bio
  <2>1. d = [x.c EXCEPT !.bio = b, !.hs = 4, !.out = <<>>] /\ x.c.enc = <<>>
    BY <1>1, <1>2 DEF Advanced
  <2> HIDE DEF b
  <2>2. d.hs = 4 /\ d.out = <<>> /\ d.enc = <<>> /\ d.life = x.c.life /\ d.session = x.c.session
    BY <2>1, <1>1 DEF Conn
  <2>3. QED BY <2>2, <1>2, NoLine
<1>5. z \in Work /\ z.c = [d EXCEPT !.out = <<>>] /\ z.sent = x.sent /\ z.got = x.got /\ z.tx = d.out
  BY <1>2, KryptFlight
<1> HIDE DEF z
<1>6. [z EXCEPT !.c.status = "SECURE"] = a
  <2>1. [d EXCEPT !.out = <<>>] = d BY <1>2, <1>4 DEF Conn
  <2>2. QED BY <2>1, <1>5
<1>7. /\ c \in Conn /\ c.bio = <<>> /\ c.hs = 4 /\ c.status = "SECURE" /\ c.out = <<>> /\ c.enc = <<>>
      /\ c.life = x.c.life /\ c.session = x.c.session
  BY <1>2, <1>4 DEF Conn
<1> HIDE DEF c
<1>8. /\ a \in Work /\ a.c = c /\ a.sent = x.sent /\ a.got = x.got /\ a.tx = x.tx
  <2>1. a \in Work /\ a.c = c /\ a.sent = z.sent /\ a.got = z.got /\ a.tx = z.tx
    BY <1>5, <1>7, SetConn
  <2>2. z.tx = x.tx BY <1>4, <1>5 DEF Fit
  <2>3. QED BY <2>1, <2>2, <1>5
<1> HIDE DEF a
<1>9. on_secure(e, a) = v
  <2>1. kind # "p2p" OBVIOUS
  <2>2. QED BY <2>1, SMT DEF on_secure
<1>10. /\ v \in Work /\ v.c = c /\ v.got = x.got
       /\ v.sent = x.sent \o Opener /\ v.tx = x.tx \o Bring(1, Opener)
  <2> DEFINE m == Control(Opening)
  <2>1. m \in Msg BY ControlMsg DEF Opening
  <2>2. Opener = <<m>> BY DEF Opener
  <2>3. /\ a \in Work /\ a.c.status = "SECURE" /\ a.c.hs = 4 /\ a.c.out = <<>> /\ a.c.enc = <<>>
        /\ v = net_send_msg(a, m)
    BY <1>7, <1>8
  <2> HIDE DEF m, v
  <2>4. /\ v \in Work /\ v.c = a.c /\ v.got = a.got
        /\ v.sent = a.sent \o <<m>> /\ v.tx = a.tx \o Bring(1, <<m>>)
    BY <2>1, <2>3, SendAnonymous
  <2>5. QED BY <2>2, <2>4, <1>8
<1> HIDE DEF v
<1>11. y = v
  <2>1. Finished(d) BY <1>4 DEF Finished
  <2>2. ~SSL_pending(v.c)
    <3>1. Len(c.bio) < 2 BY <1>4, <1>7
    <3>2. ~SSL_pending(c) BY <3>1, <1>7, ShortRead
    <3>3. QED BY <3>2, <1>10
  <2>3. Peeked(e, v) = v BY <2>2 DEF Peeked
  <2>4. QED BY <2>1, <2>3, <1>3, <1>6, <1>9 DEF Came
<1>12. Turned(x, v, w, <<>>, <<>>, Opener, Bring(1, Opener))
  <2>1. OnLine(v.c, w, <<>>) /\ Len(v.c.bio) <= 1 BY <1>2, <1>4, <1>7, <1>10 DEF OnLine
  <2>2. x.got \o <<>> = x.got BY <1>1, AddNothing
  <2>3. QED BY <2>1, <2>2, <1>7, <1>10 DEF Turned
<1>13. QED BY <1>7, <1>10, <1>11, <1>12

(* A message that is alone in its record is read when the record is whole.  *)
Standing(x, z, w) ==
  /\ Took(x, z, w, <<>>) /\ z \in Work
  /\ z.c.status = "SECURE" /\ z.c.hs = 4 /\ z.c.out = <<>> /\ z.c.enc = <<>>
  /\ z.c.session = x.c.session /\ z.c.life = x.c.life
  /\ z.tx = x.tx /\ z.sent = x.sent /\ z.got = x.got

LEMMA CameOne ==
    ASSUME NEW e \in End, NEW x, Fit(x), NEW w \in Seq(Record), NEW M, Lone(M),
           OnLine(x.c, w, Bring(1, M)), Len(x.c.bio) >= 2,
           x.c.status = "SECURE", x.c.hs = 4, x.c.session # "PURGE", NEW y, y = Came(e, x)
    PROVE  \E z : Standing(x, z, w) /\ y = dispatch(z, M[1])
<1>1. x \in Work /\ x.c \in Conn /\ x.c.out = <<>> /\ Finished(x.c) /\ 1 \in 0 .. 2
      /\ M \in Seq(Msg) /\ Len(M) = 1 /\ M # <<>> /\ Bring(1, M) \in Seq(Record)
  BY DEF Fit, Work, Finished, Lone
<1>2. PICK n \in 0 .. Len(M), z \in Work :
        /\ Took(x, z, w, Bring(1, SubSeq(M, n + 1, Len(M))))
        /\ Secure(e, x) = Handed(z, SubSeq(M, 1, n))
  BY <1>1, SecureReads
<1> DEFINE B == SubSeq(M, n + 1, Len(M))
<1>3. n = 0 \/ n = 1 BY <1>1
<1>4. n # 0
  <2> SUFFICES ASSUME n = 0 PROVE FALSE
    OBVIOUS
  <2>1. B = M /\ SubSeq(M, 1, n) = <<>>
    <3>1. n + 1 = 1 OBVIOUS
    <3>2. QED BY <3>1, <1>1, SubSeqFull, SubSeqEmpty
  <2>2. OnLine(z.c, w, Bring(1, M)) /\ Len(z.c.bio) <= 1 /\ z.c \in Conn
    BY <2>1, <1>2 DEF Took, Work
(* The stream behind the BIO is the same, and so is what is on it. *)
  <2> DEFINE b == x.c.bio
             f == z.c.bio
             q == Units(Bring(1, M))
  <2>3. b \in Seq(Record) /\ f \in Seq(Record) /\ Len(b) >= 2 /\ Len(f) <= 1
        /\ b \o w = q /\ f \o w = q
    BY <2>2, <1>1 DEF Conn, OnLine
  <2> HIDE DEF b, f, q
  <2>4. /\ Len(b \o w) = Len(b) + Len(w) /\ Len(f \o w) = Len(f) + Len(w)
        /\ Len(b) \in Nat /\ Len(f) \in Nat /\ Len(w) \in Nat
    BY <2>3, ConcatProperties, LenProperties
  <2>5. Len(b) + Len(w) = Len(f) + Len(w) BY <2>3, <2>4
  <2>6. QED BY <2>3, <2>4, <2>5
<1>5. B = <<>> /\ SubSeq(M, 1, n) = M
  <2>1. n = 1 /\ n + 1 = 2 BY <1>3, <1>4
  <2>2. SubSeq(M, 2, 1) = <<>> /\ SubSeq(M, 1, Len(M)) = M
    BY <1>1, SubSeqEmpty, SubSeqFull
  <2>3. QED BY <2>1, <2>2, <1>1
<1>6. Took(x, z, w, <<>>) /\ Secure(e, x) = on_input(z, M)
  <2>1. Bring(1, <<>>) = <<>> BY BringNone
  <2>2. QED BY <2>1, <1>1, <1>2, <1>5 DEF Handed
<1>7. Standing(x, z, w)
  <2>1. z.c = [x.c EXCEPT !.bio = z.c.bio] /\ z = [x EXCEPT !.c = z.c] /\ z.c \in Conn
    BY <1>6 DEF Took, Work
  <2>2. x.c.enc = <<>> BY DEF Fit
  <2>3. z.tx = x.tx /\ z.sent = x.sent /\ z.got = x.got BY <2>1, <1>1 DEF Work
  <2>4. /\ z.c.status = "SECURE" /\ z.c.hs = 4 /\ z.c.out = <<>> /\ z.c.enc = <<>>
        /\ z.c.session = x.c.session /\ z.c.life = x.c.life
    BY <2>1, <2>2, <1>1 DEF Conn
  <2>5. QED BY <2>3, <2>4, <1>6 DEF Standing
<1>8. y = dispatch(z, M[1])
  <2>1. y = Dispatched(z, M) BY <1>6, <1>7 DEF Came, on_input, Standing
  <2>2. PICK a : /\ Dispatched(z, M) = a[Len(M)]
                 /\ a[0] = z
                 /\ \A i \in 1 .. Len(M) : a[i] = dispatch(a[i - 1], M[i])
    BY <1>1, DispatchedSteps
  <2>3. 1 \in 1 .. Len(M) /\ 1 - 1 = 0 BY <1>1
  <2>4. a[1] = dispatch(z, M[1]) BY <2>2, <2>3
  <2>5. QED BY <2>1, <2>2, <2>4, <1>1
<1>9. QED BY <1>7, <1>8

(* The handlers begin by noting the message. *)
Noted(z, m) == [z EXCEPT !.got = Append(z.got, m)]

LEMMA NotedWork ==
    ASSUME NEW z \in Work, NEW m \in Msg
    PROVE  LET u == Noted(z, m)
           IN  u \in Work /\ u.c = z.c /\ u.tx = z.tx /\ u.sent = z.sent /\ u.got = z.got \o <<m>>
<1> DEFINE g == Append(z.got, m)
<1>1. g \in Seq(Msg) /\ g = z.got \o <<m>>
  <2> DEFINE o == z.got
  <2>1. o \in Seq(Msg) BY DEF Work
  <2> HIDE DEF o
  <2>2. Append(o, m) \in Seq(Msg) /\ Append(o, m) = o \o <<m>>
    BY <2>1, AppendProperties, AppendIsConcat
  <2>3. QED BY <2>2 DEF o
<1> HIDE DEF g
<1>2. [z EXCEPT !.got = g] \in Work /\ [z EXCEPT !.got = g].got = g BY <1>1 DEF Work
<1>3. /\ [z EXCEPT !.got = g].c = z.c /\ [z EXCEPT !.got = g].tx = z.tx
      /\ [z EXCEPT !.got = g].sent = z.sent
  BY DEF Work
<1>4. Noted(z, m) = [z EXCEPT !.got = g] BY DEF Noted, g
<1>5. QED BY <1>1, <1>2, <1>3, <1>4

(* The switch is asked for a passport, and has to ask its controller. *)
LEMMA CameAsks ==
    ASSUME NEW x, Fit(x), NEW w \in Seq(Record), OnLine(x.c, w, Bring(1, Ask)), Len(x.c.bio) >= 2,
           x.c.status = "SECURE", x.c.hs = 4, x.c.session # "PURGE",
           NEW y, y = Came("server", x)
    PROVE  /\ y.c.hs = 4 /\ y.c.status = "SECURE" /\ y.c.session = x.c.session
           /\ Turned(x, y, w, <<>>, Ask, <<>>, <<>>)
<1> DEFINE m == Control("provRequest")
<1>1. Lone(Ask) /\ Ask[1] = m /\ Ask = <<m>> /\ "server" \in End BY AuthIsSeq DEF Ask, End
<1>2. PICK z : Standing(x, z, w) /\ y = dispatch(z, m) BY <1>1, CameOne
<1>3. m \in Msg /\ m.op = "provRequest" /\ z \in Work BY <1>2, ControlMsg DEF Standing
<1> HIDE DEF m
<1>4. y = Noted(z, m) BY <1>2, <1>3, DispatchPlain DEF Noted
<1>5. y \in Work /\ y.c = z.c /\ y.tx = z.tx /\ y.sent = z.sent /\ y.got = z.got \o Ask
  BY <1>1, <1>3, <1>4, NotedWork
<1>6. x.sent \o <<>> = x.sent /\ x.tx \o <<>> = x.tx BY AddNothing DEF Fit, Work
<1>7. OnLine(y.c, w, <<>>) /\ Len(y.c.bio) <= 1 BY <1>2, <1>5 DEF Standing, Took
<1>8. QED BY <1>2, <1>5, <1>6, <1>7 DEF Turned, Standing

(* The agent has its passport, and asks to be authenticated. *)
LEMMA CameGranted ==
    ASSUME NEW x, Fit(x), NEW w \in Seq(Record), OnLine(x.c, w, Bring(1, Grant)), Len(x.c.bio) >= 2,
           x.c.status = "SECURE", x.c.hs = 4, x.c.session # "PURGE",
           NEW y, y = Came("client", x)
    PROVE  /\ y.c.hs = 4 /\ y.c.status = "SECURE" /\ y.c.session = x.c.session
           /\ Turned(x, y, w, <<>>, Grant, Auth, Bring(1, Auth))
<1> DEFINE m == Control("provResponse")
           a == Control("auth")
<1>1. Lone(Grant) /\ Grant[1] = m /\ Grant = <<m>> /\ "client" \in End /\ Auth = <<a>>
  BY AuthIsSeq DEF Grant, Auth, End
<1>2. PICK z : Standing(x, z, w) /\ y = dispatch(z, m) BY <1>1, CameOne
<1>3. m \in Msg /\ m.op = "provResponse" /\ z \in Work /\ a \in Msg
  BY <1>2, ControlMsg DEF Standing
<1> HIDE DEF m, a
<1>4. y = net_send_msg(Noted(z, m), a) BY <1>2, <1>3 DEF dispatch, Noted, a
<1>5. PICK u : u = Noted(z, m) OBVIOUS
<1>6. u \in Work /\ u.c = z.c /\ u.tx = z.tx /\ u.sent = z.sent /\ u.got = z.got \o Grant
  BY <1>1, <1>3, <1>5, NotedWork
<1>7. /\ u.c.status = "SECURE" /\ u.c.hs = 4 /\ u.c.out = <<>> /\ u.c.enc = <<>>
      /\ y = net_send_msg(u, a)
  BY <1>2, <1>4, <1>5, <1>6 DEF Standing
<1>8. /\ y \in Work /\ y.c = u.c /\ y.got = u.got
      /\ y.sent = u.sent \o <<a>> /\ y.tx = u.tx \o Bring(1, <<a>>)
  BY <1>3, <1>6, <1>7, SendAnonymous
<1>9. OnLine(y.c, w, <<>>) /\ Len(y.c.bio) <= 1 BY <1>2, <1>6, <1>8 DEF Standing, Took
<1>10. QED BY <1>1, <1>2, <1>6, <1>8, <1>9 DEF Turned, Standing

(* The switch is asked, and asks for the second handshake. *)
LEMMA CameAsked ==
    ASSUME NEW x, Fit(x), NEW w \in Seq(Record), OnLine(x.c, w, Bring(1, Auth)), Len(x.c.bio) >= 2,
           x.c.status = "SECURE", x.c.hs = 4, x.c.session = "NOT_AUTHED",
           NEW y, y = Came("server", x)
    PROVE  /\ y.c.hs = 5 /\ y.c.status = "HANDSHAKE" /\ y.c.session = "WAIT_STEPUP"
           /\ Turned(x, y, w, <<>>, Auth, StepUp, Bring(1, StepUp) \o <<Flight(5)>>)
<1> DEFINE m == Control("auth")
<1>1. x \in Work /\ "server" \in End /\ Lone(Auth) /\ Auth[1] = m /\ x.c.session # "PURGE"
  BY AuthIsSeq DEF Fit, End
<1>2. PICK z : Standing(x, z, w) /\ y = dispatch(z, m) BY <1>1, CameOne
<1>6. Took(x, z, w, <<>>) /\ z \in Work BY <1>2 DEF Standing
<1>7. /\ z.c \in Conn /\ z.c.status = "SECURE" /\ z.c.hs = 4 /\ z.c.out = <<>> /\ z.c.enc = <<>>
      /\ z.c.session = "NOT_AUTHED" /\ z.c.life = x.c.life
      /\ z.tx = x.tx /\ z.sent = x.sent /\ z.got = x.got
  BY <1>2 DEF Standing, Work
<1>8. y = dispatch(z, m) BY <1>2
<1> DEFINE g == Append(z.got, m)
           u == [z EXCEPT !.got = g]
           l == Control("secureStepUp")
           s == net_send_msg(u, l)
<1>9. m \in Msg /\ m.op = "auth" /\ l \in Msg BY ControlMsg
<1>10. y = net_step_up([s EXCEPT !.c.session = "WAIT_STEPUP"])
  BY <1>8, <1>9 DEF dispatch, authRequest
<1>11. g = x.got \o Auth
  <2>1. Append(z.got, m) = z.got \o <<m>> BY <1>6, <1>9, NotedWork DEF Noted, Work
  <2>2. QED BY <2>1, <1>7 DEF Auth
<1>12. u \in Work /\ u.c = z.c /\ u.tx = x.tx /\ u.sent = x.sent /\ u.got = g
  <2>1. u = Noted(z, m) BY DEF Noted
  <2>2. u \in Work /\ u.c = z.c /\ u.tx = z.tx /\ u.sent = z.sent /\ u.got = z.got \o <<m>>
    BY <2>1, <1>6, <1>9, NotedWork
  <2>3. QED BY <2>2, <1>7, <1>11 DEF Auth
<1> HIDE DEF g, u
<1>13. /\ s \in Work /\ s.c = z.c /\ s.got = g
       /\ s.sent = x.sent \o StepUp /\ s.tx = x.tx \o Bring(1, StepUp)
  <2>1. StepUp = <<l>> BY DEF StepUp
  <2>2. /\ u \in Work /\ u.c.status = "SECURE" /\ u.c.hs = 4 /\ u.c.out = <<>> /\ u.c.enc = <<>>
        /\ l \in Msg /\ s = net_send_msg(u, l)
    BY <1>7, <1>9, <1>12
  <2> HIDE DEF l, s
  <2>3. /\ s \in Work /\ s.c = u.c /\ s.got = u.got
        /\ s.sent = u.sent \o <<l>> /\ s.tx = u.tx \o Bring(1, <<l>>)
    BY <2>2, SendAnonymous
  <2>4. QED BY <2>1, <2>3, <1>12
<1> HIDE DEF s, m, l
<1> DEFINE F == <<Flight(5)>>
           b == Bring(1, StepUp)
           c == [s.c EXCEPT !.session = "WAIT_STEPUP", !.hs = 5, !.status = "HANDSHAKE"]
<1>14. F \in Seq(Record) /\ Flight(5) \in Record /\ b \in Seq(Record) /\ x.tx \in Seq(Record)
       /\ s.tx \in Seq(Record)
  BY <1>1, <1>13, FlightRecord, AuthIsSeq DEF Work, Lone
<1>15. Append(s.tx, Flight(5)) = x.tx \o (b \o F)
  <2> DEFINE t == x.tx
             r == s.tx
             f == Flight(5)
  <2>1. t \in Seq(Record) /\ b \in Seq(Record) /\ f \in Record /\ <<f>> \in Seq(Record)
        /\ r \in Seq(Record) /\ r = t \o b
    BY <1>13, <1>14
  <2> HIDE DEF t, b, f, r
  <2>2. Append(r, f) = r \o <<f>> BY <2>1, AppendIsConcat
  <2>3. (t \o b) \o <<f>> = t \o (b \o <<f>>) BY <2>1, ConcatAssociative
  <2>4. QED BY <2>1, <2>2, <2>3 DEF t, r, f
<1> HIDE DEF F, b
<1>16. y.c = c /\ y.sent = s.sent /\ y.got = s.got /\ y.tx = x.tx \o (b \o F) /\ y \in Work
  <2> DEFINE t == Append(s.tx, Flight(5))
  <2>1. y = [s EXCEPT !.c = c, !.tx = t]
    <3>1. y = [s EXCEPT !.c.session = "WAIT_STEPUP", !.c.hs = 5, !.tx = t, !.c.status = "HANDSHAKE"]
      BY <1>10, <1>13 DEF net_step_up, Work, Conn
    <3> HIDE DEF t
    <3>2. QED BY <3>1, <1>13 DEF Work, Conn
  <2>2. y \in Work BY <1>10, <1>13, StepUpWork
  <2> HIDE DEF t, c
  <2>3. y.c = c /\ y.sent = s.sent /\ y.got = s.got /\ y.tx = t BY <2>1, <1>13 DEF Work
  <2>4. QED BY <2>2, <2>3, <1>15 DEF t
<1>17. /\ c.hs = 5 /\ c.status = "HANDSHAKE" /\ c.session = "WAIT_STEPUP" /\ c.bio = z.c.bio
       /\ c.out = <<>> /\ c.enc = <<>> /\ c.life = x.c.life
  BY <1>7, <1>13 DEF Conn
<1> HIDE DEF c
<1>18. OnLine(y.c, w, <<>>) /\ Len(y.c.bio) <= 1 BY <1>6, <1>16, <1>17 DEF Took, OnLine
<1>19. Turned(x, y, w, <<>>, Auth, StepUp, b \o F)
  BY <1>11, <1>13, <1>16, <1>17, <1>18 DEF Turned
<1>20. QED BY <1>16, <1>17, <1>19 DEF b, F

(* The agent is told to step up; the flight that begins the second handshake may *)
(* be there too, and is then answered. *)
LEMMA StepUpHanded ==
    ASSUME NEW z \in Work, z.c.session # "PURGE", NEW y, y = on_input(z, StepUp)
    PROVE  y \in Work /\ y.c = z.c /\ y.tx = z.tx /\ y.sent = z.sent /\ y.got = z.got \o StepUp
<1> DEFINE m == Control("secureStepUp")
           g == Append(z.got, m)
<1>1. y = Dispatched(z, StepUp) /\ StepUp \in Seq(Msg) BY AuthIsSeq DEF on_input, Lone
<1>2. PICK a : /\ Dispatched(z, StepUp) = a[Len(StepUp)]
               /\ a[0] = z
               /\ \A i \in 1 .. Len(StepUp) : a[i] = dispatch(a[i - 1], StepUp[i])
  BY <1>1, DispatchedSteps
<1>3. y = dispatch(z, m)
  <2>1. 1 \in 1 .. Len(StepUp) /\ 1 - 1 = 0 /\ StepUp[1] = m /\ Len(StepUp) = 1
    BY AuthIsSeq DEF Lone
  <2>2. a[1] = dispatch(z, m) BY <1>2, <2>1
  <2>3. QED BY <1>1, <1>2, <2>1, <2>2
<1>4. m \in Msg /\ m.op = "secureStepUp" BY ControlMsg
<1>5. y = [z EXCEPT !.got = g]
  <2> HIDE DEF m
  <2>1. QED BY <1>3, <1>4, DispatchPlain
<1>6. g \in Seq(Msg) /\ g = z.got \o <<m>>
  <2> DEFINE o == z.got
  <2>1. o \in Seq(Msg) /\ m \in Msg BY <1>4 DEF Work
  <2> HIDE DEF o, m
  <2>2. Append(o, m) \in Seq(Msg) /\ Append(o, m) = o \o <<m>>
    BY <2>1, AppendProperties, AppendIsConcat
  <2>3. QED BY <2>2 DEF o
<1>7. StepUp = <<m>> BY DEF StepUp
<1> HIDE DEF g, m
<1>8. y \in Work /\ y.c = z.c /\ y.tx = z.tx /\ y.sent = z.sent /\ y.got = g
  BY <1>5, <1>6 DEF Work
<1>9. QED BY <1>6, <1>7, <1>8

LEMMA CameSteps ==
    ASSUME NEW x, Fit(x), NEW w \in Seq(Record),
           OnLine(x.c, w, Bring(1, StepUp) \o <<Flight(5)>>), Len(x.c.bio) >= 2,
           x.c.status = "SECURE", x.c.hs = 4, x.c.session = "NOT_AUTHED",
           NEW y, y = Came("client", x)
    PROVE  /\ y.c.session = "NOT_AUTHED" /\ y.c.status = "SECURE"
           /\ \/ y.c.hs = 4 /\ Turned(x, y, w, Lead(5, <<>>), StepUp, <<>>, <<>>)
              \/ y.c.hs = 6 /\ Turned(x, y, w, <<>>, StepUp, <<>>, Lead(6, <<>>))
<1> DEFINE e == "client"
           c == x.c
           b == ReadRecords(c, 1)
           d == SSL_read_ahead(e, b)
           z == net_do_krypt([x EXCEPT !.c = d])
<1>1. /\ x \in Work /\ c \in Conn /\ c.out = <<>> /\ c.enc = <<>> /\ c.status = "SECURE"
      /\ c.hs = 4 /\ c.session = "NOT_AUTHED" /\ Finished(c) /\ e \in End
      /\ Len(c.bio) \in Nat /\ Len(c.bio) >= 2
  BY LenProperties DEF Fit, Work, Conn, Finished, End
<1>2. /\ ~HasFlight(c) /\ Ready(c) = 1
      /\ FlattenSeq([i \in 1 .. 1 |-> Records(c)[i].msgs]) = StepUp
      /\ Reads(c, 1, w, Lead(5, <<>>))
  <2> DEFINE T == <<Flight(5)>>
             R == StepUp
             n == Whole(c, R)
  <2>1. /\ c \in Conn /\ R \in Seq(Msg) /\ R # <<>> /\ Len(R) = 1 /\ T \in Tails
        /\ OnLine(c, w, Bring(1, R) \o T) /\ 1 \in 0 .. 2 /\ T \in Seq(Record)
    BY <1>1, AuthIsSeq, FlightRecord DEF Tails, Lone
  <2>2. n = 1
    <3>1. Len(c.bio) \div 2 >= 1 /\ Len(c.bio) \div 2 \in Nat BY <1>1, Halves
    <3> DEFINE l == Len(c.bio) \div 2
               r == Len(R)
    <3>2. l >= 1 /\ l \in Nat /\ r = 1 BY <2>1, <3>1
    <3>3. n = IF l <= r THEN l ELSE r BY DEF Whole
    <3> HIDE DEF l, r, n
    <3>4. QED BY <3>2, <3>3
  <2>3. SubSeq(R, 1 + 1, Len(R)) = <<>> /\ SubSeq(R, 1, 1) = R
    <3>1. 1 + 1 = 2 OBVIOUS
    <3>2. SubSeq(R, 2, 1) = <<>> /\ SubSeq(R, 1, Len(R)) = R
      BY <2>1, SubSeqEmpty, SubSeqFull
    <3>3. QED BY <2>1, <3>1, <3>2
  <2>4. <<>> \o T = Lead(5, <<>>)
    <3>1. Lead(5, <<>>) = T BY LeadNothing
    <3> HIDE DEF T
    <3>2. <<>> \o T = T BY <2>1, NoTx
    <3>3. QED BY <3>1, <3>2
  <2> HIDE DEF T, R, c, n
  <2>5. /\ Ready(c) = n /\ ~HasFlight(c)
        /\ FlattenSeq([i \in 1 .. n |-> Records(c)[i].msgs]) = SubSeq(R, 1, n)
        /\ Reads(c, n, w, Bring(1, SubSeq(R, n + 1, Len(R))) \o T)
    <3> DEFINE k == 1
    <3>1. n = Whole(c, R) /\ k \in 0 .. 2 /\ OnLine(c, w, Bring(k, R) \o T) BY <2>1 DEF n
    <3> HIDE DEF k
    <3>2. /\ Ready(c) = n
          /\ FlattenSeq([i \in 1 .. n |-> Records(c)[i].msgs]) = SubSeq(R, 1, n)
          /\ R # <<>> => ~HasFlight(c)
      BY <2>1, <3>1, MessagesFirst, SMTT(40)
    <3>3. Reads(c, n, w, Bring(k, SubSeq(R, n + 1, Len(R))) \o T)
      BY <2>1, <3>1, MessagesFirst
    <3>4. QED BY <2>1, <3>2, <3>3 DEF k
  <2>6. QED BY <2>2, <2>3, <2>4, <2>5, BringNone DEF R
<1>3. /\ b \in Conn /\ b = [c EXCEPT !.bio = b.bio] /\ OnLine(b, w, Lead(5, <<>>))
      /\ Len(b.bio) = Len(c.bio) - 2 /\ Len(b.bio) \in Nat
  <2> DEFINE Q == Lead(5, <<>>)
  <2>1. Reads(c, 1, w, Q) /\ 2 * 1 = 2 BY <1>2
  <2> HIDE DEF Q, c, b
  <2>2. b = ReadRecords(c, 1) /\ c \in Conn BY <1>1 DEF b
  <2>3. /\ b \in Conn /\ b = [c EXCEPT !.bio = b.bio] /\ OnLine(b, w, Q)
        /\ Len(b.bio) = Len(c.bio) - 2 * 1
    BY <2>1, <2>2, ReadsConn
  <2>4. Len(b.bio) \in Nat BY <2>3, LenProperties DEF Conn
  <2>5. QED BY <2>1, <2>3, <2>4 DEF Q
<1>4. SSL_pending(c)
  <2>1. Records(c) # <<>>
    <3> DEFINE h == [i \in 1 .. 1 |-> Records(c)[i].msgs]
               Q == Bring(1, StepUp) \o <<Flight(5)>>
    <3>1. Q \in Seq(Record) /\ c.bio \o w = Units(Q)
      <4> DEFINE p == Bring(1, StepUp)
                 f == <<Flight(5)>>
      <4>1. p \in Seq(Record) /\ f \in Seq(Record) BY AuthIsSeq, FlightRecord DEF Lone
      <4> HIDE DEF p, f
      <4>2. p \o f \in Seq(Record) BY <4>1, ConcatProperties
      <4>3. QED BY <4>2 DEF p, f, OnLine
    <3> HIDE DEF Q, c
    <3>2. Len(Records(c)) = Len(c.bio) \div 2 BY <3>1, <1>1, RecordsAre
    <3>3. Len(c.bio) \div 2 >= 1 BY <1>1, Halves
    <3> DEFINE l == Len(Records(c))
    <3>4. l >= 1 BY <3>2, <3>3
    <3> HIDE DEF l
    <3>5. l # 0 BY <3>4
    <3>6. QED BY <3>5 DEF l
  <2>2. QED BY <2>1, <1>1 DEF SSL_pending
<1>5. LeftBy(e, x, c, 1) = z BY DEF LeftBy
<1>6. y = on_input(z, StepUp)
  <2>1. c = SSL_read_ahead(e, x.c) BY <1>2 DEF SSL_read_ahead
  <2>2. StepUp # <<>> BY AuthIsSeq DEF Lone
  <2>3. y = Secure(e, x) BY <1>1 DEF Came
  <2> HIDE DEF c, z
  <2>4. Secure(e, x) = IF StepUp = <<>> THEN LeftBy(e, x, c, 1) ELSE on_input(LeftBy(e, x, c, 1), StepUp)
    <3> DEFINE n == 1
               A == StepUp
    <3>1. n = Ready(c) /\ FlattenSeq([i \in 1 .. n |-> Records(c)[i].msgs]) = A BY <1>2
    <3> HIDE DEF n, A
    <3>2. Secure(e, x) = IF A = <<>> THEN LeftBy(e, x, c, n) ELSE on_input(LeftBy(e, x, c, n), A)
      BY <2>1, <3>1, <1>4, SecureWith
    <3>3. QED BY <3>2 DEF n, A
  <2>5. QED BY <2>2, <2>3, <2>4, <1>5
<1> HIDE DEF b
<1>7. d \in Conn BY <1>1, <1>3, ReadConn
<1>8. /\ b.hs = 4 /\ b.out = <<>> /\ b.enc = <<>> /\ b.status = "SECURE"
      /\ b.session = "NOT_AUTHED" /\ b.life = x.c.life
  <2> DEFINE o == b.bio
  <2>1. b = [c EXCEPT !.bio = o] BY <1>3
  <2> HIDE DEF o
  <2>2. QED BY <2>1, <1>1 DEF Conn
<1> DEFINE Same(f, h, o, Q) ==
             /\ f.hs = h /\ f.out = o /\ f.enc = <<>> /\ f.status = "SECURE"
             /\ f.session = "NOT_AUTHED" /\ f.life = x.c.life
             /\ OnLine(f, w, Q) /\ Len(f.bio) <= 1
<1>9. ASSUME NEW h, NEW Q, NEW o, Same(d, h, o, Q)
      PROVE  /\ y.c.hs = h /\ y.c.session = "NOT_AUTHED" /\ y.c.status = "SECURE"
             /\ Turned(x, y, w, Q, StepUp, <<>>, o)
  <2>1. z \in Work /\ z.c = [d EXCEPT !.out = <<>>] /\ z.sent = x.sent /\ z.got = x.got /\ z.tx = d.out
    <3> HIDE DEF d, z
    <3>1. z = net_do_krypt([x EXCEPT !.c = d]) BY DEF z
    <3>2. QED BY <3>1, <1>7, KryptFlight
  <2> HIDE DEF z, d
  <2>2. /\ z.c.hs = h /\ z.c.out = <<>> /\ z.c.enc = <<>> /\ z.c.status = "SECURE"
        /\ z.c.session = "NOT_AUTHED" /\ z.c.life = x.c.life /\ z.c.bio = d.bio
    BY <2>1, <1>7, <1>9 DEF Conn
  <2>3. OnLine(z.c, w, Q) /\ Len(z.c.bio) <= 1 BY <2>2, <1>9 DEF OnLine
  <2>4. y \in Work /\ y.c = z.c /\ y.tx = z.tx /\ y.sent = z.sent /\ y.got = z.got \o StepUp
    BY <2>1, <2>2, <1>6, StepUpHanded
  <2>5. x.sent \o <<>> = x.sent BY <1>1, AddNothing
  <2>6. x.tx \o o = o
    <3>1. o \in Seq(Record) BY <1>7, <1>9 DEF Conn
    <3>2. x.tx = <<>> BY DEF Fit
    <3>3. QED BY <3>1, <3>2, NoTx
  <2>7. QED BY <2>1, <2>2, <2>3, <2>4, <2>5, <2>6, <1>9 DEF Turned
<1>10. CASE Len(b.bio) < 2
  <2>1. d = b BY <1>3, <1>10, ShortRead
  <2>2. Len(b.bio) <= 1 BY <1>3, <1>10
  <2>3. Same(d, 4, <<>>, Lead(5, <<>>)) BY <2>1, <2>2, <1>3, <1>8
  <2> HIDE DEF Same
  <2>4. QED BY <2>3, <1>9
<1>11. CASE ~(Len(b.bio) < 2)
  <2> DEFINE g == SSL_do_handshake(e, b)
             j == 5
             B == <<>>
  <2>1. /\ b \in Conn /\ OnLine(b, w, Lead(j, B)) /\ Len(b.bio) >= 2 /\ b.out = <<>>
        /\ j \in 1 .. 9 /\ j \notin {4, 9} /\ Speaker(j + 1) = e /\ B \in Seq(Record)
        /\ j + 1 = 6
    BY <1>3, <1>8, <1>11, EmptySeq DEF Speaker
  <2> HIDE DEF g, j, B
  <2>2. g = SSL_read_ahead(e, b) /\ g \in Conn /\ OnLine(g, w, B)
    <3>1. g = SSL_do_handshake(e, b) /\ e \in End BY <1>1 DEF g
    <3> HIDE DEF e
    <3>2. QED BY <2>1, <3>1, FlightRead
  <2>3. Advanced(b, g, j + 1, <<Flight(j + 1)>>)
    <3>1. g = SSL_do_handshake(e, b) /\ e \in End BY <1>1 DEF g
    <3> HIDE DEF e
    <3>2. QED BY <2>1, <3>1, FlightRead
  <2>4. g = d BY <2>2
  <2> HIDE DEF d
  <2>5. d.bio = <<>> /\ Len(d.bio) <= 1 /\ OnLine(d, w, <<>>)
    <3>1. OnLine(d, w, <<>>) BY <2>2, <2>4 DEF B
    <3>2. d.bio = <<>> /\ Len(d.bio) = 0 BY <3>1, <1>7, NoLine
    <3>3. QED BY <3>1, <3>2
  <2>6. Same(d, 6, <<Flight(6)>>, <<>>)
    <3> DEFINE o == <<Flight(6)>>
               f == d.bio
    <3>1. d = [b EXCEPT !.bio = f, !.hs = 6, !.out = o] BY <2>1, <2>3, <2>4 DEF Advanced
    <3> HIDE DEF o, f
    <3>2. /\ d.hs = 6 /\ d.out = o /\ d.enc = <<>> /\ d.status = "SECURE"
          /\ d.session = "NOT_AUTHED" /\ d.life = x.c.life
      BY <3>1, <1>3, <1>8 DEF Conn
    <3>3. QED BY <3>2, <2>5 DEF o
  <2>7. Lead(6, <<>>) = <<Flight(6)>> BY LeadNothing
  <2> HIDE DEF Same
  <2>8. QED BY <2>6, <2>7, <1>9
<1>12. QED BY <1>10, <1>11

-----------------------------------------------------------------------------
(* The two ends, and what is on its way to each of them.                   *)

Side == [c : Conn, w : Seq(Record), sent : Seq(Msg), got : Seq(Msg)]
View == [e \in End |-> [c |-> netc[e], w |-> wire[e], sent |-> sent[e], got |-> got[e]]]

(* What waits for an end: the records Q, which bring the messages R. *)
Awaits(v, e, Q, R) ==
  OnLine(v[e].c, v[e].w, Q) /\ v[Other(e)].sent = v[e].got \o R

(* No session was authenticated under the anonymous keys. *)
Silent(k, v) ==
  /\ v["client"].c.session = "NOT_AUTHED"
  /\ k <= 4 => v["server"].c.session = "NOT_AUTHED"
  /\ v["server"].c.session # "AUTHED"

(* Flight k is on its way, and only the last one is followed by messages. *)
Shaking(kd, k, v) ==
  /\ v[Speaker(k)].c.hs = k /\ v[Other(Speaker(k))].c.hs = k - 1
  /\ v["client"].c.session = "NOT_AUTHED"
  /\ Awaits(v, Speaker(k), <<>>, <<>>)
  /\ k < LastFlight(kd) => Silent(k, v)
  /\ \E R \in Talk :
       /\ Awaits(v, Other(Speaker(k)), Lead(k, Bring(LastKeys(kd), R)), R)
       /\ k < LastFlight(kd) => R = <<>>

(* The first handshake is over, and e is about to be given M. *)
Alone(v, e, M) ==
  /\ Silent(4, v) /\ v["client"].c.hs = 4 /\ v["server"].c.hs = 4
  /\ Awaits(v, Other(e), <<>>, <<>>)
  /\ Awaits(v, e, Bring(1, M), M)

(* The agent asks for a passport, the controller is asked for it, the agent *)
(* has it; the agent asks to be authenticated.                              *)
Asking(kd, v) == kd = "prov" /\ Alone(v, "server", Ask)
Waits(kd, v) == kd = "prov" /\ Alone(v, "server", <<>>)
Granted(kd, v) == kd = "prov" /\ Alone(v, "client", Grant)
Called(kd, v) == kd # "p2p" /\ Alone(v, "server", Auth)
Exchange(kd, v) == Asking(kd, v) \/ Waits(kd, v) \/ Granted(kd, v) \/ Called(kd, v)

(* The switch told it to step up. *)
Answered(kd, v) ==
  /\ kd # "p2p" /\ Silent(5, v)
  /\ v["client"].c.hs = 4 /\ v["server"].c.hs = 5
  /\ Awaits(v, "server", <<>>, <<>>)
  /\ Awaits(v, "client", Bring(1, StepUp) \o <<Flight(5)>>, StepUp)

(* Messages are under way in both directions, under the last keys. *)
Talks(kd, v, e) ==
  /\ v[e].c.hs = LastFlight(kd)
  /\ \E R \in Talk : Awaits(v, e, Bring(LastKeys(kd), R), R)
Talking(kd, v) == \A e \in End : Talks(kd, v, e)

Phase(kd, v) ==
  \/ \E k \in 1 .. LastFlight(kd) : Shaking(kd, k, v)
  \/ Exchange(kd, v) \/ Answered(kd, v) \/ Talking(kd, v)

(* Between two calls the buffers hold one unit at most, and the status says *)
(* which handshakes are over: the agent is not told of the second one.      *)
Secured(e, h) == IF e = "client" THEN h >= 4 ELSE h \in {4, 9}
Quiet(e, c) ==
  /\ c.out = <<>> /\ c.enc = <<>> /\ Len(c.bio) <= 1
  /\ c.status = (IF Secured(e, c.hs) THEN "SECURE" ELSE "HANDSHAKE")

LEMMA Ends ==
    /\ Other("client") = "server" /\ Other("server") = "client"
    /\ \A e \in End : /\ Other(e) \in End /\ Other(e) # e /\ Other(Other(e)) = e
                      /\ \A f \in End : f = e \/ f = Other(e)
    /\ \A k : Speaker(k) \in End
<1>1. "client" \in End /\ "server" \in End /\ "client" # "server" /\ End = {"client", "server"}
  BY DEF End
<1>2. Other("client") \in End /\ Other("client") # "client" BY <1>1 DEF Other
<1>3. Other("server") \in End /\ Other("server") # "server" BY <1>1 DEF Other
<1>4. Other("client") = "server" /\ Other("server") = "client" BY <1>1, <1>2, <1>3
<1>5. \A k : Speaker(k) \in End BY <1>1 DEF Speaker
<1>6. QED BY <1>1, <1>4, <1>5

(* A call for an end: y is what became of it, the rest of what waited for it *)
(* is still on its way, and what it sent travels to the other end.          *)
Moves(e, v, y, rest, v2) ==
  /\ v2[e].c = y.c /\ v2[e].w = rest /\ v2[e].sent = y.sent /\ v2[e].got = y.got
  /\ v2[Other(e)].c = v[Other(e)].c /\ v2[Other(e)].w = v[Other(e)].w \o Units(y.tx)
  /\ v2[Other(e)].sent = v[Other(e)].sent /\ v2[Other(e)].got = v[Other(e)].got

(* What a call works on: more of the line is in the BIO. *)
Fed(e, v, x, rest) ==
  /\ Fit(x) /\ rest \in Seq(Record)
  /\ x.sent = v[e].sent /\ x.got = v[e].got
  /\ x.c.hs = v[e].c.hs /\ x.c.status = v[e].c.status /\ x.c.session = v[e].c.session
  /\ x.c.life = v[e].c.life
  /\ \A Q : OnLine(v[e].c, v[e].w, Q) => OnLine(x.c, rest, Q)

LEMMA LineGrows ==
    ASSUME NEW c \in Conn, NEW w \in Seq(Record), NEW Q \in Seq(Record), NEW t \in Seq(Record),
           OnLine(c, w, Q)
    PROVE  OnLine(c, w \o Units(t), Q \o t)
<1> DEFINE b == c.bio
           u == Units(t)
           q == Units(Q)
<1>1. b \in Seq(Record) /\ u \in Seq(Record) /\ b \o w = q BY UnitsSeq DEF Conn, OnLine
<1>2. Units(Q \o t) = q \o u BY UnitsJoin
<1>3. (b \o w) \o u = b \o (w \o u)
  <2>1. b \in Seq(Record) /\ w \in Seq(Record) /\ u \in Seq(Record) BY <1>1
  <2> HIDE DEF b, u
  <2>2. QED BY <2>1, ConcatAssociative
<1>4. QED BY <1>1, <1>2, <1>3 DEF OnLine

LEMMA WordsJoin ==
    ASSUME NEW a \in Seq(Msg), NEW b \in Seq(Msg), NEW c \in Seq(Msg)
    PROVE  (a \o b) \o c = a \o (b \o c)
BY ConcatAssociative

(* An end that turned to a new line: what it read is read, what it sent is on *)
(* its way.                                                                   *)
LEMMA TurnedMoves ==
    ASSUME NEW e \in End, NEW v \in [End -> Side], NEW x, NEW rest, Fed(e, v, x, rest),
           NEW y, NEW v2, Moves(e, v, y, rest, v2),
           NEW Q, NEW A \in Seq(Msg), NEW B \in Seq(Msg), NEW S \in Seq(Msg), NEW t \in Seq(Record),
           Turned(x, y, rest, Q, A, S, t),
           NEW P, NEW R, Awaits(v, e, P, R), R = A \o B,
           NEW o, o = Other(e), NEW Qo \in Seq(Record), NEW Ro \in Seq(Msg), Awaits(v, o, Qo, Ro)
    PROVE  Awaits(v2, e, Q, B) /\ Awaits(v2, o, Qo \o t, Ro \o S)
<1>1. o \in End /\ Other(o) = e /\ v[e] \in Side /\ v[o] \in Side BY Ends
<1>2. /\ y.got = v[e].got \o A /\ y.sent = v[e].sent \o S
      /\ OnLine(y.c, rest, Q)
  BY DEF Turned, Fed
<1>3. y.tx = t
  <2>1. x.tx = <<>> /\ y.tx = x.tx \o t BY DEF Fed, Fit, Turned
  <2>2. QED BY <2>1, NoTx
<1>4. Awaits(v2, e, Q, B)
  <2> DEFINE g == v[e].got
  <2>1. g \in Seq(Msg) /\ A \in Seq(Msg) /\ B \in Seq(Msg) BY <1>1 DEF Side
  <2>2. v2[o].sent = g \o (A \o B) BY DEF Moves, Awaits
  <2>3. v2[e].got = g \o A BY <1>2 DEF Moves
  <2> HIDE DEF g
  <2>4. (g \o A) \o B = g \o (A \o B) BY <2>1, WordsJoin, SMTT(40)
  <2>5. OnLine(v2[e].c, v2[e].w, Q) BY <1>2 DEF Moves
  <2>6. QED BY <2>2, <2>3, <2>4, <2>5 DEF Awaits
<1>5. Awaits(v2, o, Qo \o t, Ro \o S)
  <2> DEFINE g == v[o].got
             s == v[e].sent
  <2>1. g \in Seq(Msg) /\ Ro \in Seq(Msg) /\ S \in Seq(Msg) /\ v[o].c \in Conn /\ v[o].w \in Seq(Record)
    BY <1>1 DEF Side
  <2>2. v2[o].w = v[o].w \o Units(t) /\ v2[o].c = v[o].c /\ v2[o].got = g
    BY <1>3 DEF Moves
  <2>3. OnLine(v[o].c, v[o].w, Qo) /\ s = g \o Ro BY <1>1 DEF Awaits
  <2>4. OnLine(v2[o].c, v2[o].w, Qo \o t) BY <2>1, <2>2, <2>3, LineGrows
  <2>5. v2[e].sent = s \o S BY <1>2 DEF Moves
  <2> HIDE DEF g
  <2>6. (g \o Ro) \o S = g \o (Ro \o S) BY <2>1, WordsJoin, SMTT(40)
  <2>7. QED BY <1>1, <2>2, <2>3, <2>4, <2>5, <2>6 DEF Awaits
<1>6. QED BY <1>4, <1>5

(* The phase depends on the flights, the sessions and the lines only.  A     *)
(* session that was told to step up may be purged in every phase.           *)
Alike(v, v2) ==
  /\ \A e \in End : /\ v2[e].c.hs = v[e].c.hs /\ v2[e].sent = v[e].sent /\ v2[e].got = v[e].got
                    /\ \A Q : OnLine(v[e].c, v[e].w, Q) => OnLine(v2[e].c, v2[e].w, Q)
  /\ v2["client"].c.session = v["client"].c.session
  /\ \/ v2["server"].c.session = v["server"].c.session
     \/ v["server"].c.session # "NOT_AUTHED" /\ v2["server"].c.session = "PURGE"

LEMMA PhaseAlike ==
    ASSUME NEW kd, NEW v, NEW v2, Alike(v, v2)
    PROVE  /\ Phase(kd, v) => Phase(kd, v2)
           /\ \A k : Shaking(kd, k, v) => Shaking(kd, k, v2)
           /\ Waits(kd, v) => Waits(kd, v2)
<1>1. ASSUME NEW e \in End, NEW Q, NEW R, Awaits(v, e, Q, R)
      PROVE  Awaits(v2, e, Q, R)
  <2>1. Other(e) \in End BY Ends
  <2>2. QED BY <2>1, <1>1 DEF Awaits, Alike
<1>2. ASSUME NEW k, Silent(k, v) PROVE Silent(k, v2) BY <1>2 DEF Silent, Alike
<1>3. ASSUME NEW k, Shaking(kd, k, v) PROVE Shaking(kd, k, v2)
  <2> DEFINE a == Speaker(k)
             b == Other(Speaker(k))
  <2>1. a \in End /\ b \in End BY Ends
  <2>2. /\ v[a].c.hs = k /\ v[b].c.hs = k - 1
        /\ v["client"].c.session = "NOT_AUTHED"
        /\ Awaits(v, a, <<>>, <<>>)
        /\ k < LastFlight(kd) => Silent(k, v)
        /\ \E R \in Talk : /\ Awaits(v, b, Lead(k, Bring(LastKeys(kd), R)), R)
                           /\ k < LastFlight(kd) => R = <<>>
    BY <1>3 DEF Shaking
  <2> HIDE DEF a, b
  <2>3. v2[a].c.hs = k /\ v2[b].c.hs = k - 1 /\ v2["client"].c.session = "NOT_AUTHED"
    BY <2>1, <2>2 DEF Alike
  <2>4. Awaits(v2, a, <<>>, <<>>) /\ (k < LastFlight(kd) => Silent(k, v2))
    BY <2>1, <2>2, <1>1, <1>2
  <2>5. \E R \in Talk : /\ Awaits(v2, b, Lead(k, Bring(LastKeys(kd), R)), R)
                        /\ k < LastFlight(kd) => R = <<>>
    BY <2>1, <2>2, <1>1
  <2>6. QED BY <2>3, <2>4, <2>5 DEF Shaking, a, b
<1>4. "client" \in End /\ "server" \in End BY DEF End
<1>5. ASSUME NEW e \in End, NEW M, Alone(v, e, M) PROVE Alone(v2, e, M)
  <2>1. v2["client"].c.hs = 4 /\ v2["server"].c.hs = 4 /\ Silent(4, v2)
    BY <1>2, <1>4, <1>5 DEF Alone, Alike
  <2>2. Awaits(v2, Other(e), <<>>, <<>>) /\ Awaits(v2, e, Bring(1, M), M)
    BY <1>1, <1>5, Ends DEF Alone
  <2>3. QED BY <2>1, <2>2 DEF Alone
<1>9. (Exchange(kd, v) => Exchange(kd, v2)) /\ (Waits(kd, v) => Waits(kd, v2))
  BY <1>4, <1>5 DEF Exchange, Asking, Waits, Granted, Called
<1>6. Answered(kd, v) => Answered(kd, v2)
  <2> SUFFICES ASSUME Answered(kd, v) PROVE Answered(kd, v2)
    OBVIOUS
  <2>1. v2["client"].c.hs = 4 /\ v2["server"].c.hs = 5 /\ kd # "p2p" /\ Silent(5, v2)
    BY <1>2, <1>4 DEF Answered, Alike
  <2>2. /\ Awaits(v2, "server", <<>>, <<>>)
        /\ Awaits(v2, "client", Bring(1, StepUp) \o <<Flight(5)>>, StepUp)
    BY <1>1, <1>4 DEF Answered
  <2>3. QED BY <2>1, <2>2 DEF Answered
<1>7. Talking(kd, v) => Talking(kd, v2)
  <2> SUFFICES ASSUME Talking(kd, v), NEW e \in End PROVE Talks(kd, v2, e)
    BY DEF Talking
  <2>1. v[e].c.hs = LastFlight(kd) /\ \E R \in Talk : Awaits(v, e, Bring(LastKeys(kd), R), R)
    BY DEF Talking, Talks
  <2>2. v2[e].c.hs = LastFlight(kd) BY <2>1 DEF Alike
  <2>3. \E R \in Talk : Awaits(v2, e, Bring(LastKeys(kd), R), R) BY <2>1, <1>1
  <2>4. QED BY <2>2, <2>3 DEF Talks
<1>8. QED BY <1>3, <1>6, <1>7, <1>9 DEF Phase

-----------------------------------------------------------------------------
(* A call of net_on_input, in every phase.                                 *)

Taken(e, v, x, rest, y, v2) ==
  /\ v \in [End -> Side] /\ Quiet(e, v[e].c)
  /\ Fed(e, v, x, rest) /\ y = Came(e, x) /\ Moves(e, v, y, rest, v2)
  /\ kind \in {"switch", "prov", "p2p"}

(* What it comes to: the end is freed, or the next phase is reached. *)
Carried(e, x, y, v2) ==
  Gone(x, y) \/ (Phase(kind, v2) /\ Quiet(e, y.c) /\ y.c.life = x.c.life)

LEMMA CarriedBy ==
    ASSUME NEW e, NEW x, NEW y, NEW v2, NEW w, NEW Q, NEW A, NEW S, NEW t,
           Turned(x, y, w, Q, A, S, t), Phase(kind, v2),
           y.c.status = IF Secured(e, y.c.hs) THEN "SECURE" ELSE "HANDSHAKE"
    PROVE  Carried(e, x, y, v2)
BY DEF Carried, Turned, Quiet

LEMMA TakenMoves ==
    ASSUME NEW e \in End, NEW v, NEW x, NEW rest, NEW y, NEW v2, Taken(e, v, x, rest, y, v2)
    PROVE  /\ Fit(x) /\ rest \in Seq(Record) /\ y = Came(e, x)
           /\ \A Q : OnLine(v[e].c, v[e].w, Q) => OnLine(x.c, rest, Q)
           /\ x.c.hs = v[e].c.hs /\ x.c.session = v[e].c.session
           /\ x.c.status = IF Secured(e, x.c.hs) THEN "SECURE" ELSE "HANDSHAKE"
           /\ v2[e].c = y.c /\ v2[Other(e)].c = v[Other(e)].c
           /\ Len(x.c.bio) \in Nat
<1>1. x.c.bio \in Seq(Record) BY DEF Taken, Fed, Fit, Work, Conn
<1>2. Len(x.c.bio) \in Nat BY <1>1, LenProperties
<1>3. Fed(e, v, x, rest) /\ Moves(e, v, y, rest, v2) /\ Quiet(e, v[e].c) /\ y = Came(e, x)
  BY DEF Taken
<1>4. v[e].c.status = IF Secured(e, v[e].c.hs) THEN "SECURE" ELSE "HANDSHAKE"
  BY <1>3 DEF Quiet
<1>5. QED BY <1>2, <1>3, <1>4 DEF Fed, Moves

LEMMA TakenTurned ==
    ASSUME NEW e \in End, NEW v, NEW x, NEW rest, NEW y, NEW v2, Taken(e, v, x, rest, y, v2),
           NEW Q, NEW A \in Seq(Msg), NEW B \in Seq(Msg), NEW S \in Seq(Msg), NEW t \in Seq(Record),
           Turned(x, y, rest, Q, A, S, t),
           NEW P, NEW R, Awaits(v, e, P, R), R = A \o B,
           NEW o, o = Other(e), NEW Qo \in Seq(Record), NEW Ro \in Seq(Msg), Awaits(v, o, Qo, Ro)
    PROVE  Awaits(v2, e, Q, B) /\ Awaits(v2, o, Qo \o t, Ro \o S)
<1>1. Fed(e, v, x, rest) /\ Moves(e, v, y, rest, v2) /\ v \in [End -> Side] BY DEF Taken
<1>2. QED BY <1>1, TurnedMoves, ZenonT(60)

(* Less than a record came. *)
LEMMA InputNothing ==
    ASSUME NEW e \in End, NEW v, NEW x, NEW rest, NEW y, NEW v2, Taken(e, v, x, rest, y, v2),
           Phase(kind, v), Len(x.c.bio) < 2,
           x.c.status = "HANDSHAKE" => ~Finished(x.c) /\ Speaker(x.c.hs + 1) # e
    PROVE  Carried(e, x, y, v2) /\ Alike(v, v2)
<1>1. /\ Fit(x) /\ y = Came(e, x) /\ Len(x.c.bio) \in Nat
      /\ x.c.status = IF Secured(e, x.c.hs) THEN "SECURE" ELSE "HANDSHAKE"
  BY TakenMoves
<1>2. y = x BY <1>1, CameNothing
<1>3. Quiet(e, y.c)
  <2>1. Len(x.c.bio) <= 1 BY <1>1
  <2>2. QED BY <2>1, <1>1, <1>2 DEF Quiet, Fit
<1> DEFINE o == Other(e)
<1>4. o \in End /\ \A f \in End : f = e \/ f = o BY Ends
<1>5. /\ Fed(e, v, x, rest) /\ v \in [End -> Side]
      /\ v2[e].c = x.c /\ v2[e].w = rest /\ v2[e].sent = x.sent /\ v2[e].got = x.got
      /\ v2[o].c = v[o].c /\ v2[o].w = v[o].w \o Units(x.tx)
      /\ v2[o].sent = v[o].sent /\ v2[o].got = v[o].got
  BY <1>2 DEF Taken, Moves
<1> HIDE DEF o
<1>6. v2[o].w = v[o].w
  <2>1. v[o].w \in Seq(Record) BY <1>4, <1>5 DEF Side
  <2>2. Units(x.tx) = <<>>
    <3>1. x.tx = <<>> /\ <<>> \in Seq(Record) /\ Len(<<>>) = 0 BY <1>1, EmptySeq DEF Fit
    <3>2. Units(x.tx) \in Seq(Record) /\ Len(Units(x.tx)) = 0
      <4> DEFINE n == x.tx
      <4>1. n \in Seq(Record) /\ Len(n) = 0 BY <3>1
      <4> HIDE DEF n
      <4>2. Units(n) \in Seq(Record) /\ Len(Units(n)) = 2 * Len(n) BY <4>1, UnitsSeq
      <4>3. QED BY <4>1, <4>2 DEF n
    <3>3. QED BY <3>2, EmptySeq
  <2>3. v[o].w \o <<>> = v[o].w BY <2>1, ConcatEmptySeq
  <2>4. QED BY <2>2, <2>3, <1>5
<1>7. Alike(v, v2)
  <2>1. \A f \in End : /\ v2[f].c.hs = v[f].c.hs /\ v2[f].sent = v[f].sent /\ v2[f].got = v[f].got
                       /\ v2[f].c.session = v[f].c.session
                       /\ \A Q : OnLine(v[f].c, v[f].w, Q) => OnLine(v2[f].c, v2[f].w, Q)
    <3>1. /\ v2[e].c.hs = v[e].c.hs /\ v2[e].sent = v[e].sent /\ v2[e].got = v[e].got
          /\ v2[e].c.session = v[e].c.session
          /\ \A Q : OnLine(v[e].c, v[e].w, Q) => OnLine(v2[e].c, v2[e].w, Q)
      BY <1>5 DEF Fed
    <3>2. QED BY <3>1, <1>4, <1>5, <1>6
  <2>2. "client" \in End /\ "server" \in End BY DEF End
  <2>3. QED BY <2>1, <2>2 DEF Alike
<1>8. Phase(kind, v2) BY <1>7, PhaseAlike
<1>9. QED BY <1>2, <1>3, <1>7, <1>8 DEF Carried

(* A flight in the middle of a handshake. *)
LEMMA InputFlight ==
    ASSUME NEW e \in End, NEW v, NEW x, NEW rest, NEW y, NEW v2, Taken(e, v, x, rest, y, v2),
           NEW j \in {1, 2, 5, 6, 7}, j \in 1 .. LastFlight(kind), Shaking(kind, j, v),
           e = Other(Speaker(j)), Len(x.c.bio) >= 2
    PROVE  Carried(e, x, y, v2)
<1> DEFINE o == Other(e)
           i == j + 1
           N == <<>>
           t == Lead(i, N)
<1>1. /\ Fit(x) /\ rest \in Seq(Record) /\ y = Came(e, x)
      /\ \A Q : OnLine(v[e].c, v[e].w, Q) => OnLine(x.c, rest, Q)
      /\ x.c.hs = v[e].c.hs /\ x.c.session = v[e].c.session
      /\ x.c.status = IF Secured(e, x.c.hs) THEN "SECURE" ELSE "HANDSHAKE"
      /\ v2[e].c = y.c /\ v2[o].c = v[o].c
  BY TakenMoves
<1>2. /\ o = Speaker(j) /\ Speaker(i) = e /\ Other(Speaker(i)) = o /\ i \in 1 .. 9 /\ j \in 1 .. 9
      /\ kind \in {"switch", "prov", "p2p"} /\ j < LastFlight(kind) /\ i \in 1 .. LastFlight(kind)
  BY Ends DEF Speaker, LastFlight, Taken
<1>3. /\ v[o].c.hs = j /\ v[e].c.hs = j - 1 /\ v["client"].c.session = "NOT_AUTHED"
      /\ Awaits(v, o, N, N) /\ Silent(j, v)
      /\ \E R \in Talk : Awaits(v, e, Lead(j, Bring(LastKeys(kind), R)), R) /\ R = <<>>
  BY <1>2 DEF Shaking
<1>4. Awaits(v, e, Lead(j, N), N) BY <1>3, BringNone
<1>5. OnLine(x.c, rest, Lead(j, N)) BY <1>1, <1>4 DEF Awaits
<1>6. /\ Turned(x, y, rest, <<>>, <<>>, <<>>, Lead(j + 1, <<>>))
      /\ y.c.hs = j + 1 /\ y.c.status = x.c.status /\ y.c.session = x.c.session
  BY <1>1, <1>2, <1>5, CameAnswers
<1>7. /\ N \in Seq(Msg) /\ N \in Seq(Record) /\ N \in Talk /\ N \o N = N
      /\ t \in Seq(Record) /\ N \o t = t
  BY <1>2, EmptySeq, NoTalk, LeadNothing, NoTx
<1>8. Turned(x, y, rest, N, N, N, t) BY <1>6
<1>9. Awaits(v2, e, N, N) /\ Awaits(v2, o, t, N)
  <2> DEFINE P == Lead(j, N)
  <2>1. /\ Turned(x, y, rest, N, N, N, t) /\ Awaits(v, e, P, N) /\ N = N \o N
        /\ o = Other(e) /\ Awaits(v, o, N, N) /\ N \in Seq(Msg) /\ N \in Seq(Record)
        /\ t \in Seq(Record)
    BY <1>3, <1>4, <1>7, <1>8
  <2> HIDE DEF N, t, o, P
  <2>2. Awaits(v2, e, N, N) /\ Awaits(v2, o, N \o t, N \o N) BY <2>1, TakenTurned
  <2>3. QED BY <2>2, <1>7
<1>10. v2["client"].c.session = "NOT_AUTHED" /\ Silent(i, v2)
  <2>1. \A f \in End : v2[f].c.session = v[f].c.session BY <1>1, <1>6, Ends
  <2>2. "client" \in End /\ "server" \in End /\ (i <= 4 => j <= 4) BY <1>2 DEF End
  <2>3. QED BY <2>1, <2>2, <1>3 DEF Silent
<1>11. Shaking(kind, i, v2)
  <2>1. v2[e].c.hs = i /\ v2[o].c.hs = i - 1 BY <1>1, <1>3, <1>6
  <2>2. Awaits(v2, o, Lead(i, Bring(LastKeys(kind), N)), N) BY <1>9, BringNone
  <2> HIDE DEF i, N, o
  <2>3. \E R \in Talk : /\ Awaits(v2, o, Lead(i, Bring(LastKeys(kind), R)), R)
                        /\ i < LastFlight(kind) => R = <<>>
    BY <2>2, <1>7 DEF N
  <2>4. Awaits(v2, e, <<>>, <<>>) BY <1>9 DEF N
  <2>5. QED BY <2>1, <2>3, <2>4, <1>2, <1>10 DEF Shaking
<1>12. Phase(kind, v2) BY <1>2, <1>11 DEF Phase
<1>13. y.c.status = IF Secured(e, y.c.hs) THEN "SECURE" ELSE "HANDSHAKE"
  <2>1. Secured(e, j + 1) = Secured(e, j - 1)
    <3>1. /\ Speaker(2) = "server" /\ Speaker(3) = "client" /\ Speaker(6) = "client"
          /\ Speaker(7) = "server" /\ Speaker(8) = "client" /\ "client" # "server"
      BY DEF Speaker
    <3>2. CASE j = 1 BY <3>1, <3>2, <1>2 DEF Secured
    <3>3. CASE j = 2 BY <3>1, <3>3, <1>2 DEF Secured
    <3>4. CASE j = 5 BY <3>1, <3>4, <1>2 DEF Secured
    <3>5. CASE j = 6 BY <3>1, <3>5, <1>2 DEF Secured
    <3>6. CASE j = 7 BY <3>1, <3>6, <1>2 DEF Secured
    <3>7. QED BY <3>2, <3>3, <3>4, <3>5, <3>6
  <2>2. QED BY <2>1, <1>1, <1>3, <1>6
<1>14. QED BY <1>8, <1>12, <1>13, CarriedBy

(* The flight that the server's last one answers. *)
LEMMA InputEnds ==
    ASSUME NEW v, NEW x, NEW rest, NEW y, NEW v2, Taken("server", v, x, rest, y, v2),
           NEW j \in {3, 8}, j \in 1 .. LastFlight(kind), Shaking(kind, j, v), Len(x.c.bio) >= 2
    PROVE  Carried("server", x, y, v2)
<1> DEFINE e == "server"
           o == "client"
           i == j + 1
           N == <<>>
           K == LastKeys(kind)
<1>1. /\ Fit(x) /\ rest \in Seq(Record) /\ y = Came(e, x)
      /\ \A Q : OnLine(v[e].c, v[e].w, Q) => OnLine(x.c, rest, Q)
      /\ x.c.hs = v[e].c.hs /\ x.c.session = v[e].c.session
      /\ x.c.status = IF Secured(e, x.c.hs) THEN "SECURE" ELSE "HANDSHAKE"
      /\ v2[e].c = y.c /\ v2[o].c = v[o].c
  <2>1. e \in End /\ Other(e) = o BY Ends DEF End
  <2>2. QED BY <2>1, TakenMoves
<1>2. /\ e \in End /\ o \in End /\ o = Other(e) /\ e = Other(o)
      /\ o = Speaker(j) /\ Speaker(i) = e /\ i \in 1 .. 9 /\ j \in 1 .. 9
      /\ kind \in {"switch", "prov", "p2p"} /\ j < LastFlight(kind) /\ i \in 1 .. LastFlight(kind)
      /\ (kind = "p2p" => j = 3) /\ K \in 0 .. 2
  BY Ends DEF Speaker, LastFlight, LastKeys, Taken, End
<1>3. /\ v[o].c.hs = j /\ v[e].c.hs = j - 1 /\ v["client"].c.session = "NOT_AUTHED"
      /\ Awaits(v, o, N, N) /\ Silent(j, v)
      /\ \E R \in Talk : Awaits(v, e, Lead(j, Bring(LastKeys(kind), R)), R) /\ R = <<>>
  BY <1>2 DEF Shaking
<1>4. Awaits(v, e, Lead(j, N), N) BY <1>3, BringNone
<1>5. OnLine(x.c, rest, Lead(j, N)) BY <1>1, <1>4 DEF Awaits
<1>6. x.c.status = "HANDSHAKE" /\ (kind # "p2p" /\ j = 3 => x.c.session # "WAIT_STEPUP")
  <2>1. ~Secured(e, j - 1) BY DEF Secured
  <2>2. QED BY <2>1, <1>1, <1>3 DEF Silent
<1>7. /\ y.c.hs = i /\ y.c.status = "SECURE"
      /\ kind # "p2p" /\ j = 3 => y.c.session = x.c.session
      /\ \E S \in Talk : /\ Turned(x, y, rest, N, N, S, Lead(i, Bring(K, S)))
                         /\ i < LastFlight(kind) => S = <<>>
  BY <1>1, <1>2, <1>5, <1>6, CameEnds
<1>8. PICK S \in Talk : /\ Turned(x, y, rest, N, N, S, Lead(i, Bring(K, S)))
                        /\ i < LastFlight(kind) => S = <<>>
  BY <1>7
<1> DEFINE t == Lead(i, Bring(K, S))
<1>9. N \in Seq(Msg) /\ N \in Seq(Record) /\ N \o N = N /\ S \in Seq(Msg)
  BY EmptySeq, TalkIsSeq
<1>10. t \in Seq(Record)
  <2> HIDE DEF K, i
  <2>1. Bring(K, S) \in Seq(Record) BY <1>2, <1>9, BringSeq
  <2>2. QED BY <2>1, <1>2, LeadSeq
<1>11. N \o t = t /\ N \o S = S
  <2>1. N \o S = S BY <1>9, ConcatEmptySeq
  <2> HIDE DEF t
  <2>2. N \o t = t BY <1>10, NoTx
  <2>3. QED BY <2>1, <2>2
<1>12. Awaits(v2, e, N, N) /\ Awaits(v2, o, t, S)
  <2> DEFINE P == Lead(j, N)
  <2>1. /\ Turned(x, y, rest, N, N, S, t) /\ Awaits(v, e, P, N) /\ N = N \o N
        /\ o = Other(e) /\ Awaits(v, o, N, N) /\ N \in Seq(Msg) /\ N \in Seq(Record)
        /\ t \in Seq(Record) /\ S \in Seq(Msg) /\ e \in End /\ Taken(e, v, x, rest, y, v2)
    BY <1>2, <1>3, <1>4, <1>8, <1>9, <1>10
  <2> HIDE DEF N, t, o, P, e
  <2>2. Awaits(v2, e, N, N) /\ Awaits(v2, o, N \o t, N \o S) BY <2>1, TakenTurned
  <2>3. QED BY <2>2, <1>11
<1>13. v2["client"].c.session = "NOT_AUTHED" /\ (i < LastFlight(kind) => Silent(i, v2))
  <2>1. v2["client"].c.session = "NOT_AUTHED" BY <1>1, <1>3
  <2>2. ASSUME i < LastFlight(kind) PROVE Silent(i, v2)
    <3>1. j = 3 /\ kind # "p2p" BY <2>2, <1>2 DEF LastFlight
    <3>2. y.c.session = v["server"].c.session BY <3>1, <1>1, <1>7
    <3>3. v["server"].c.session = "NOT_AUTHED" BY <3>1, <1>3 DEF Silent
    <3>4. QED BY <2>1, <3>2, <3>3, <1>1 DEF Silent
  <2>3. QED BY <2>1, <2>2
<1>14. Shaking(kind, i, v2)
  <2>1. v2[e].c.hs = i /\ v2[o].c.hs = i - 1 BY <1>1, <1>3, <1>7
  <2>2. Speaker(i) = e /\ Other(Speaker(i)) = o BY <1>2
  <2>3. \E R \in Talk : /\ Awaits(v2, o, Lead(i, Bring(LastKeys(kind), R)), R)
                        /\ i < LastFlight(kind) => R = <<>>
    BY <1>8, <1>12
  <2>4. Awaits(v2, e, <<>>, <<>>) BY <1>12
  <2> HIDE DEF i, o, e
  <2>5. QED BY <2>1, <2>2, <2>3, <2>4, <1>13 DEF Shaking
<1>15. Phase(kind, v2) BY <1>2, <1>14 DEF Phase
<1>16. y.c.status = IF Secured(e, y.c.hs) THEN "SECURE" ELSE "HANDSHAKE"
  <2>1. Secured(e, i) BY DEF Secured
  <2>2. QED BY <2>1, <1>7
<1>17. QED BY <1>8, <1>15, <1>16, CarriedBy

(* Messages under the last keys, whatever came before them. *)
LEMMA InputListens ==
    ASSUME NEW e \in End, NEW v, NEW x, NEW rest, NEW y, NEW v2, Taken(e, v, x, rest, y, v2),
           NEW P, NEW R \in Talk, Awaits(v, e, P, R), Listens(x, y, rest, LastKeys(kind), R),
           NEW o, o = Other(e), v[o].c.hs = LastFlight(kind),
           NEW Ro \in Talk, Awaits(v, o, Bring(LastKeys(kind), Ro), Ro)
    PROVE  Carried(e, x, y, v2)
<1>1. CASE Gone(x, y) BY <1>1 DEF Carried
<1>2. CASE ~Gone(x, y)
  <2> DEFINE K == LastKeys(kind)
  <2>1. y.c.hs = LastFlight(kind) /\ y.c.status = "SECURE" BY <1>2 DEF Listens
  <2>2. PICK A \in Talk, B \in Talk, S \in Talk :
          R = A \o B /\ Turned(x, y, rest, Bring(K, B), A, S, Bring(K, S))
    BY <1>2 DEF Listens
  <2>3. v2[e].c = y.c /\ v2[o].c = v[o].c BY TakenMoves
  <2>4. K \in 0 .. 2 /\ LastFlight(kind) \in {4, 9} /\ o \in End /\ \A f \in End : f = e \/ f = o
    BY Ends DEF LastKeys, LastFlight
  <2>5. /\ A \in Seq(Msg) /\ B \in Seq(Msg) /\ S \in Seq(Msg) /\ Ro \in Seq(Msg)
        /\ Ro \o S \in Talk
    BY TalkIsSeq, TalkJoin
  <2> HIDE DEF K
  <2>6. Bring(K, Ro) \in Seq(Record) /\ Bring(K, S) \in Seq(Record)
    BY <2>4, <2>5, BringSeq
  <2>7. Bring(K, Ro \o S) = Bring(K, Ro) \o Bring(K, S) BY <2>4, <2>5, BringJoin
  <2>8. Awaits(v2, e, Bring(K, B), B) /\ Awaits(v2, o, Bring(K, Ro \o S), Ro \o S)
    <3> DEFINE Q == Bring(K, B)
               Qo == Bring(K, Ro)
               t == Bring(K, S)
    <3>1. /\ Turned(x, y, rest, Q, A, S, t) /\ Awaits(v, o, Qo, Ro)
          /\ Qo \in Seq(Record) /\ t \in Seq(Record)
      BY <2>2, <2>6 DEF K
    <3> HIDE DEF Q, Qo, t
    <3>2. Awaits(v2, e, Q, B) /\ Awaits(v2, o, Qo \o t, Ro \o S)
      BY <2>2, <2>5, <3>1, TakenTurned, ZenonT(60)
    <3>3. QED BY <3>2, <2>7 DEF Q, Qo, t
  <2>9. Talks(kind, v2, e) BY <2>1, <2>3, <2>8 DEF Talks, K
  <2>10. Talks(kind, v2, o) BY <2>3, <2>5, <2>8 DEF Talks, K
  <2>11. Phase(kind, v2) BY <2>4, <2>9, <2>10 DEF Phase, Talking
  <2>12. y.c.status = IF Secured(e, y.c.hs) THEN "SECURE" ELSE "HANDSHAKE"
    <3>1. Secured(e, LastFlight(kind)) BY <2>4 DEF Secured
    <3>2. QED BY <2>1, <3>1
  <2>13. QED BY <2>2, <2>11, <2>12, CarriedBy
<1>3. QED BY <1>1, <1>2

LEMMA InputTalk ==
    ASSUME NEW e \in End, NEW v, NEW x, NEW rest, NEW y, NEW v2, Taken(e, v, x, rest, y, v2),
           Talking(kind, v)
    PROVE  Carried(e, x, y, v2)
<1> DEFINE o == Other(e)
           K == LastKeys(kind)
<1>1. o \in End BY Ends
<1>2. v[e].c.hs = LastFlight(kind) /\ v[o].c.hs = LastFlight(kind)
  BY <1>1 DEF Talking, Talks
<1>3. PICK R \in Talk : Awaits(v, e, Bring(K, R), R) BY DEF Talking, Talks
<1>4. PICK Ro \in Talk : Awaits(v, o, Bring(K, Ro), Ro) BY <1>1 DEF Talking, Talks
<1>5. /\ Fit(x) /\ rest \in Seq(Record) /\ y = Came(e, x)
      /\ \A Q : OnLine(v[e].c, v[e].w, Q) => OnLine(x.c, rest, Q)
      /\ x.c.hs = v[e].c.hs
      /\ x.c.status = IF Secured(e, x.c.hs) THEN "SECURE" ELSE "HANDSHAKE"
  BY TakenMoves
<1>6. x.c.hs = LastFlight(kind) /\ x.c.status = "SECURE" /\ kind \in {"switch", "prov", "p2p"}
  <2>1. Secured(e, LastFlight(kind)) BY DEF Secured, LastFlight
  <2>2. QED BY <1>2, <1>5, <2>1 DEF Taken
<1>7. OnLine(x.c, rest, Bring(K, R)) BY <1>3, <1>5 DEF Awaits
<1>8. Listens(x, y, rest, LastKeys(kind), R) BY <1>5, <1>6, <1>7, CameTalk
<1> DEFINE P == Bring(K, R)
<1>9. Awaits(v, e, P, R) /\ o = Other(e) /\ Awaits(v, o, Bring(LastKeys(kind), Ro), Ro)
  BY <1>3, <1>4
<1> HIDE DEF P, o
<1>10. QED BY <1>2, <1>8, <1>9, InputListens

(* The last flight of the last handshake. *)
LEMMA InputLast ==
    ASSUME NEW v, NEW x, NEW rest, NEW y, NEW v2, Taken("client", v, x, rest, y, v2),
           Shaking(kind, LastFlight(kind), v), Len(x.c.bio) >= 2
    PROVE  Carried("client", x, y, v2)
<1> DEFINE e == "client"
           o == "server"
           j == LastFlight(kind)
           K == LastKeys(kind)
<1>1. e \in End /\ o \in End /\ o = Other(e) /\ e = Other(o) /\ o = Speaker(j) /\ j \in {4, 9}
      /\ kind \in {"switch", "prov", "p2p"}
  BY Ends DEF Speaker, LastFlight, End, Taken
<1>2. /\ v[o].c.hs = j /\ v[e].c.hs = j - 1 /\ Awaits(v, o, <<>>, <<>>)
      /\ \E R \in Talk : Awaits(v, e, Lead(j, Bring(K, R)), R)
  BY <1>1 DEF Shaking
<1>3. PICK R \in Talk : Awaits(v, e, Lead(j, Bring(K, R)), R) BY <1>2
<1>4. /\ Fit(x) /\ rest \in Seq(Record) /\ y = Came(e, x)
      /\ \A Q : OnLine(v[e].c, v[e].w, Q) => OnLine(x.c, rest, Q)
      /\ x.c.hs = v[e].c.hs
      /\ x.c.status = IF Secured(e, x.c.hs) THEN "SECURE" ELSE "HANDSHAKE"
  BY <1>1, TakenMoves
<1>5. OnLine(x.c, rest, Lead(j, Bring(K, R))) BY <1>3, <1>4 DEF Awaits
<1>6. Listens(x, y, rest, LastKeys(kind), R)
  <2>1. CASE kind = "p2p"
    <3>1. j = 4 BY <2>1 DEF LastFlight
    <3>2. x.c.status = "HANDSHAKE" BY <3>1, <1>2, <1>4 DEF Secured
    <3>3. OnLine(x.c, rest, Lead(4, Bring(LastKeys(kind), R))) BY <3>1, <1>5
    <3>4. QED BY <2>1, <3>2, <3>3, <1>4, CameGreeted
  <2>2. CASE kind # "p2p"
    <3>1. j = 9 BY <2>2 DEF LastFlight
    <3>2. x.c.status = "SECURE" BY <3>1, <1>2, <1>4 DEF Secured
    <3>3. OnLine(x.c, rest, Lead(9, Bring(LastKeys(kind), R))) BY <3>1, <1>5
    <3>4. kind \in {"switch", "prov"} BY <2>2, <1>1
    <3>5. QED BY <3>4, <3>2, <3>3, <1>4, CameRenewed
  <2>3. QED BY <2>1, <2>2, <1>1
<1>7. Awaits(v, o, Bring(K, <<>>), <<>>) /\ <<>> \in Talk BY <1>2, BringNone, NoTalk
<1> DEFINE P == Lead(j, Bring(K, R))
           Ro == <<>>
<1>8. Awaits(v, e, P, R) /\ Awaits(v, o, Bring(LastKeys(kind), Ro), Ro) /\ Ro \in Talk
      /\ v[o].c.hs = LastFlight(kind) /\ Taken(e, v, x, rest, y, v2)
  BY <1>2, <1>3, <1>7
<1> HIDE DEF P, Ro, o, e
<1>9. Carried(e, x, y, v2) BY <1>1, <1>6, <1>8, InputListens
<1>10. QED BY <1>9 DEF e

(* One message is read under the anonymous keys, one at most is sent. *)
OneTurn(e, o, v, x, rest, y, P, A, S) ==
  /\ Awaits(v, e, P, A) /\ A \in Seq(Msg) /\ Awaits(v, o, <<>>, <<>>)
  /\ Turned(x, y, rest, <<>>, A, S, Bring(1, S))
  /\ Silent(4, v) /\ v[o].c.hs = 4
  /\ y.c.hs = 4 /\ y.c.status = "SECURE" /\ y.c.session = x.c.session

LEMMA InputTurns ==
    ASSUME NEW e \in End, NEW v, NEW x, NEW rest, NEW y, NEW v2, Taken(e, v, x, rest, y, v2),
           NEW o, o = Other(e), NEW P, NEW A, NEW S \in Seq(Msg), Bring(1, S) \in Seq(Record),
           OneTurn(e, o, v, x, rest, y, P, A, S)
    PROVE  /\ Alone(v2, o, S)
           /\ Phase(kind, v2) => Carried(e, x, y, v2)
<1> DEFINE N == <<>>
           t == Bring(1, S)
<1>1. /\ N \in Seq(Msg) /\ N \in Seq(Record) /\ A \o N = A /\ t \in Seq(Record) /\ N \o S = S
      /\ o \in End /\ Other(o) = e
  BY EmptySeq, ConcatEmptySeq, Ends DEF OneTurn
<1>2. N \o t = t
  <2> HIDE DEF t
  <2>1. QED BY <1>1, NoTx
<1>3. Awaits(v2, e, N, N) /\ Awaits(v2, o, t, S)
  <2>1. /\ Turned(x, y, rest, N, A, S, t) /\ Awaits(v, e, P, A) /\ A = A \o N
        /\ o = Other(e) /\ Awaits(v, o, N, N) /\ N \in Seq(Msg) /\ N \in Seq(Record)
        /\ t \in Seq(Record) /\ A \in Seq(Msg)
    BY <1>1 DEF OneTurn
  <2> HIDE DEF N, t
  <2>2. Awaits(v2, e, N, N) /\ Awaits(v2, o, N \o t, N \o S)
    BY <2>1, TakenTurned, ZenonT(60)
  <2>3. QED BY <2>2, <1>1, <1>2
<1>4. v2[e].c = y.c /\ v2[o].c = v[o].c /\ x.c.session = v[e].c.session BY TakenMoves
<1>5. e \in {"client", "server"} /\ o \in {"client", "server"} /\ e # o
  BY <1>1, Ends DEF End
<1>6. Silent(4, v2) BY <1>4, <1>5 DEF Silent, OneTurn
<1>7. v2["client"].c.hs = 4 /\ v2["server"].c.hs = 4 BY <1>4, <1>5 DEF OneTurn
<1>8. Alone(v2, o, S) BY <1>1, <1>3, <1>6, <1>7 DEF Alone
<1>9. y.c.status = IF Secured(e, y.c.hs) THEN "SECURE" ELSE "HANDSHAKE"
  BY DEF Secured, OneTurn
<1>10. Phase(kind, v2) => Carried(e, x, y, v2) BY <1>9, CarriedBy DEF OneTurn
<1>11. QED BY <1>8, <1>10

(* The first handshake is over, and the agent asks. *)
LEMMA InputCalls ==
    ASSUME NEW v, NEW x, NEW rest, NEW y, NEW v2, Taken("client", v, x, rest, y, v2),
           kind # "p2p", Shaking(kind, 4, v), Len(x.c.bio) >= 2
    PROVE  Carried("client", x, y, v2)
<1> DEFINE e == "client"
           o == "server"
           N == <<>>
           t == Bring(1, Opener)
<1>1. /\ e \in End /\ o \in End /\ o = Other(e) /\ e = Other(o) /\ o = Speaker(4)
      /\ 4 < LastFlight(kind) /\ kind \in {"switch", "prov"}
  BY Ends DEF Speaker, LastFlight, End, Taken
<1>2. /\ v[o].c.hs = 4 /\ v[e].c.hs = 4 - 1 /\ Awaits(v, o, N, N) /\ Silent(4, v)
      /\ \E R \in Talk : Awaits(v, e, Lead(4, Bring(LastKeys(kind), R)), R) /\ R = <<>>
  BY <1>1 DEF Shaking
<1>3. Awaits(v, e, Lead(4, N), N) BY <1>2, BringNone
<1>4. /\ Fit(x) /\ rest \in Seq(Record) /\ y = Came(e, x)
      /\ \A Q : OnLine(v[e].c, v[e].w, Q) => OnLine(x.c, rest, Q)
      /\ x.c.hs = v[e].c.hs
      /\ x.c.status = IF Secured(e, x.c.hs) THEN "SECURE" ELSE "HANDSHAKE"
  BY <1>1, TakenMoves
<1>5. x.c.status = "HANDSHAKE" BY <1>2, <1>4 DEF Secured
<1>6. OnLine(x.c, rest, Lead(4, <<>>)) BY <1>3, <1>4 DEF Awaits
<1>7. /\ y.c.hs = 4 /\ y.c.status = "SECURE" /\ y.c.session = x.c.session
      /\ Turned(x, y, rest, N, N, Opener, t)
  BY <1>1, <1>4, <1>5, <1>6, CameCalls
<1>8. N \in Seq(Msg) /\ Opener \in Seq(Msg) /\ t \in Seq(Record)
  BY EmptySeq, AuthIsSeq DEF Lone
<1>9. Alone(v2, o, Opener) /\ (Phase(kind, v2) => Carried(e, x, y, v2))
  <2> DEFINE P == Lead(4, N)
             S == Opener
  <2>1. /\ Turned(x, y, rest, N, N, S, t) /\ Awaits(v, e, P, N) /\ S \in Seq(Msg)
        /\ t = Bring(1, S) /\ y.c.hs = 4 /\ y.c.status = "SECURE" /\ y.c.session = x.c.session
        /\ Taken(e, v, x, rest, y, v2) /\ v[o].c.hs = 4 /\ Silent(4, v) /\ Awaits(v, o, N, N)
        /\ N = <<>> /\ N \in Seq(Msg) /\ t \in Seq(Record) /\ o = Other(e) /\ e \in End
    BY <1>1, <1>2, <1>3, <1>7, <1>8
  <2> HIDE DEF N, t, o, P, e, S
  <2>2. OneTurn(e, o, v, x, rest, y, P, N, S) BY <2>1 DEF OneTurn
  <2>3. Alone(v2, o, S) /\ (Phase(kind, v2) => Carried(e, x, y, v2))
    BY <2>1, <2>2, InputTurns
  <2>4. QED BY <2>3 DEF S
<1>10. Exchange(kind, v2) BY <1>1, <1>9, AuthIsSeq DEF Exchange, Asking, Called
<1>11. QED BY <1>9, <1>10 DEF Phase

(* The switch is asked for a passport. *)
LEMMA InputAsks ==
    ASSUME NEW v, NEW x, NEW rest, NEW y, NEW v2, Taken("server", v, x, rest, y, v2),
           Asking(kind, v), Len(x.c.bio) >= 2
    PROVE  Carried("server", x, y, v2) /\ Waits(kind, v2)
<1> DEFINE e == "server"
           o == "client"
<1>1. e \in End /\ o = Other(e) /\ e = Other(o) /\ o \in End /\ kind = "prov"
  BY Ends DEF End, Asking
<1>2. /\ v[o].c.hs = 4 /\ v[e].c.hs = 4 /\ Silent(4, v)
      /\ Awaits(v, o, <<>>, <<>>) /\ Awaits(v, e, Bring(1, Ask), Ask)
  BY <1>1 DEF Asking, Alone
<1>3. /\ Fit(x) /\ rest \in Seq(Record) /\ y = Came(e, x)
      /\ \A Q : OnLine(v[e].c, v[e].w, Q) => OnLine(x.c, rest, Q)
      /\ x.c.hs = v[e].c.hs /\ x.c.session = v[e].c.session
      /\ x.c.status = IF Secured(e, x.c.hs) THEN "SECURE" ELSE "HANDSHAKE"
  BY <1>1, TakenMoves
<1>4. x.c.status = "SECURE" /\ x.c.hs = 4 /\ x.c.session # "PURGE"
  BY <1>2, <1>3 DEF Secured, Silent
<1>5. OnLine(x.c, rest, Bring(1, Ask)) BY <1>2, <1>3 DEF Awaits
<1>6. /\ y.c.hs = 4 /\ y.c.status = "SECURE" /\ y.c.session = x.c.session
      /\ Turned(x, y, rest, <<>>, Ask, <<>>, <<>>)
  BY <1>3, <1>4, <1>5, CameAsks
<1>7. Ask \in Seq(Msg) /\ <<>> \in Seq(Msg) /\ <<>> \in Seq(Record) /\ Bring(1, <<>>) = <<>>
  BY EmptySeq, AuthIsSeq, BringNone DEF Lone
<1>8. Alone(v2, o, <<>>) /\ (Phase(kind, v2) => Carried(e, x, y, v2))
  <2> DEFINE P == Bring(1, Ask)
             S == <<>>
             A == Ask
  <2>1. /\ Turned(x, y, rest, <<>>, A, S, Bring(1, S)) /\ Awaits(v, e, P, A) /\ S \in Seq(Msg)
        /\ y.c.hs = 4 /\ y.c.status = "SECURE" /\ y.c.session = x.c.session
        /\ Taken(e, v, x, rest, y, v2) /\ v[o].c.hs = 4 /\ Silent(4, v)
        /\ Awaits(v, o, <<>>, <<>>) /\ A \in Seq(Msg)
        /\ Bring(1, S) \in Seq(Record) /\ o = Other(e) /\ e \in End
    BY <1>1, <1>2, <1>6, <1>7
  <2> HIDE DEF o, P, e, S, A
  <2>2. OneTurn(e, o, v, x, rest, y, P, A, S) BY <2>1 DEF OneTurn
  <2>3. Alone(v2, o, S) /\ (Phase(kind, v2) => Carried(e, x, y, v2))
    BY <2>1, <2>2, InputTurns
  <2>4. QED BY <2>3 DEF S
<1>9. Waits(kind, v2) BY <1>1, <1>7, <1>8 DEF Waits, Alone
<1>10. QED BY <1>8, <1>9 DEF Phase, Exchange

(* The agent is given its passport, and asks to be authenticated. *)
LEMMA InputGranted ==
    ASSUME NEW v, NEW x, NEW rest, NEW y, NEW v2, Taken("client", v, x, rest, y, v2),
           Granted(kind, v), Len(x.c.bio) >= 2
    PROVE  Carried("client", x, y, v2)
<1> DEFINE e == "client"
           o == "server"
<1>1. e \in End /\ o = Other(e) /\ e = Other(o) /\ o \in End /\ kind = "prov"
  BY Ends DEF End, Granted
<1>2. /\ v[o].c.hs = 4 /\ v[e].c.hs = 4 /\ Silent(4, v)
      /\ Awaits(v, o, <<>>, <<>>) /\ Awaits(v, e, Bring(1, Grant), Grant)
  BY <1>1 DEF Granted, Alone
<1>3. /\ Fit(x) /\ rest \in Seq(Record) /\ y = Came(e, x)
      /\ \A Q : OnLine(v[e].c, v[e].w, Q) => OnLine(x.c, rest, Q)
      /\ x.c.hs = v[e].c.hs /\ x.c.session = v[e].c.session
      /\ x.c.status = IF Secured(e, x.c.hs) THEN "SECURE" ELSE "HANDSHAKE"
  BY <1>1, TakenMoves
<1>4. x.c.status = "SECURE" /\ x.c.hs = 4 /\ x.c.session # "PURGE"
  BY <1>2, <1>3 DEF Secured, Silent
<1>5. OnLine(x.c, rest, Bring(1, Grant)) BY <1>2, <1>3 DEF Awaits
<1>6. /\ y.c.hs = 4 /\ y.c.status = "SECURE" /\ y.c.session = x.c.session
      /\ Turned(x, y, rest, <<>>, Grant, Auth, Bring(1, Auth))
  BY <1>3, <1>4, <1>5, CameGranted
<1>7. Grant \in Seq(Msg) /\ Auth \in Seq(Msg) /\ Bring(1, Auth) \in Seq(Record)
  BY AuthIsSeq DEF Lone
<1>8. Alone(v2, o, Auth) /\ (Phase(kind, v2) => Carried(e, x, y, v2))
  <2> DEFINE P == Bring(1, Grant)
             S == Auth
             A == Grant
  <2>1. /\ Turned(x, y, rest, <<>>, A, S, Bring(1, S)) /\ Awaits(v, e, P, A) /\ S \in Seq(Msg)
        /\ y.c.hs = 4 /\ y.c.status = "SECURE" /\ y.c.session = x.c.session
        /\ Taken(e, v, x, rest, y, v2) /\ v[o].c.hs = 4 /\ Silent(4, v)
        /\ Awaits(v, o, <<>>, <<>>) /\ A \in Seq(Msg)
        /\ Bring(1, S) \in Seq(Record) /\ o = Other(e) /\ e \in End
    BY <1>1, <1>2, <1>6, <1>7
  <2> HIDE DEF o, P, e, S, A
  <2>2. OneTurn(e, o, v, x, rest, y, P, A, S) BY <2>1 DEF OneTurn
  <2>3. Alone(v2, o, S) /\ (Phase(kind, v2) => Carried(e, x, y, v2))
    BY <2>1, <2>2, InputTurns
  <2>4. QED BY <2>3 DEF S
<1>9. Called(kind, v2) BY <1>1, <1>8 DEF Called
<1>10. QED BY <1>8, <1>9 DEF Phase, Exchange

(* The switch is asked, and answers with two records. *)
LEMMA InputAsked ==
    ASSUME NEW v, NEW x, NEW rest, NEW y, NEW v2, Taken("server", v, x, rest, y, v2),
           Called(kind, v), Len(x.c.bio) >= 2
    PROVE  Carried("server", x, y, v2)
<1> DEFINE e == "server"
           o == "client"
           N == <<>>
           t == Bring(1, StepUp) \o <<Flight(5)>>
<1>1. e \in End /\ o \in End /\ o = Other(e) /\ e = Other(o) BY Ends DEF End
<1>2. /\ v[o].c.hs = 4 /\ v[e].c.hs = 4 /\ Silent(4, v) /\ kind # "p2p"
      /\ Awaits(v, o, N, N) /\ Awaits(v, e, Bring(1, Auth), Auth)
  BY <1>1 DEF Called, Alone
<1>3. /\ Fit(x) /\ rest \in Seq(Record) /\ y = Came(e, x)
      /\ \A Q : OnLine(v[e].c, v[e].w, Q) => OnLine(x.c, rest, Q)
      /\ x.c.hs = v[e].c.hs /\ x.c.session = v[e].c.session
      /\ x.c.status = IF Secured(e, x.c.hs) THEN "SECURE" ELSE "HANDSHAKE"
      /\ v2[e].c = y.c /\ v2[o].c = v[o].c
  BY <1>1, TakenMoves
<1>4. x.c.status = "SECURE" /\ x.c.hs = 4 /\ x.c.session = "NOT_AUTHED"
  BY <1>2, <1>3 DEF Secured, Silent
<1>5. OnLine(x.c, rest, Bring(1, Auth)) BY <1>2, <1>3 DEF Awaits
<1>6. /\ y.c.hs = 5 /\ y.c.status = "HANDSHAKE" /\ y.c.session = "WAIT_STEPUP"
      /\ Turned(x, y, rest, N, Auth, StepUp, t)
  BY <1>3, <1>4, <1>5, CameAsked
<1>7. /\ N \in Seq(Msg) /\ N \in Seq(Record) /\ Auth \in Seq(Msg) /\ Auth \o N = Auth
      /\ StepUp \in Seq(Msg) /\ N \o StepUp = StepUp
  BY EmptySeq, AuthIsSeq, ConcatEmptySeq DEF Lone
<1>8. t \in Seq(Record) /\ N \o t = t
  <2> DEFINE p == Bring(1, StepUp)
             f == <<Flight(5)>>
  <2>1. p \in Seq(Record) /\ f \in Seq(Record) BY AuthIsSeq, FlightRecord DEF Lone
  <2> HIDE DEF p, f
  <2>2. p \o f \in Seq(Record) BY <2>1, ConcatProperties
  <2>3. t \in Seq(Record) BY <2>2 DEF p, f
  <2> HIDE DEF t
  <2>4. QED BY <2>3, NoTx
<1>9. Awaits(v2, e, N, N) /\ Awaits(v2, o, t, StepUp)
  <2> DEFINE P == Bring(1, Auth)
             A == Auth
             S == StepUp
  <2>1. /\ Turned(x, y, rest, N, A, S, t) /\ Awaits(v, e, P, A) /\ A = A \o N
        /\ o = Other(e) /\ Awaits(v, o, N, N) /\ N \in Seq(Msg) /\ N \in Seq(Record)
        /\ t \in Seq(Record) /\ S \in Seq(Msg) /\ A \in Seq(Msg) /\ e \in End
        /\ Taken(e, v, x, rest, y, v2)
    BY <1>1, <1>2, <1>6, <1>7, <1>8
  <2> HIDE DEF N, t, o, P, e, A, S
  <2>2. Awaits(v2, e, N, N) /\ Awaits(v2, o, N \o t, N \o S)
    BY <2>1, TakenTurned, ZenonT(60)
  <2>3. QED BY <2>2, <1>7, <1>8 DEF S
<1>10. Silent(5, v2) BY <1>2, <1>3, <1>6 DEF Silent
<1> HIDE DEF t
<1>11. Answered(kind, v2) BY <1>2, <1>3, <1>6, <1>9, <1>10 DEF Answered, t
<1>12. Phase(kind, v2) BY <1>11 DEF Phase
<1>13. y.c.status = IF Secured(e, y.c.hs) THEN "SECURE" ELSE "HANDSHAKE"
  BY <1>6 DEF Secured
<1>14. QED BY <1>6, <1>12, <1>13, CarriedBy

(* The agent steps up: at once, or when the flight is there. *)
LEMMA InputSteps ==
    ASSUME NEW v, NEW x, NEW rest, NEW y, NEW v2, Taken("client", v, x, rest, y, v2),
           Answered(kind, v), Len(x.c.bio) >= 2
    PROVE  Carried("client", x, y, v2)
<1> DEFINE e == "client"
           o == "server"
           N == <<>>
           P == Bring(1, StepUp) \o <<Flight(5)>>
<1>1. e \in End /\ o \in End /\ o = Other(e) /\ e = Other(o)
      /\ Speaker(5) = o /\ Speaker(6) = e
  BY Ends DEF End, Speaker
<1>2. /\ v[o].c.hs = 5 /\ v[e].c.hs = 4 /\ Silent(5, v) /\ kind # "p2p"
      /\ Awaits(v, o, N, N) /\ Awaits(v, e, P, StepUp)
  BY DEF Answered
<1>3. /\ Fit(x) /\ rest \in Seq(Record) /\ y = Came(e, x)
      /\ \A Q : OnLine(v[e].c, v[e].w, Q) => OnLine(x.c, rest, Q)
      /\ x.c.hs = v[e].c.hs /\ x.c.session = v[e].c.session
      /\ x.c.status = IF Secured(e, x.c.hs) THEN "SECURE" ELSE "HANDSHAKE"
      /\ v2[e].c = y.c /\ v2[o].c = v[o].c
  BY <1>1, TakenMoves
<1>4. x.c.status = "SECURE" /\ x.c.hs = 4 /\ x.c.session = "NOT_AUTHED"
  BY <1>2, <1>3 DEF Secured, Silent
<1>5. OnLine(x.c, rest, P) BY <1>2, <1>3 DEF Awaits
<1>6. /\ y.c.session = "NOT_AUTHED" /\ y.c.status = "SECURE"
      /\ \/ y.c.hs = 4 /\ Turned(x, y, rest, Lead(5, N), StepUp, N, N)
         \/ y.c.hs = 6 /\ Turned(x, y, rest, N, StepUp, N, Lead(6, N))
  BY <1>3, <1>4, <1>5, CameSteps
<1>7. /\ N \in Seq(Msg) /\ N \in Seq(Record) /\ N \in Talk /\ N \o N = N
      /\ StepUp \in Seq(Msg) /\ StepUp \o N = StepUp
  BY EmptySeq, NoTalk, AuthIsSeq, ConcatEmptySeq DEF Lone
<1>8. LastFlight(kind) = 9 /\ 5 \in 1 .. 9 /\ 6 \in 1 .. 9 BY <1>2 DEF LastFlight
<1>9. Silent(5, v2) /\ Silent(6, v2) /\ v2["client"].c.session = "NOT_AUTHED"
  BY <1>2, <1>3, <1>6 DEF Silent
<1>10. ASSUME NEW Q, NEW t \in Seq(Record), Turned(x, y, rest, Q, StepUp, N, t)
       PROVE  Awaits(v2, e, Q, N) /\ Awaits(v2, o, N \o t, N)
  <2> DEFINE A == StepUp
  <2>1. /\ Turned(x, y, rest, Q, A, N, t) /\ Awaits(v, e, P, A) /\ A = A \o N
        /\ o = Other(e) /\ Awaits(v, o, N, N) /\ N \in Seq(Msg) /\ N \in Seq(Record)
        /\ A \in Seq(Msg) /\ e \in End /\ Taken(e, v, x, rest, y, v2)
    BY <1>1, <1>2, <1>7, <1>10
  <2> HIDE DEF N, o, P, e, A
  <2>2. Awaits(v2, e, Q, N) /\ Awaits(v2, o, N \o t, N \o N) BY <2>1, TakenTurned
  <2>3. QED BY <2>2, <1>7
<1>11. ASSUME NEW k \in {5, 6}, v2[Speaker(k)].c.hs = k, v2[Other(Speaker(k))].c.hs = k - 1,
              Awaits(v2, Speaker(k), N, N), Awaits(v2, Other(Speaker(k)), Lead(k, N), N)
       PROVE  Phase(kind, v2)
  <2>1. k \in 1 .. LastFlight(kind) /\ k < LastFlight(kind) /\ Silent(k, v2) BY <1>8, <1>9
  <2>2. \E R \in Talk : /\ Awaits(v2, Other(Speaker(k)), Lead(k, Bring(LastKeys(kind), R)), R)
                        /\ k < LastFlight(kind) => R = <<>>
    <3>1. Awaits(v2, Other(Speaker(k)), Lead(k, Bring(LastKeys(kind), <<>>)), <<>>)
      BY <1>11, BringNone
    <3>2. QED BY <3>1, <1>7
  <2>3. Shaking(kind, k, v2) BY <2>1, <2>2, <1>9, <1>11 DEF Shaking
  <2>4. QED BY <2>1, <2>3 DEF Phase
<1>12. CASE y.c.hs = 4 /\ Turned(x, y, rest, Lead(5, N), StepUp, N, N)
  <2>1. Awaits(v2, e, Lead(5, N), N) /\ Awaits(v2, o, N, N)
    <3> DEFINE Q == Lead(5, N)
    <3> HIDE DEF Q
    <3>1. Turned(x, y, rest, Q, StepUp, N, N) BY <1>12 DEF Q
    <3>2. Awaits(v2, e, Q, N) /\ Awaits(v2, o, N \o N, N) BY <3>1, <1>7, <1>10
    <3>3. QED BY <3>2, <1>7 DEF Q
  <2>2. v2[o].c.hs = 5 /\ v2[e].c.hs = 5 - 1 BY <1>2, <1>3, <1>12
  <2>3. Phase(kind, v2) BY <2>1, <2>2, <1>1, <1>11
  <2>4. y.c.status = IF Secured(e, y.c.hs) THEN "SECURE" ELSE "HANDSHAKE"
    BY <1>6, <1>12 DEF Secured
  <2>5. QED BY <2>3, <2>4, <1>12, CarriedBy
<1>13. CASE y.c.hs = 6 /\ Turned(x, y, rest, N, StepUp, N, Lead(6, N))
  <2>1. Awaits(v2, e, N, N) /\ Awaits(v2, o, Lead(6, N), N)
    <3> DEFINE t == Lead(6, N)
    <3>1. t \in Seq(Record) BY LeadNothing
    <3> HIDE DEF t
    <3>2. Turned(x, y, rest, N, StepUp, N, t) BY <1>13 DEF t
    <3>3. Awaits(v2, e, N, N) /\ Awaits(v2, o, N \o t, N) BY <3>1, <3>2, <1>10
    <3>4. N \o t = t BY <3>1, NoTx
    <3>5. QED BY <3>3, <3>4 DEF t
  <2>2. v2[e].c.hs = 6 /\ v2[o].c.hs = 6 - 1 BY <1>2, <1>3, <1>13
  <2>3. Phase(kind, v2) BY <2>1, <2>2, <1>1, <1>11
  <2>4. y.c.status = IF Secured(e, y.c.hs) THEN "SECURE" ELSE "HANDSHAKE"
    BY <1>6, <1>13 DEF Secured
  <2>5. QED BY <2>3, <2>4, <1>13, CarriedBy
<1>14. QED BY <1>6, <1>12, <1>13

(* Whatever comes, in whatever phase. *)
LEMMA InputCarries ==
    ASSUME NEW e \in End, NEW v, NEW x, NEW rest, NEW y, NEW v2, Taken(e, v, x, rest, y, v2),
           Phase(kind, v), v[e].w # <<>>
    PROVE  Carried(e, x, y, v2)
<1>1. /\ v[e] \in Side /\ kind \in {"switch", "prov", "p2p"} /\ Len(x.c.bio) \in Nat
      /\ x.c.hs = v[e].c.hs /\ x.c.status = IF Secured(e, x.c.hs) THEN "SECURE" ELSE "HANDSHAKE"
  BY TakenMoves DEF Taken
<1>2. ASSUME NEW R, Awaits(v, e, <<>>, R) PROVE FALSE
  <2>1. v[e].c \in Conn /\ v[e].w \in Seq(Record) /\ OnLine(v[e].c, v[e].w, <<>>)
    BY <1>1, <1>2 DEF Side, Awaits
  <2>2. v[e].w = <<>> BY <2>1, NoLine
  <2>3. QED BY <2>2
<1>3. e = "client" \/ e = "server" BY DEF End
<1>4. CASE Talking(kind, v) BY <1>4, InputTalk
<1>9. ASSUME NEW f \in End, NEW M, Alone(v, f, M), ~(M = <<>>)
      PROVE  /\ e = f /\ v[e].c.hs = 4 /\ x.c.status = "SECURE"
             /\ Len(x.c.bio) < 2 => Carried(e, x, y, v2) /\ v2["server"].got = v["server"].got
  <2>1. e = f /\ v[e].c.hs = 4 BY <1>2, <1>3, <1>9, Ends DEF Alone
  <2>2. x.c.status = "SECURE" BY <2>1, <1>1, <1>3 DEF Secured
  <2>3. Len(x.c.bio) < 2 => Carried(e, x, y, v2) /\ Alike(v, v2) BY <2>2, InputNothing
  <2>4. QED BY <2>1, <2>2, <2>3 DEF Alike, End
<1>10. ~Waits(kind, v)
  <2> SUFFICES ASSUME Waits(kind, v) PROVE FALSE
    OBVIOUS
  <2>1. Awaits(v, "client", <<>>, <<>>) /\ Awaits(v, "server", <<>>, <<>>)
    BY BringNone, Ends DEF Waits, Alone
  <2>2. QED BY <2>1, <1>2, <1>3
<1>11. /\ "client" \in End /\ "server" \in End /\ ~(Ask = <<>>) /\ ~(Grant = <<>>)
       /\ ~(Auth = <<>>)
  BY AuthIsSeq DEF End, Lone
<1>12. CASE Asking(kind, v)
  <2>1. Alone(v, "server", Ask) BY <1>12 DEF Asking
  <2>2. e = "server" /\ (Len(x.c.bio) < 2 => Carried(e, x, y, v2) /\ v2["server"].got = v["server"].got)
    BY <2>1, <1>9, <1>11
  <2>3. CASE Len(x.c.bio) >= 2 BY <2>2, <2>3, <1>12, InputAsks
  <2>4. QED BY <2>2, <2>3, <1>1
<1>14. CASE Granted(kind, v)
  <2>1. Alone(v, "client", Grant) BY <1>14 DEF Granted
  <2>2. e = "client" /\ (Len(x.c.bio) < 2 => Carried(e, x, y, v2)) BY <2>1, <1>9, <1>11
  <2>3. CASE Len(x.c.bio) >= 2 BY <2>2, <2>3, <1>14, InputGranted
  <2>4. QED BY <2>2, <2>3, <1>1
<1>5. CASE Called(kind, v)
  <2>1. Alone(v, "server", Auth) BY <1>5 DEF Called
  <2>2. e = "server" /\ (Len(x.c.bio) < 2 => Carried(e, x, y, v2)) BY <2>1, <1>9, <1>11
  <2>3. CASE Len(x.c.bio) >= 2 BY <2>2, <2>3, <1>5, InputAsked
  <2>4. QED BY <2>2, <2>3, <1>1
<1>6. CASE Answered(kind, v)
  <2>1. e = "client" /\ v[e].c.hs = 4 BY <1>2, <1>3, <1>6 DEF Answered
  <2>2. CASE Len(x.c.bio) < 2
    <3>1. x.c.status = "SECURE" BY <2>1, <1>1 DEF Secured
    <3>2. QED BY <2>2, <3>1, InputNothing
  <2>3. CASE Len(x.c.bio) >= 2 BY <2>1, <2>3, <1>6, InputSteps
  <2>4. QED BY <2>2, <2>3, <1>1
<1>7. ASSUME NEW k \in 1 .. LastFlight(kind), Shaking(kind, k, v)
      PROVE  Carried(e, x, y, v2)
  <2>1. e = Other(Speaker(k)) /\ e # Speaker(k) BY <1>2, <1>7, Ends DEF Shaking
  <2>2. v[e].c.hs = k - 1 BY <2>1, <1>7 DEF Shaking
  <2>3. k \in 1 .. 9 /\ (kind = "p2p" => k \in 1 .. 4) /\ LastFlight(kind) = (IF kind = "p2p" THEN 4 ELSE 9)
    BY DEF LastFlight
  <2>4. CASE Len(x.c.bio) < 2
    <3>1. x.c.status = "HANDSHAKE" => ~Finished(x.c) /\ Speaker(x.c.hs + 1) # e
      <4>1. x.c.hs = k - 1 /\ (k - 1) + 1 = k BY <2>2, <2>3, <1>1
      <4>2. ASSUME ~Secured(e, k - 1) PROVE k - 1 \notin {4, 9} BY <4>2, <1>3 DEF Secured
      <4>3. QED BY <4>1, <4>2, <2>1, <1>1 DEF Finished
    <3>2. QED BY <2>4, <3>1, InputNothing
  <2>5. CASE Len(x.c.bio) >= 2
    <3>1. CASE k \in {1, 2, 5, 6, 7} BY <3>1, <2>1, <2>5, <1>7, InputFlight
    <3>2. CASE k \in {3, 8}
      <4>1. e = "server" BY <3>2, <2>1, Ends DEF Speaker
      <4>2. QED BY <3>2, <4>1, <2>5, <1>7, InputEnds
    <3>3. CASE k \in {4, 9}
      <4>1. e = "client" BY <3>3, <2>1, Ends DEF Speaker
      <4>2. CASE k = LastFlight(kind) BY <4>1, <4>2, <2>5, <1>7, InputLast
      <4>3. CASE k # LastFlight(kind)
        <5>1. k = 4 /\ kind # "p2p" BY <3>3, <4>3, <2>3, <1>1
        <5>2. QED BY <4>1, <5>1, <2>5, <1>7, InputCalls
      <4>4. QED BY <4>2, <4>3
    <3>4. QED BY <3>1, <3>2, <3>3, <2>3
  <2>6. QED BY <2>4, <2>5, <1>1
<1>8. QED BY <1>4, <1>5, <1>6, <1>7, <1>10, <1>12, <1>14 DEF Phase, Exchange

LEMMA InputAsking ==
    ASSUME NEW e \in End, NEW v, NEW x, NEW rest, NEW y, NEW v2, Taken(e, v, x, rest, y, v2),
           Asking(kind, v), v[e].w # <<>>
    PROVE  Waits(kind, v2) \/ v2["server"].got = v["server"].got
<1>1. /\ v[e] \in Side /\ Len(x.c.bio) \in Nat
      /\ x.c.hs = v[e].c.hs /\ x.c.status = IF Secured(e, x.c.hs) THEN "SECURE" ELSE "HANDSHAKE"
  BY TakenMoves DEF Taken
<1>2. e = "server"
  <2>1. SUFFICES ASSUME e = "client" PROVE FALSE BY DEF End
  <2>2. OnLine(v[e].c, v[e].w, <<>>) /\ v[e].c \in Conn /\ v[e].w \in Seq(Record)
    BY <1>1, <2>1, Ends DEF Asking, Alone, Awaits, Side
  <2>3. QED BY <2>2, NoLine
<1>3. CASE Len(x.c.bio) >= 2 BY <1>2, <1>3, InputAsks
<1>4. CASE Len(x.c.bio) < 2
  <2>1. x.c.status = "SECURE" BY <1>1, <1>2 DEF Asking, Alone, Secured
  <2>2. Alike(v, v2) BY <1>4, <2>1, InputNothing DEF Asking, Phase, Exchange
  <2>3. QED BY <2>2 DEF Alike, End
<1>5. QED BY <1>1, <1>3, <1>4

-----------------------------------------------------------------------------
(* A frame is sent when the session is authenticated: under the last keys. *)
LEMMA FrameTurns ==
    ASSUME NEW x, Fit(x), x.c.status = "SECURE", x.c.hs = LastFlight(kind), Len(x.c.bio) <= 1,
           NEW m \in Later, NEW y, y = net_send_msg(x, m), NEW w, NEW Q, OnLine(x.c, w, Q)
    PROVE  /\ Turned(x, y, w, Q, <<>>, <<m>>, Bring(LastKeys(kind), <<m>>))
           /\ y.c.hs = x.c.hs /\ y.c.status = x.c.status /\ y.c.session = x.c.session
<1> DEFINE k == LastKeys(kind)
<1>1. x \in Work /\ m \in Msg /\ Finished(x.c) /\ Keys(x.c) = k /\ Ripe(x)
  BY DEF Fit, Ripe, Finished, Keys, LastFlight, LastKeys, Later, Msg
<1>2. x = [x EXCEPT !.c = x.c] /\ x.c = [x.c EXCEPT !.bio = x.c.bio]
  BY <1>1 DEF Work, Conn
<1>3. Took(x, x, w, Q) BY <1>1, <1>2 DEF Took
<1> DEFINE S == <<m>>
           A == <<>>
<1>4. Talked(x, y, A, S) BY <1>1, SendTalk
<1> HIDE DEF k, S, A
<1>5. Turned(x, y, w, Q, A, S, Bring(k, S)) /\ y.c.hs = x.c.hs /\ y.c.status = x.c.status
  BY <1>1, <1>3, <1>4, TookTalked
<1>6. y.c.session = x.c.session BY <1>1, SendWork
<1>7. QED BY <1>5, <1>6 DEF k, S, A

LEMMA LeadJoin ==
    ASSUME NEW j \in 1 .. 9, NEW B \in Seq(Record), NEW C \in Seq(Record)
    PROVE  Lead(j, B) \o C = Lead(j, B \o C)
<1> DEFINE F == <<Flight(j)>>
<1>1. F \in Seq(Record) /\ B \in Seq(Record) /\ C \in Seq(Record) BY FlightRecord
<1> HIDE DEF F
<1>2. (F \o B) \o C = F \o (B \o C) BY <1>1, ConcatAssociative
<1>3. QED BY <1>2 DEF Lead, F

Framed(e, v, x, w, m, y, v2) ==
  /\ v \in [End -> Side] /\ Quiet(e, v[e].c)
  /\ Fed(e, v, x, w) /\ y = net_send_msg(x, m) /\ Moves(e, v, y, w, v2)
  /\ kind \in {"switch", "prov", "p2p"} /\ m \in Later
  /\ x.c = v[e].c /\ x.c.session = "AUTHED"

LEMMA FrameTurned ==
    ASSUME NEW e \in End, NEW v, NEW x, NEW w, NEW m, NEW y, NEW v2, Framed(e, v, x, w, m, y, v2),
           NEW Q, NEW A \in Seq(Msg), NEW B \in Seq(Msg), NEW S \in Seq(Msg), NEW t \in Seq(Record),
           Turned(x, y, w, Q, A, S, t),
           NEW P, NEW R, Awaits(v, e, P, R), R = A \o B,
           NEW o, o = Other(e), NEW Qo \in Seq(Record), NEW Ro \in Seq(Msg), Awaits(v, o, Qo, Ro)
    PROVE  Awaits(v2, e, Q, B) /\ Awaits(v2, o, Qo \o t, Ro \o S)
<1>1. Fed(e, v, x, w) /\ Moves(e, v, y, w, v2) /\ v \in [End -> Side] BY DEF Framed
<1>2. QED BY <1>1, TurnedMoves, ZenonT(60)

LEMMA FrameCarries ==
    ASSUME NEW e \in End, NEW v, NEW x, NEW w, NEW m, NEW y, NEW v2, Framed(e, v, x, w, m, y, v2),
           Phase(kind, v)
    PROVE  Phase(kind, v2) /\ Quiet(e, y.c) /\ y.c.life = x.c.life
<1> DEFINE o == Other(e)
           K == LastKeys(kind)
           S == <<m>>
           t == Bring(K, S)
<1>0. S \in Talk BY DEF Talk, Framed
<1>1. /\ o \in End /\ Fit(x) /\ e \in {"client", "server"} /\ K \in 0 .. 2
      /\ S \in Talk /\ S \in Seq(Msg) /\ Len(x.c.bio) <= 1
      /\ x.c.status = IF Secured(e, x.c.hs) THEN "SECURE" ELSE "HANDSHAKE"
      /\ v2[e].c = y.c /\ v2[o].c = v[o].c
  <2>1. S \in Seq(Msg)
    <3> HIDE DEF S
    <3>1. QED BY <1>0, TalkIsSeq
  <2>2. o \in End /\ Fit(x) /\ e \in {"client", "server"} /\ K \in 0 .. 2
    BY Ends DEF Framed, Fed, LastKeys, End
  <2>3. /\ Len(x.c.bio) <= 1
        /\ x.c.status = IF Secured(e, x.c.hs) THEN "SECURE" ELSE "HANDSHAKE"
    BY DEF Framed, Quiet
  <2>4. v2[e].c = y.c /\ v2[o].c = v[o].c BY DEF Framed, Moves
  <2>5. QED BY <1>0, <2>1, <2>2, <2>3, <2>4
<1>c. x.c = v[e].c /\ x.c.session = "AUTHED" BY DEF Framed
<1>2. t \in Seq(Record)
  <2> HIDE DEF K, S
  <2>1. QED BY <1>1, BringSeq
<1>3. Secured(e, LastFlight(kind)) /\ LastFlight(kind) \in {4, 9}
  BY DEF Secured, LastFlight
<1>4. ASSUME x.c.hs = LastFlight(kind), NEW Q, NEW R \in Talk, Awaits(v, e, Q, R),
             NEW Qo \in Seq(Record), NEW Ro \in Talk, Awaits(v, o, Qo, Ro)
      PROVE  /\ Awaits(v2, e, Q, R) /\ Awaits(v2, o, Qo \o t, Ro \o S)
             /\ y.c.hs = LastFlight(kind) /\ y.c.session = x.c.session
             /\ Quiet(e, y.c) /\ y.c.life = x.c.life
  <2> DEFINE N == <<>>
  <2>1. OnLine(x.c, w, Q) /\ x.c.status = "SECURE"
    BY <1>1, <1>3, <1>4 DEF Awaits, Framed, Fed
  <2>2. /\ Turned(x, y, w, Q, N, S, t)
        /\ y.c.hs = x.c.hs /\ y.c.status = x.c.status /\ y.c.session = x.c.session
    BY <1>1, <1>4, <2>1, FrameTurns DEF Framed
  <2>3. /\ N \in Seq(Msg) /\ R \in Seq(Msg) /\ R = N \o R /\ Ro \in Seq(Msg)
    BY EmptySeq, TalkIsSeq, ConcatEmptySeq
  <2>4. Awaits(v2, e, Q, R) /\ Awaits(v2, o, Qo \o t, Ro \o S)
    <3>1. /\ o = Other(e) /\ t \in Seq(Record) /\ S \in Seq(Msg)
          /\ Turned(x, y, w, Q, N, S, t) /\ Awaits(v, e, Q, R) /\ Awaits(v, o, Qo, Ro)
          /\ N \in Seq(Msg) /\ R \in Seq(Msg) /\ R = N \o R /\ Ro \in Seq(Msg)
          /\ Qo \in Seq(Record)
      BY <1>1, <1>2, <1>4, <2>2, <2>3
    <3> HIDE DEF N, S, t, o
    <3>2. QED BY <3>1, FrameTurned, ZenonT(60)
  <2>5. Quiet(e, y.c) /\ y.c.life = x.c.life
    <3>1. y.c.status = IF Secured(e, y.c.hs) THEN "SECURE" ELSE "HANDSHAKE" BY <2>2, <1>1
    <3>2. QED BY <2>2, <3>1 DEF Turned, Quiet
  <2>6. QED BY <2>2, <2>4, <2>5, <1>4
<1>5. ASSUME NEW k, Silent(k, v) PROVE FALSE BY <1>1, <1>5 DEF Silent, Framed
<1>6. ASSUME NEW R \in Talk
      PROVE  Bring(K, R \o S) = Bring(K, R) \o t /\ Bring(K, R) \in Seq(Record) /\ R \o S \in Talk
  <2>1. R \in Seq(Msg) /\ R \o S \in Talk BY <1>1, TalkIsSeq, TalkJoin
  <2> HIDE DEF K, S
  <2>2. QED BY <1>1, <2>1, BringSeq, BringJoin
<1>7. CASE Talking(kind, v)
  <2>1. Talks(kind, v, e) /\ Talks(kind, v, o) BY <1>1, <1>7 DEF Talking
  <2>2. PICK R \in Talk : Awaits(v, e, Bring(K, R), R) BY <2>1 DEF Talks
  <2>3. PICK Ro \in Talk : Awaits(v, o, Bring(K, Ro), Ro) BY <2>1 DEF Talks
  <2>4. x.c.hs = LastFlight(kind) /\ v[o].c.hs = LastFlight(kind) BY <2>1, <1>c DEF Talks
  <2>5. /\ Awaits(v2, e, Bring(K, R), R) /\ Awaits(v2, o, Bring(K, Ro) \o t, Ro \o S)
        /\ y.c.hs = LastFlight(kind) /\ Quiet(e, y.c) /\ y.c.life = x.c.life
    <3> DEFINE Q == Bring(K, R)
               Qo == Bring(K, Ro)
    <3>1. Qo \in Seq(Record) BY <1>6
    <3> HIDE DEF Q, Qo, t, S, o
    <3>2. Awaits(v, e, Q, R) /\ Awaits(v, o, Qo, Ro) BY <2>2, <2>3 DEF Q, Qo
    <3>3. /\ Awaits(v2, e, Q, R) /\ Awaits(v2, o, Qo \o t, Ro \o S)
          /\ y.c.hs = LastFlight(kind) /\ Quiet(e, y.c) /\ y.c.life = x.c.life
      BY <2>4, <3>1, <3>2, <1>4
    <3>4. QED BY <3>3 DEF Q, Qo
  <2>6. Awaits(v2, o, Bring(K, Ro \o S), Ro \o S) /\ Ro \o S \in Talk BY <2>5, <1>6
  <2>7. Talks(kind, v2, e) /\ Talks(kind, v2, o) BY <2>4, <2>5, <2>6, <1>1 DEF Talks
  <2>8. \A f \in End : f = e \/ f = o BY Ends
  <2> HIDE DEF o
  <2>9. Talking(kind, v2) BY <2>7, <2>8 DEF Talking
  <2>10. QED BY <2>5, <2>9 DEF Phase
<1>8. ASSUME NEW k \in 1 .. LastFlight(kind), Shaking(kind, k, v)
      PROVE  Phase(kind, v2) /\ Quiet(e, y.c) /\ y.c.life = x.c.life
  <2>1. k = LastFlight(kind)
    <3>1. ~(k < LastFlight(kind)) BY <1>5, <1>8 DEF Shaking
    <3>2. QED BY <3>1, <1>3
  <2>2. Speaker(k) = "server" /\ e = "server" /\ o = "client" /\ Other("server") = "client" /\ k \in 1 .. 9
    <3>1. e # "client" BY <1>8, <1>c DEF Shaking
    <3>2. QED BY <3>1, <2>1, <1>1, <1>3, Ends DEF Speaker
  <2>3. /\ v[e].c.hs = k /\ v[o].c.hs = k - 1 /\ v["client"].c.session = "NOT_AUTHED"
        /\ Awaits(v, e, <<>>, <<>>)
        /\ \E R \in Talk : Awaits(v, o, Lead(k, Bring(K, R)), R)
    BY <1>8, <2>2 DEF Shaking
  <2>4. PICK R \in Talk : Awaits(v, o, Lead(k, Bring(K, R)), R) BY <2>3
  <2>5. /\ Awaits(v2, e, <<>>, <<>>) /\ Awaits(v2, o, Lead(k, Bring(K, R)) \o t, R \o S)
        /\ y.c.hs = LastFlight(kind) /\ Quiet(e, y.c) /\ y.c.life = x.c.life
    <3> DEFINE N == <<>>
               Qo == Lead(k, Bring(K, R))
    <3>1. Bring(K, R) \in Seq(Record) /\ N \in Talk BY <1>6, NoTalk
    <3>2. Qo \in Seq(Record)
      <4> HIDE DEF K
      <4>1. QED BY <3>1, <2>2, LeadSeq
    <3> HIDE DEF N, Qo, t, S, o
    <3>3. Awaits(v, e, N, N) /\ Awaits(v, o, Qo, R) /\ x.c.hs = LastFlight(kind)
      BY <2>1, <2>3, <2>4, <1>c DEF N, Qo
    <3>4. /\ Awaits(v2, e, N, N) /\ Awaits(v2, o, Qo \o t, R \o S)
          /\ y.c.hs = LastFlight(kind) /\ Quiet(e, y.c) /\ y.c.life = x.c.life
      BY <3>1, <3>2, <3>3, <1>4
    <3>5. QED BY <3>4 DEF N, Qo
  <2>6. Awaits(v2, o, Lead(k, Bring(K, R \o S)), R \o S) /\ R \o S \in Talk
    <3>1. Bring(K, R \o S) = Bring(K, R) \o t /\ Bring(K, R) \in Seq(Record) /\ R \o S \in Talk
      BY <1>6
    <3> DEFINE b == Bring(K, R)
    <3>2. b \in Seq(Record) BY <3>1
    <3> HIDE DEF b, t
    <3>3. Lead(k, b) \o t = Lead(k, b \o t) BY <3>2, <2>2, <1>2, LeadJoin
    <3>4. QED BY <2>5, <3>1, <3>3 DEF b
  <2>7. v2["client"].c.session = "NOT_AUTHED" BY <1>1, <2>2, <2>3
  <2>8. \E C \in Talk : /\ Awaits(v2, o, Lead(k, Bring(LastKeys(kind), C)), C)
                        /\ k < LastFlight(kind) => C = <<>>
    BY <2>1, <2>6, <1>3
  <2>9. v2[e].c.hs = k /\ v2[o].c.hs = k - 1 BY <1>1, <2>1, <2>3, <2>5
  <2>10. ~(k < LastFlight(kind)) BY <2>1, <1>3
  <2> HIDE DEF o, K
  <2>11. Shaking(kind, k, v2) BY <2>2, <2>5, <2>7, <2>8, <2>9, <2>10 DEF Shaking
  <2>12. QED BY <2>5, <2>11 DEF Phase
<1>9. QED
  BY <1>5, <1>7, <1>8 DEF Phase, Exchange, Asking, Waits, Granted, Called, Alone, Answered

(* The passport is sent, which the agent waits for. *)
LEMMA GrantMoves ==
    ASSUME NEW v \in [End -> Side], Quiet("server", v["server"].c), Waits(kind, v),
           NEW x, NEW w, Fed("server", v, x, w), x.c = v["server"].c,
           NEW y, y = net_send_msg(x, Control("provResponse")),
           NEW v2, Moves("server", v, y, w, v2)
    PROVE  /\ Granted(kind, v2) /\ Quiet("server", y.c) /\ y.c.life = x.c.life
           /\ y.sent = x.sent \o Grant /\ y.got = x.got
<1> DEFINE e == "server"
           o == "client"
           m == Control("provResponse")
           N == <<>>
           t == Bring(1, Grant)
<1>1. e \in End /\ o = Other(e) /\ e = Other(o) /\ o \in End /\ kind = "prov"
  BY Ends DEF End, Waits
<1>2. /\ v[o].c.hs = 4 /\ v[e].c.hs = 4 /\ Silent(4, v)
      /\ Awaits(v, o, N, N) /\ Awaits(v, e, N, N)
  BY <1>1, BringNone DEF Waits, Alone
<1>3. x \in Work /\ x.c.out = N /\ x.c.enc = N /\ Len(x.c.bio) <= 1 /\ x.c.hs = 4
      /\ x.c.status = "SECURE"
  BY <1>2 DEF Fed, Fit, Quiet, Secured
<1>4. m \in Msg /\ Grant = <<m>> /\ Grant \in Seq(Msg) /\ t \in Seq(Record) /\ y = net_send_msg(x, m)
  BY ControlMsg, AuthIsSeq DEF Grant, Lone
<1> HIDE DEF m
<1>5. /\ y \in Work /\ y.c = x.c /\ y.got = x.got
      /\ y.sent = x.sent \o <<m>> /\ y.tx = x.tx \o Bring(1, <<m>>)
  BY <1>3, <1>4, SendAnonymous
<1>6. OnLine(x.c, w, N) BY <1>2 DEF Awaits, Fed
<1>7. x.got \o N = x.got /\ N \in Seq(Msg) /\ N \in Seq(Record) /\ N \o N = N /\ N \o Grant = Grant
  BY <1>3, <1>4, EmptySeq, ConcatEmptySeq, AddNothing DEF Work
<1>8. Turned(x, y, w, N, N, Grant, t) BY <1>3, <1>4, <1>5, <1>6, <1>7 DEF Turned
<1>9. N \o t = t
  <2> HIDE DEF t
  <2>1. QED BY <1>4, NoTx
<1>10. Awaits(v2, e, N, N) /\ Awaits(v2, o, t, Grant)
  <2> DEFINE S == Grant
  <2>1. /\ Turned(x, y, w, N, N, S, t) /\ Awaits(v, e, N, N) /\ N = N \o N
        /\ o = Other(e) /\ Awaits(v, o, N, N) /\ N \in Seq(Msg) /\ N \in Seq(Record)
        /\ t \in Seq(Record) /\ S \in Seq(Msg) /\ e \in End /\ Fed(e, v, x, w)
        /\ Moves(e, v, y, w, v2)
    BY <1>1, <1>2, <1>4, <1>7, <1>8
  <2> HIDE DEF N, t, o, e, S
  <2>2. Awaits(v2, e, N, N) /\ Awaits(v2, o, N \o t, N \o S)
    BY <2>1, TurnedMoves, ZenonT(60)
  <2>3. QED BY <2>2, <1>7, <1>9 DEF S
<1>11. v2[e].c = v[e].c /\ v2[o].c = v[o].c BY <1>1, <1>5 DEF Moves
<1>12. Alone(v2, "client", Grant) BY <1>1, <1>2, <1>10, <1>11 DEF Alone, Silent
<1>13. QED BY <1>1, <1>4, <1>5, <1>12 DEF Granted

-----------------------------------------------------------------------------
(* What all phases have in common.                                         *)

Shape(kd, Q, R) ==
  \/ Q = <<>> /\ R = <<>>
  \/ R \in Talk /\ \E k \in 1 .. 9 : Q = Lead(k, Bring(LastKeys(kd), R))
  \/ R \in Talk /\ Q = Bring(LastKeys(kd), R)
  \/ R \in {Auth, Ask, Grant} /\ Q = Bring(1, R)
  \/ R = StepUp /\ Q = Bring(1, StepUp) \o <<Flight(5)>>

(* A request for a passport is under way in one phase only. *)
Asks(R) == Control("provRequest") \in Range(R)
Due(kd, v, e, Q, R) ==
  Awaits(v, e, Q, R) /\ Shape(kd, Q, R) /\ (e = "server" /\ Asks(R) => Asking(kd, v))

LEMMA Unasked == \A R \in Talk \cup {<<>>, Auth, StepUp, Grant} : ~Asks(R)
<1>1. ASSUME NEW R \in Talk PROVE ~Asks(R)
  <2>1. \A i \in DOMAIN R : R[i] \in Later BY DEF Talk
  <2>2. Control("provRequest") \notin Later BY DEF Control, Message, Later
  <2>3. QED BY <2>1, <2>2 DEF Asks, Range
<1>2. \A M : Lone(M) /\ M[1] # Control("provRequest") => ~Asks(M)
  <2>1. \A M : Lone(M) => DOMAIN M = {1} BY DEF Lone
  <2>2. QED BY <2>1 DEF Asks, Range
<1>3. /\ Control("auth") # Control("provRequest") /\ Control("secureStepUp") # Control("provRequest")
      /\ Control("provResponse") # Control("provRequest")
  BY DEF Control, Message
<1>4. QED BY <1>1, <1>2, <1>3, NoTalk, AuthIsSeq

LEMMA PhaseShape ==
    ASSUME NEW kd, NEW v, Phase(kd, v), NEW e \in End
    PROVE  \E Q, R : Due(kd, v, e, Q, R)
<1>1. e = "client" \/ e = "server" BY DEF End
<1>2. ASSUME Awaits(v, e, <<>>, <<>>) PROVE \E Q, R : Due(kd, v, e, Q, R)
  BY <1>2, Unasked DEF Due, Shape
<1>3. ASSUME NEW f \in End, NEW M, Alone(v, f, M), M \in {Auth, Ask, Grant, <<>>},
             M = Ask => Asking(kd, v)
      PROVE  \E Q, R : Due(kd, v, e, Q, R)
  <2>1. CASE e = f
    <3>1. Awaits(v, e, Bring(1, M), M) BY <2>1, <1>3 DEF Alone
    <3>2. Shape(kd, Bring(1, M), M) BY <1>3, BringNone DEF Shape
    <3>3. QED BY <3>1, <3>2, <1>3, Unasked DEF Due
  <2>2. CASE e # f BY <2>2, <1>2, <1>3, Ends DEF Alone
  <2>3. QED BY <2>1, <2>2
<1>8. CASE Exchange(kd, v)
  <2>1. "client" \in End /\ "server" \in End BY DEF End
  <2>2. \E f \in End, M \in {Auth, Ask, Grant, <<>>} :
          Alone(v, f, M) /\ (M = Ask => Asking(kd, v))
    <3>1. Ask \notin {<<>>, Auth, Grant}
      <4>1. /\ Control("auth") # Control("provRequest")
            /\ Control("provResponse") # Control("provRequest")
        BY DEF Control, Message
      <4>2. QED BY <4>1, AuthIsSeq DEF Lone
    <3>2. QED BY <2>1, <3>1, <1>8 DEF Exchange, Asking, Waits, Granted, Called
  <2>3. QED BY <2>2, <1>3
<1>4. CASE Answered(kd, v)
  <2>1. CASE e = "server" BY <2>1, <1>2, <1>4 DEF Answered
  <2>2. CASE e = "client"
    <3>1. Awaits(v, e, Bring(1, StepUp) \o <<Flight(5)>>, StepUp)
      BY <2>2, <1>4 DEF Answered
    <3>2. Shape(kd, Bring(1, StepUp) \o <<Flight(5)>>, StepUp) BY DEF Shape
    <3>3. QED BY <3>1, <3>2, Unasked DEF Due
  <2>3. QED BY <2>1, <2>2, <1>1
<1>5. CASE Talking(kd, v)
  <2>1. PICK R \in Talk : Awaits(v, e, Bring(LastKeys(kd), R), R)
    BY <1>5 DEF Talking, Talks
  <2>2. Shape(kd, Bring(LastKeys(kd), R), R) BY DEF Shape
  <2>3. QED BY <2>1, <2>2, Unasked DEF Due
<1>6. ASSUME NEW k \in 1 .. LastFlight(kd), Shaking(kd, k, v)
      PROVE  \E Q, R : Due(kd, v, e, Q, R)
  <2>1. CASE e = Speaker(k) BY <2>1, <1>2, <1>6 DEF Shaking
  <2>2. CASE e # Speaker(k)
    <3>1. e = Other(Speaker(k)) BY <2>2, Ends
    <3>2. PICK R \in Talk : Awaits(v, e, Lead(k, Bring(LastKeys(kd), R)), R)
      BY <3>1, <1>6 DEF Shaking
    <3>3. k \in 1 .. 9 BY DEF LastFlight
    <3>4. Shape(kd, Lead(k, Bring(LastKeys(kd), R)), R) BY <3>3 DEF Shape
    <3>5. QED BY <3>2, <3>4, Unasked DEF Due
  <2>3. QED BY <2>1, <2>2
<1>7. QED BY <1>4, <1>5, <1>6, <1>8 DEF Phase

(* The messages that are on their way to an end come in their order. *)
Lined(v, e) ==
  \E Q, R : /\ R \in Seq(Msg) /\ Arranged(Q, R) /\ OnLine(v[e].c, v[e].w, Q)
            /\ IsPrefix(v[e].got \o R, v[Other(e)].sent)

LEMMA ShapeArranged ==
    ASSUME NEW kd, NEW Q, NEW R, Shape(kd, Q, R)
    PROVE  R \in Seq(Msg) /\ Arranged(Q, R) /\ Q \in Seq(Record)
<1>1. LastKeys(kd) \in 1 .. 2 /\ LastKeys(kd) \in 0 .. 2 /\ 1 \in 1 .. 2 /\ 1 \in 0 .. 2 /\ <<>> \in Tails
  BY DEF LastKeys, Tails
<1>2. ASSUME NEW k \in 1 .. 2, k \in 0 .. 2, R \in Seq(Msg), Q = Bring(k, R)
      PROVE  Arranged(Q, R)
  <2>1. Q = Bring(k, R) \o <<>> BY <1>2, BringNoTail
  <2>2. QED BY <1>1, <2>1 DEF Arranged
<1>3. R \in Seq(Msg) /\ Arranged(Q, R)
  <2>1. CASE Q = <<>> /\ R = <<>>
    <3>1. R \in Seq(Msg) /\ Q = Bring(1, R) BY <2>1, EmptySeq, BringNone
    <3>2. QED BY <3>1, <1>1, <1>2
  <2>2. CASE R \in Talk /\ \E k \in 1 .. 9 : Q = Lead(k, Bring(LastKeys(kd), R))
    BY <2>2, <1>1, TalkIsSeq DEF Arranged
  <2>3. CASE R \in Talk /\ Q = Bring(LastKeys(kd), R)
    <3>1. R \in Seq(Msg) BY <2>3, TalkIsSeq
    <3>2. QED BY <2>3, <3>1, <1>1, <1>2
  <2>4. CASE R \in {Auth, Ask, Grant} /\ Q = Bring(1, R)
    <3>1. R \in Seq(Msg) /\ Q = Bring(1, R) BY <2>4, AuthIsSeq DEF Lone
    <3>2. QED BY <3>1, <1>1, <1>2
  <2>5. CASE R = StepUp /\ Q = Bring(1, StepUp) \o <<Flight(5)>>
    <3>1. <<Flight(5)>> \in Tails /\ R \in Seq(Msg) BY <2>5, AuthIsSeq DEF Tails, Lone
    <3>2. QED BY <3>1, <2>5, <1>1 DEF Arranged
  <2>6. QED BY <2>1, <2>2, <2>3, <2>4, <2>5 DEF Shape
<1>4. QED BY <1>3, ArrangedSeq

LEMMA PhaseLined ==
    ASSUME NEW kd, NEW v \in [End -> Side], Phase(kd, v), NEW e \in End
    PROVE  Lined(v, e)
<1>1. PICK Q, R : Awaits(v, e, Q, R) /\ Shape(kd, Q, R) BY PhaseShape DEF Due
<1>2. R \in Seq(Msg) /\ Arranged(Q, R) BY <1>1, ShapeArranged
<1>3. v[Other(e)].sent = v[e].got \o R /\ OnLine(v[e].c, v[e].w, Q) BY <1>1 DEF Awaits
<1>4. v[Other(e)].sent \in Seq(Msg) BY Ends DEF Side
<1>5. IsPrefix(v[e].got \o R, v[Other(e)].sent)
  <2>1. IsPrefix(v[Other(e)].sent, v[Other(e)].sent) BY <1>4, PrefixSelf
  <2>2. QED BY <1>3, <2>1
<1>6. QED BY <1>2, <1>3, <1>5 DEF Lined

(* Nothing on the stream, and less than a record in the BIO: nothing is due. *)
LEMMA ShapeEmpty ==
    ASSUME NEW kd, NEW Q, NEW R, Shape(kd, Q, R), NEW c \in Conn, OnLine(c, <<>>, Q),
           Len(c.bio) <= 1
    PROVE  c.bio = <<>> /\ R = <<>>
<1>1. Q \in Seq(Record) /\ R \in Seq(Msg) BY ShapeArranged
<1>2. c.bio \in Seq(Record) /\ Len(c.bio) \in Nat /\ Len(Q) \in Nat
  BY <1>1, LenProperties DEF Conn
<1>3. c.bio = Units(Q)
  <2>1. c.bio \o <<>> = c.bio BY <1>2, ConcatEmptySeq
  <2>2. QED BY <2>1 DEF OnLine
<1>4. Len(c.bio) = 2 * Len(Q) BY <1>1, <1>3, UnitsSeq
<1>5. Len(Q) = 0 /\ Len(c.bio) = 0 BY <1>2, <1>4
<1>6. Q = <<>> /\ c.bio = <<>> BY <1>1, <1>2, <1>5, EmptySeq
<1>7. ASSUME NEW j \in 1 .. 9, NEW B \in Seq(Record) PROVE Lead(j, B) # <<>>
  <2> DEFINE F == <<Flight(j)>>
  <2>1. F \in Seq(Record) /\ Len(F) = 1 BY FlightRecord
  <2> HIDE DEF F
  <2>2. Len(F \o B) = 1 + Len(B) /\ Len(B) \in Nat
    BY <2>1, ConcatProperties, LenProperties
  <2>3. Len(F \o B) # 0 BY <2>2
  <2>4. F \o B # <<>> BY <2>3
  <2>5. QED BY <2>4 DEF Lead, F
<1>8. ASSUME NEW k \in 0 .. 2, Bring(k, R) = <<>> PROVE R = <<>>
  <2>1. Len(R) = 0 BY <1>1, <1>8, BringSeq
  <2>2. QED BY <1>1, <2>1, EmptySeq
<1>9. LastKeys(kd) \in 0 .. 2 /\ 1 \in 0 .. 2 BY DEF LastKeys
<1>10. ~(\E k \in 1 .. 9 : Q = Lead(k, Bring(LastKeys(kd), R)))
  <2>1. Bring(LastKeys(kd), R) \in Seq(Record)
    <3> DEFINE k == LastKeys(kd)
    <3> HIDE DEF k
    <3>1. k \in 0 .. 2 BY <1>9 DEF k
    <3>2. Bring(k, R) \in Seq(Record) BY <1>1, <3>1, BringSeq
    <3>3. QED BY <3>2 DEF k
  <2>2. QED BY <2>1, <1>6, <1>7
<1>11. Q # Bring(1, StepUp) \o <<Flight(5)>>
  <2> DEFINE p == Bring(1, StepUp)
             F == <<Flight(5)>>
  <2>1. p \in Seq(Record) /\ F \in Seq(Record) /\ Len(F) = 1
    BY AuthIsSeq, FlightRecord DEF Lone
  <2> HIDE DEF p, F
  <2>2. Len(p \o F) = Len(p) + 1 /\ Len(p) \in Nat
    BY <2>1, ConcatProperties, LenProperties
  <2>3. Len(p \o F) # 0 BY <2>2
  <2>4. p \o F # <<>> BY <2>3
  <2>5. QED BY <2>4, <1>6 DEF p, F
<1>12. QED BY <1>6, <1>8, <1>9, <1>10, <1>11 DEF Shape

(* What may travel under the anonymous keys, and under no others. *)
Proper ==
  {r \in Record : \A i \in DOMAIN r.msgs : r.keys = 1 <=> r.msgs[i].op \in Anonymous}

LEMMA ShapeProper ==
    ASSUME NEW kd, NEW Q, NEW R, Shape(kd, Q, R), kd # "p2p"
    PROVE  Q \in Seq(Proper)
<1>1. Proper \subseteq Record /\ LastKeys(kd) = 2 BY DEF Proper, LastKeys
<1>2. \A j \in 0 .. 9 : Flight(j) \in Proper
  <2> SUFFICES ASSUME NEW j \in 0 .. 9 PROVE Flight(j) \in Proper
    OBVIOUS
  <2>1. Flight(j) \in Record BY FlightRecord
  <2>2. DOMAIN Flight(j).msgs = {} BY DEF Flight
  <2>3. QED BY <2>1, <2>2 DEF Proper
<1>3. ASSUME NEW k \in {1, 2}, NEW msgs \in Seq(Msg),
             \A i \in 1 .. Len(msgs) : k = 1 <=> msgs[i].op \in Anonymous
      PROVE  Bring(k, msgs) \in Seq(Proper)
  <2> DEFINE b == Bring(k, msgs)
  <2>1. /\ b \in Seq(Record) /\ Len(b) = Len(msgs)
        /\ \A i \in 1 .. Len(msgs) : b[i] = [flight |-> 0, keys |-> k, msgs |-> <<msgs[i]>>]
    BY BringSeq
  <2>2. ASSUME NEW i \in 1 .. Len(msgs) PROVE b[i] \in Proper
    <3> DEFINE m == msgs[i]
               r == [flight |-> 0, keys |-> k, msgs |-> <<m>>]
    <3>1. b[i] = r /\ (k = 1 <=> m.op \in Anonymous) BY <2>1, <1>3
    <3>2. r \in Record
      <4> HIDE DEF b
      <4>1. b[i] \in Record BY <2>1, ElementOfSeq
      <4>2. QED BY <3>1, <4>1
    <3> HIDE DEF m
    <3>3. r.keys = k /\ DOMAIN r.msgs = {1} /\ r.msgs[1] = m OBVIOUS
    <3>4. \A h \in DOMAIN r.msgs : r.keys = 1 <=> r.msgs[h].op \in Anonymous BY <3>1, <3>3
    <3> HIDE DEF r, b
    <3>5. QED BY <3>1, <3>2, <3>4 DEF Proper
  <2> HIDE DEF b
  <2>3. b \in [1 .. Len(b) -> Proper] /\ Len(b) \in Nat
    <3>1. b \in [1 .. Len(b) -> Record] /\ Len(b) \in Nat BY <2>1, LenProperties
    <3>2. QED BY <2>1, <2>2, <3>1
  <2>4. b \in Seq(Proper) BY <2>3, FunctionIsSeq
  <2>5. QED BY <2>4 DEF b
<1>4. ASSUME R \in Talk PROVE Bring(LastKeys(kd), R) \in Seq(Proper)
  <2>1. R \in Seq(Msg) BY <1>4, TalkIsSeq
  <2>2. \A i \in 1 .. Len(R) : R[i] \in Later BY <1>4, ElementOfSeq DEF Talk
  <2>3. \A i \in 1 .. Len(R) : R[i].op \notin Anonymous BY <2>2 DEF Later, Anonymous
  <2> DEFINE k == 2
  <2>4. k \in {1, 2} /\ (\A i \in 1 .. Len(R) : k = 1 <=> R[i].op \in Anonymous) BY <2>3
  <2> HIDE DEF k
  <2>5. Bring(k, R) \in Seq(Proper) BY <2>1, <2>4, <1>3
  <2>6. QED BY <2>5, <1>1 DEF k
<1>5. \A M \in {Auth, StepUp, Ask, Grant} : Bring(1, M) \in Seq(Proper)
  <2> SUFFICES ASSUME NEW M \in {Auth, StepUp, Ask, Grant} PROVE Bring(1, M) \in Seq(Proper)
    OBVIOUS
  <2> DEFINE k == 1
  <2>1. M[1].op \in Anonymous BY AuthIsSeq, ControlMsg DEF Anonymous
  <2>2. M \in Seq(Msg) /\ Len(M) = 1 BY AuthIsSeq DEF Lone
  <2>3. k \in {1, 2} /\ (\A i \in 1 .. Len(M) : k = 1 <=> M[i].op \in Anonymous)
    BY <2>1, <2>2
  <2> HIDE DEF k
  <2>4. Bring(k, M) \in Seq(Proper) BY <2>2, <2>3, <1>3
  <2>5. QED BY <2>4 DEF k
<1>6. \A j \in 0 .. 9 : <<Flight(j)>> \in Seq(Proper) BY <1>2
<1>7. ASSUME NEW a \in Seq(Proper), NEW b \in Seq(Proper) PROVE a \o b \in Seq(Proper)
  BY ConcatProperties
<1>8. ASSUME R \in Talk, NEW k \in 1 .. 9 PROVE Lead(k, Bring(LastKeys(kd), R)) \in Seq(Proper)
  <2> DEFINE a == <<Flight(k)>>
             b == Bring(LastKeys(kd), R)
  <2>1. a \in Seq(Proper) /\ b \in Seq(Proper) BY <1>4, <1>6, <1>8
  <2> HIDE DEF a, b
  <2>2. a \o b \in Seq(Proper) BY <2>1, <1>7
  <2>3. QED BY <2>2 DEF a, b, Lead
<1>9. Bring(1, StepUp) \o <<Flight(5)>> \in Seq(Proper)
  <2> DEFINE a == Bring(1, StepUp)
             b == <<Flight(5)>>
  <2>1. a \in Seq(Proper) /\ b \in Seq(Proper) BY <1>5, <1>6
  <2> HIDE DEF a, b
  <2>2. a \o b \in Seq(Proper) BY <2>1, <1>7
  <2>3. QED BY <2>2 DEF a, b
<1>10. <<>> \in Seq(Proper) BY EmptySeq
<1>11. QED BY <1>4, <1>5, <1>8, <1>9, <1>10 DEF Shape

(* What is on a line is what waits for the end. *)
LEMMA LineProper ==
    ASSUME NEW c \in Conn, NEW w \in Seq(Record), NEW Q \in Seq(Record), Q \in Seq(Proper), OnLine(c, w, Q)
    PROVE  c.bio \in Seq(Proper) /\ w \in Seq(Proper)
<1> DEFINE b == c.bio
           u == Units(Q)
<1>1. b \in Seq(Record) /\ b \o w = u BY DEF Conn, OnLine
<1>2. /\ u \in Seq(Record) /\ Len(u) = 2 * Len(Q) /\ Len(Q) \in Nat
      /\ \A i \in 1 .. 2 * Len(Q) : u[i] = Q[(i + 1) \div 2]
  BY UnitsSeq, LenProperties
<1> HIDE DEF u
<1>3. \A i \in 1 .. Len(u) : u[i] \in Proper
  <2> SUFFICES ASSUME NEW i \in 1 .. Len(u) PROVE u[i] \in Proper
    OBVIOUS
  <2> DEFINE h == (i + 1) \div 2
  <2>1. h \in 1 .. Len(Q) /\ u[i] = Q[h] BY <1>2
  <2> HIDE DEF h
  <2>2. Q[h] \in Proper BY <2>1, ElementOfSeq
  <2>3. QED BY <2>1, <2>2
<1> HIDE DEF b
<1>4. /\ Len(b) \in Nat /\ Len(w) \in Nat /\ Len(u) = Len(b) + Len(w)
      /\ \A i \in 1 .. Len(b) + Len(w) : u[i] = IF i <= Len(b) THEN b[i] ELSE w[i - Len(b)]
  <2>1. /\ Len(b \o w) = Len(b) + Len(w) /\ Len(b) \in Nat /\ Len(w) \in Nat
        /\ \A i \in 1 .. Len(b) + Len(w) : (b \o w)[i] = IF i <= Len(b) THEN b[i] ELSE w[i - Len(b)]
    BY <1>1, ConcatProperties, LenProperties
  <2>2. QED BY <2>1, <1>1
<1>5. \A i \in 1 .. Len(b) : b[i] \in Proper
  <2> SUFFICES ASSUME NEW i \in 1 .. Len(b) PROVE b[i] \in Proper
    OBVIOUS
  <2>1. i \in 1 .. Len(u) /\ i \in 1 .. Len(b) + Len(w) /\ i <= Len(b) BY <1>4
  <2>2. u[i] = b[i] BY <2>1, <1>4
  <2>3. QED BY <2>1, <2>2, <1>3
<1>6. \A i \in 1 .. Len(w) : w[i] \in Proper
  <2> SUFFICES ASSUME NEW i \in 1 .. Len(w) PROVE w[i] \in Proper
    OBVIOUS
  <2> DEFINE h == Len(b) + i
  <2>1. h \in 1 .. Len(u) /\ h \in 1 .. Len(b) + Len(w) /\ ~(h <= Len(b)) /\ h - Len(b) = i
    BY <1>4
  <2> HIDE DEF h
  <2>2. u[h] = w[i] BY <2>1, <1>4
  <2>3. QED BY <2>1, <2>2, <1>3
<1>7. ASSUME NEW s \in Seq(Record), \A i \in 1 .. Len(s) : s[i] \in Proper PROVE s \in Seq(Proper)
  <2>1. s \in [1 .. Len(s) -> Record] /\ Len(s) \in Nat BY LenProperties
  <2>2. s \in [1 .. Len(s) -> Proper] BY <2>1, <1>7
  <2>3. QED BY <2>1, <2>2, FunctionIsSeq
<1>8. QED BY <1>1, <1>5, <1>6, <1>7 DEF b

Certified(v) == \A e \in End : v[e].c.bio \in Seq(Proper) /\ v[e].w \in Seq(Proper)

LEMMA PhaseCertified ==
    ASSUME NEW kd, NEW v \in [End -> Side], Phase(kd, v), kd # "p2p"
    PROVE  Certified(v)
<1> SUFFICES ASSUME NEW e \in End PROVE v[e].c.bio \in Seq(Proper) /\ v[e].w \in Seq(Proper)
  BY DEF Certified
<1>1. PICK Q, R : Awaits(v, e, Q, R) /\ Shape(kd, Q, R) BY PhaseShape DEF Due
<1>2. Q \in Seq(Record) /\ Q \in Seq(Proper) BY <1>1, ShapeArranged, ShapeProper
<1>3. v[e].c \in Conn /\ v[e].w \in Seq(Record) /\ OnLine(v[e].c, v[e].w, Q)
  BY <1>1 DEF Awaits, Side
<1>4. QED BY <1>2, <1>3, LineProper

-----------------------------------------------------------------------------
(* The invariant of a connection, on what is seen of it: before the client  *)
(* says hello, while the transport connects the two, after a piece of the   *)
(* hello was dropped, and once the transport is broken.                     *)

Started == krypt_secure_connection(Fresh("live"))

Early(kd, v) ==
  /\ v["client"].c \in {Fresh("none"), Fresh("live")}
  /\ v["server"].c \in {Fresh("none"), Fresh("live"), Started}
  /\ kd # "p2p" => \A e \in End : v[e].c = Fresh("none")
  /\ \A e \in End : v[e].w = <<>> /\ v[e].sent = <<>> /\ v[e].got = <<>>

Live(e, v) == v[e].c.life = "live" /\ Quiet(e, v[e].c)

(* The server has yet to start TLS. *)
Unready(kd, v) ==
  /\ v["server"].c = Fresh("none") \/ (kd = "p2p" /\ v["server"].c = Fresh("live"))
  /\ Shaking(kd, 1, v)
  /\ v["server"].sent = <<>> /\ v["server"].got = <<>>

TrackedIn(v) == Asks(v["server"].got) /\ Control("provResponse") \notin Range(v["server"].sent)

Connected(kd, v) ==
  /\ Live("client", v)
  /\ Live("server", v) \/ Unready(kd, v)
  /\ Phase(kd, v)
  /\ TrackedIn(v) => Waits(kd, v)

(* What is left of the hello is less than a record, and nothing comes of it. *)
Deaf(s) ==
  /\ s.c = Fresh("live") \/ s.c.status = "HANDSHAKE"
  /\ s.c.hs = 0 /\ s.c.out = <<>> /\ s.c.enc = <<>> /\ s.c.session = "NOT_AUTHED"
  /\ Len(s.c.bio \o s.w) <= 1 /\ s.got = <<>>

Stalled(kd, v) ==
  /\ kd = "p2p"
  /\ Live("client", v) /\ v["client"].c.hs = 1 /\ v["client"].c.session = "NOT_AUTHED"
  /\ v["client"].c.bio = <<>> /\ v["client"].w = <<>> /\ v["client"].got = <<>>
  /\ v["server"].c.life = "live" /\ Deaf(v["server"])
  /\ \A e \in End : v[e].sent = <<>>

Hears(v, e) == Lined(v, e) \/ (e = "server" /\ Deaf(v[e]))

NotYet(kd, c) == c.status = "NOINIT" => kd = "p2p" /\ c = Fresh("live")

Broken(kd, v) ==
  /\ \A e \in End : v[e].c.life = "live" => Hears(v, e) /\ NotYet(kd, v[e].c)
  /\ kd # "p2p" => Certified(v)

LEMMA FreshConn ==
    /\ \A l \in {"none", "live", "freed"} :
         /\ Fresh(l) \in Conn /\ Fresh(l).life = l /\ Fresh(l).bio = <<>>
         /\ Fresh(l).status = "NOINIT" /\ Fresh(l).hs = 0 /\ Fresh(l).out = <<>>
         /\ Fresh(l).enc = <<>> /\ Fresh(l).session = "NOT_AUTHED"
    /\ Started \in Conn /\ Started.life = "live" /\ Started.bio = <<>>
    /\ Started.status = "HANDSHAKE" /\ Started.hs = 0 /\ Started.out = <<>>
    /\ Started.enc = <<>> /\ Started.session = "NOT_AUTHED"
<1>1. <<>> \in Seq(Record) /\ <<>> \in Seq(Msg) BY EmptySeq
<1>2. ASSUME NEW l \in {"none", "live", "freed"}
     PROVE  /\ Fresh(l) \in Conn /\ Fresh(l).life = l /\ Fresh(l).bio = <<>>
            /\ Fresh(l).status = "NOINIT" /\ Fresh(l).hs = 0 /\ Fresh(l).out = <<>>
            /\ Fresh(l).enc = <<>> /\ Fresh(l).session = "NOT_AUTHED"
  BY <1>1 DEF Fresh, Conn
<1>3. Started = [Fresh("live") EXCEPT !.status = "HANDSHAKE"]
  BY DEF Started, krypt_secure_connection
<1>4. Started = [life |-> "live", status |-> "HANDSHAKE", hs |-> 0, bio |-> <<>>,
                 out |-> <<>>, enc |-> <<>>, session |-> "NOT_AUTHED"]
  BY <1>3 DEF Fresh
<1>5. Started \in Conn BY <1>1, <1>4 DEF Conn
<1>6. QED BY <1>2, <1>4, <1>5

(* An end that was given nothing, and for which there is nothing. *)
LEMMA NothingDue ==
    ASSUME NEW v \in [End -> Side], NEW e \in End,
           v[e].c.bio = <<>>, v[e].w = <<>>, v[e].got = <<>>
    PROVE  Lined(v, e)
<1>1. <<>> \in Seq(Msg) /\ Arranged(<<>>, <<>>) BY ShapeArranged DEF Shape
<1>2. OnLine(v[e].c, v[e].w, <<>>)
  <2>1. <<>> \in Seq(Record) BY EmptySeq
  <2>2. <<>> \o <<>> = <<>> /\ Units(<<>>) = <<>> BY <2>1, ConcatEmptySeq DEF Units
  <2>3. QED BY <2>2 DEF OnLine
<1>3. IsPrefix(v[e].got \o <<>>, v[Other(e)].sent)
  <2> DEFINE t == v[Other(e)].sent
  <2>1. t \in Seq(Msg) /\ <<>> \in Seq(Msg) BY Ends, EmptySeq DEF Side
  <2> HIDE DEF t
  <2>2. <<>> \o t = t /\ <<>> \o <<>> = <<>> BY <2>1, ConcatEmptySeq
  <2>3. IsPrefix(<<>>, <<>> \o t)
    <3> DEFINE z == <<>>
    <3>1. z \in Seq(Msg) BY <2>1
    <3> HIDE DEF z
    <3>2. IsPrefix(z, z \o t) BY <2>1, <3>1, PrefixJoin
    <3>3. QED BY <3>2 DEF z
  <2>4. QED BY <2>2, <2>3 DEF t
<1>4. QED BY <1>1, <1>2, <1>3 DEF Lined

(* A break leaves each of them as it is. *)
LEMMA UpBroken ==
    ASSUME NEW kd, NEW v \in [End -> Side],
           Early(kd, v) \/ Connected(kd, v) \/ Stalled(kd, v)
    PROVE  Broken(kd, v)
<1>1. "client" \in End /\ "server" \in End BY DEF End
<1>2. CASE Connected(kd, v)
  <2>1. \A e \in End : Lined(v, e) BY <1>2, PhaseLined DEF Connected
  <2>2. ASSUME NEW e \in End, v[e].c.life = "live", v[e].c.status = "NOINIT"
        PROVE  kd = "p2p" /\ v[e].c = Fresh("live")
    <3>1. ~Quiet(e, v[e].c) BY <2>2 DEF Quiet
    <3>2. e = "server" /\ Unready(kd, v) BY <1>2, <3>1 DEF Connected, Live, End
    <3>3. QED BY <2>2, <3>2, FreshConn DEF Unready
  <2>3. kd # "p2p" => Certified(v) BY <1>2, PhaseCertified DEF Connected
  <2>4. QED BY <2>1, <2>2, <2>3 DEF Broken, Hears, NotYet
<1>3. CASE Early(kd, v)
  <2>1. \A e \in End : v[e].c \in {Fresh("none"), Fresh("live"), Started}
    BY <1>3 DEF Early, End
  <2>2. \A e \in End : v[e].c.bio = <<>> /\ (v[e].c.status = "NOINIT" => v[e].c \in {Fresh("none"), Fresh("live")})
    BY <2>1, FreshConn
  <2>3. \A e \in End : Lined(v, e) BY <1>3, <2>2, NothingDue DEF Early
  <2>4. Certified(v)
    <3>1. <<>> \in Seq(Proper) BY EmptySeq
    <3>2. QED BY <1>3, <2>2, <3>1 DEF Certified, Early
  <2>5. ASSUME NEW e \in End, v[e].c.life = "live" PROVE NotYet(kd, v[e].c)
    BY <1>3, <2>2, <2>5, FreshConn DEF NotYet, Early
  <2>6. QED BY <2>3, <2>4, <2>5 DEF Broken, Hears
<1>4. CASE Stalled(kd, v)
  <2>1. Lined(v, "client") BY <1>1, <1>4, NothingDue DEF Stalled
  <2>2. v["client"].c.status # "NOINIT" BY <1>4 DEF Stalled, Live, Quiet
  <2>3. v["server"].c.status = "NOINIT" => v["server"].c = Fresh("live")
    BY <1>4 DEF Stalled, Deaf
  <2>4. QED BY <1>4, <2>1, <2>2, <2>3 DEF Stalled, Broken, Hears, NotYet, End
<1>5. QED BY <1>2, <1>3, <1>4

(* Who has something to read has a connection, and so has the other end.    *)
LEMMA BothLive ==
    ASSUME NEW kd, NEW v \in [End -> Side], Connected(kd, v), NEW e \in End, Quiet(e, v[e].c),
           v[e].w # <<>>
    PROVE  \A f \in End : Live(f, v)
<1>1. e = "client" \/ e = "server" BY DEF End
<1>2. CASE Live("server", v) BY <1>2 DEF Connected, End
<1>3. CASE Unready(kd, v)
  <2>1. v["server"].c.status = "NOINIT" BY <1>3, FreshConn DEF Unready
  <2>2. e = "client" BY <1>1, <2>1 DEF Quiet
  <2>3. Awaits(v, "client", <<>>, <<>>) BY <1>3 DEF Shaking, Speaker, Unready
  <2>4. v[e] \in Side OBVIOUS
  <2>5. v[e].c \in Conn /\ v[e].w \in Seq(Record) /\ OnLine(v[e].c, v[e].w, <<>>)
    BY <2>2, <2>3, <2>4 DEF Side, Awaits
  <2>6. v[e].w = <<>> BY <2>5, NoLine
  <2>7. QED BY <2>6
<1>4. QED BY <1>2, <1>3 DEF Connected

(* An end that is freed sends no more, and reads no more. *)
LEMMA LinedStays ==
    ASSUME NEW v \in [End -> Side], NEW v2 \in [End -> Side], NEW o \in End, Lined(v, o),
           v2[o] = v[o], IsPrefix(v[Other(o)].sent, v2[Other(o)].sent)
    PROVE  Lined(v2, o)
<1>1. PICK Q, R : /\ R \in Seq(Msg) /\ Arranged(Q, R) /\ OnLine(v[o].c, v[o].w, Q)
                  /\ IsPrefix(v[o].got \o R, v[Other(o)].sent)
  BY DEF Lined
<1>2. v[o] \in Side /\ v[Other(o)] \in Side /\ v2[Other(o)] \in Side BY Ends
<1>3. /\ v[o].got \o R \in Seq(Msg) /\ v[Other(o)].sent \in Seq(Msg)
      /\ v2[Other(o)].sent \in Seq(Msg)
  BY <1>1, <1>2, ConcatProperties DEF Side
<1>4. IsPrefix(v[o].got \o R, v2[Other(o)].sent) BY <1>1, <1>3, PrefixTrans
<1>5. QED BY <1>1, <1>4 DEF Lined

LEMMA FreedBroken ==
    ASSUME NEW kd, NEW v \in [End -> Side], NEW v2 \in [End -> Side], Broken(kd, v), NEW e \in End,
           v2[e].c = Fresh("freed"), IsPrefix(v[e].sent, v2[e].sent),
           v2[Other(e)] = v[Other(e)],
           kd # "p2p" => v2[e].w \in Seq(Proper)
    PROVE  Broken(kd, v2)
<1> DEFINE o == Other(e)
<1>1. o \in End /\ Other(o) = e /\ \A f \in End : f = e \/ f = o BY Ends
<1>2. v2[e].c.life # "live" /\ v2[e].c.bio = <<>> BY FreshConn
<1>3. v[o].c.life = "live" => Hears(v2, o)
  <2>1. SUFFICES ASSUME v[o].c.life = "live", Lined(v, o) PROVE Lined(v2, o)
    BY <1>1 DEF Broken, Hears
  <2>2. v2[o] = v[o] /\ IsPrefix(v[Other(o)].sent, v2[Other(o)].sent) /\ o \in End BY <1>1
  <2> HIDE DEF o
  <2>3. QED BY <2>1, <2>2, LinedStays
<1>4. ASSUME NEW f \in End, v2[f].c.life = "live"
      PROVE  Hears(v2, f) /\ NotYet(kd, v2[f].c)
  <2>1. f = o BY <1>1, <1>2, <1>4
  <2>2. QED BY <1>1, <1>3, <1>4, <2>1 DEF Broken
<1>5. ASSUME kd # "p2p", NEW f \in End PROVE v2[f].c.bio \in Seq(Proper) /\ v2[f].w \in Seq(Proper)
  <2>1. <<>> \in Seq(Proper) BY EmptySeq
  <2>2. CASE f = e BY <1>2, <1>5, <2>1, <2>2
  <2>3. CASE f = o BY <1>1, <1>5, <2>3 DEF Broken, Certified
  <2>4. QED BY <1>1, <2>2, <2>3
<1>6. QED BY <1>4, <1>5 DEF Broken, Certified

LEMMA SameSide ==
    ASSUME NEW a \in Side, NEW b \in Side, a.c = b.c, a.w = b.w, a.sent = b.sent, a.got = b.got
    PROVE  a = b
BY DEF Side

(* The words of a joined sequence. *)
LEMMA RangeJoin ==
    ASSUME NEW S, NEW a \in Seq(S), NEW b \in Seq(S)
    PROVE  Range(a \o b) = Range(a) \cup Range(b)
<1>1. /\ Len(a) \in Nat /\ Len(b) \in Nat /\ DOMAIN a = 1 .. Len(a) /\ DOMAIN b = 1 .. Len(b)
      /\ DOMAIN (a \o b) = 1 .. Len(a) + Len(b)
      /\ \A i \in 1 .. Len(a) + Len(b) : (a \o b)[i] = IF i <= Len(a) THEN a[i] ELSE b[i - Len(a)]
  BY LenProperties, ConcatProperties
<1>2. \A i \in DOMAIN a : i \in DOMAIN (a \o b) /\ (a \o b)[i] = a[i] BY <1>1
<1>3. \A i \in DOMAIN b : Len(a) + i \in DOMAIN (a \o b) /\ (a \o b)[Len(a) + i] = b[i]
  <2>1. ASSUME NEW i \in 1 .. Len(b) PROVE Len(a) + i \in 1 .. Len(a) + Len(b) /\ (a \o b)[Len(a) + i] = b[i]
    <3>1. Len(a) + i \in 1 .. Len(a) + Len(b) /\ ~(Len(a) + i <= Len(a)) /\ Len(a) + i - Len(a) = i
      BY <1>1
    <3>2. QED BY <1>1, <3>1
  <2>2. QED BY <1>1, <2>1
<1>4. \A i \in DOMAIN (a \o b) : (a \o b)[i] \in Range(a) \cup Range(b)
  <2>1. ASSUME NEW i \in 1 .. Len(a) + Len(b) PROVE (a \o b)[i] \in Range(a) \cup Range(b)
    <3>1. CASE i <= Len(a) BY <1>1, <3>1 DEF Range
    <3>2. CASE ~(i <= Len(a))
      <4>1. i - Len(a) \in DOMAIN b BY <1>1, <3>2
      <4>2. QED BY <1>1, <3>2, <4>1 DEF Range
    <3>3. QED BY <3>1, <3>2
  <2>2. QED BY <1>1, <2>1
<1>5. QED BY <1>2, <1>3, <1>4 DEF Range

LEMMA PrefixRange ==
    ASSUME NEW S, NEW a \in Seq(S), NEW b \in Seq(S), IsPrefix(a, b)
    PROVE  Range(a) \subseteq Range(b)
<1>1. PICK r \in Seq(S) : b = a \o r BY PrefixRest
<1>2. QED BY <1>1, RangeJoin

(* What is on its way is handed over in its order. *)
LEMMA CameWords ==
    ASSUME NEW e \in End, kind \in {"switch", "prov", "p2p"}, NEW x \in Work, NEW w \in Seq(Record),
           NEW Q, NEW R \in Seq(Msg), Arranged(Q, R), OnLine(x.c, w, Q)
    PROVE  Heard(x, Came(e, x), R)
<1>1. Heard(x, Secure(e, x), R) BY SecureHeard
<1>2. Heard(x, Handshake(e, x), R) BY HandshakeHeard
<1>3. QED BY <1>1, <1>2 DEF Came

(* The switch asks the controller in one phase, and is then still in it. *)
LEMMA InputTracked ==
    ASSUME NEW e \in End, NEW v \in [End -> Side], NEW v2 \in [End -> Side],
           NEW x, NEW rest, NEW y, Taken(e, v, x, rest, y, v2),
           Phase(kind, v), TrackedIn(v) => Waits(kind, v), v[e].w # <<>>, TrackedIn(v2)
    PROVE  Waits(kind, v2)
<1>1. /\ Fed(e, v, x, rest) /\ Moves(e, v, y, rest, v2) /\ y = Came(e, x)
      /\ kind \in {"switch", "prov", "p2p"} /\ e \in {"client", "server"}
  BY DEF Taken, End
<1>2. /\ x \in Work /\ rest \in Seq(Record) /\ x.sent = v[e].sent /\ x.got = v[e].got
      /\ \A Q : OnLine(v[e].c, v[e].w, Q) => OnLine(x.c, rest, Q)
  BY <1>1 DEF Fed, Fit
<1>3. ~Waits(kind, v)
  <2>1. SUFFICES ASSUME Waits(kind, v) PROVE FALSE OBVIOUS
  <2>2. OnLine(v[e].c, v[e].w, <<>>)
    BY <1>1, <2>1, BringNone, Ends DEF Waits, Alone, Awaits
  <2>3. v[e].c \in Conn /\ v[e].w \in Seq(Record) BY DEF Side
  <2>4. QED BY <2>2, <2>3, NoLine
<1>4. PICK Q, R : Due(kind, v, e, Q, R) BY PhaseShape
<1>5. PICK A \in Seq(Msg), B \in Seq(Msg) : R = A \o B /\ y.got = x.got \o A
  <2>1. R \in Seq(Msg) /\ Arranged(Q, R) /\ OnLine(x.c, rest, Q)
    BY <1>2, <1>4, ShapeArranged DEF Due, Awaits
  <2>2. Heard(x, y, R) BY <1>1, <1>2, <2>1, CameWords
  <2>3. QED BY <2>2 DEF Heard
<1>6. y \in Work /\ IsPrefix(x.sent, y.sent)
  <2>1. R \in Seq(Msg) /\ Arranged(Q, R) /\ OnLine(x.c, rest, Q)
    BY <1>2, <1>4, ShapeArranged DEF Due, Awaits
  <2>2. QED BY <1>1, <1>2, <2>1, CameWords DEF Heard
<1>7. Range(v["server"].sent) \subseteq Range(v2["server"].sent)
  <2>1. CASE e = "client" BY <1>1, <2>1, Ends DEF Moves
  <2>2. CASE e = "server"
    <3>1. x.sent \in Seq(Msg) /\ y.sent \in Seq(Msg) /\ v2["server"].sent = y.sent
      BY <1>1, <1>2, <1>6, <2>2 DEF Work, Moves
    <3>2. QED BY <1>2, <1>6, <2>2, <3>1, PrefixRange
  <2>3. QED BY <1>1, <2>1, <2>2
<1>8. ~Asks(v["server"].got) /\ Asks(v2["server"].got) BY <1>3, <1>7 DEF TrackedIn
<1>9. e = "server" /\ v2["server"].got = y.got
  <2>1. e # "client" BY <1>1, <1>8, Ends DEF Moves
  <2>2. QED BY <1>1, <2>1 DEF Moves
<1>10. Asks(R)
  <2>1. x.got \in Seq(Msg) BY <1>2 DEF Work
  <2>2. Range(y.got) = Range(x.got) \cup Range(A) /\ Range(R) = Range(A) \cup Range(B)
    BY <1>5, <2>1, RangeJoin
  <2>3. QED BY <1>2, <1>8, <1>9, <2>2 DEF Asks
<1>11. Asking(kind, v) BY <1>4, <1>9, <1>10 DEF Due
<1>12. QED BY <1>8, <1>11, InputAsking

(* What a step of the loop makes of a connection. *)
LEMMA InputConnected ==
    ASSUME NEW e \in End, NEW v \in [End -> Side], NEW v2 \in [End -> Side],
           NEW x, NEW rest, NEW y, Taken(e, v, x, rest, y, v2),
           Connected(kind, v), v[e].c.life = "live", v[e].w # <<>>
    PROVE  IF y.c.life = "live" THEN Connected(kind, v2) ELSE Broken(kind, v2)
<1> DEFINE o == Other(e)
<1>1. o \in End /\ \A f \in End : f = e \/ f = o BY Ends
<1>2. \A f \in End : v[f].c.life = "live" /\ Quiet(f, v[f].c) BY BothLive DEF Taken, Live
<1>3. Phase(kind, v) BY DEF Connected
<1>4. /\ Fed(e, v, x, rest) /\ Moves(e, v, y, rest, v2)
  BY DEF Taken
<1>5. Carried(e, x, y, v2) BY <1>3, InputCarries
<1>6. CASE Phase(kind, v2) /\ Quiet(e, y.c) /\ y.c.life = x.c.life
  <2>1. v2[e].c = y.c /\ v2[o].c = v[o].c /\ x.c.life = v[e].c.life BY <1>4 DEF Moves, Fed
  <2>2. \A f \in End : Live(f, v2) BY <1>1, <1>2, <1>6, <2>1 DEF Live
  <2>3. Connected(kind, v2)
    <3>1. TrackedIn(v2) => Waits(kind, v2) BY <1>3, InputTracked DEF Connected
    <3>2. QED BY <1>6, <2>2, <3>1 DEF Connected, End
  <2>4. y.c.life = "live" BY <1>2, <1>6, <2>1
  <2>5. QED BY <2>3, <2>4
<1>7. CASE Gone(x, y)
  <2>1. y.c = Fresh("freed") /\ y.tx = <<>> /\ y.sent = v[e].sent
    BY <1>4, <1>7 DEF Gone, Fed, Fit
  <2>2. /\ v2[e].c = Fresh("freed") /\ v2[e].w = rest /\ v2[e].sent = v[e].sent
        /\ v2[o].c = v[o].c /\ v2[o].w = v[o].w \o Units(<<>>)
        /\ v2[o].sent = v[o].sent /\ v2[o].got = v[o].got
    BY <1>4, <2>1 DEF Moves
  <2>3. v[e] \in Side /\ v[o] \in Side /\ v2[o] \in Side BY <1>1
  <2>4. Units(<<>>) = <<>> BY DEF Units
  <2>5. v[o].w \in Seq(Record) /\ v[e].sent \in Seq(Msg) BY <2>3 DEF Side
  <2>6. v2[o].w = v[o].w BY <2>2, <2>4, <2>5, ConcatEmptySeq
  <2>7. v2[o] = v[o] BY <2>2, <2>3, <2>6, SameSide
  <2>8. IsPrefix(v[e].sent, v2[e].sent) BY <2>2, <2>5, PrefixSelf
  <2>9. kind # "p2p" => v2[e].w \in Seq(Proper)
    <3>1. SUFFICES ASSUME kind # "p2p" PROVE rest \in Seq(Proper) BY <2>2
    <3>2. PICK Q, R : Awaits(v, e, Q, R) /\ Shape(kind, Q, R) BY <1>3, PhaseShape DEF Due
    <3>3. Q \in Seq(Proper) /\ Q \in Seq(Record) BY <3>1, <3>2, ShapeProper, ShapeArranged
    <3>4. OnLine(x.c, rest, Q) /\ rest \in Seq(Record) /\ x.c \in Conn
      BY <3>2, <1>4 DEF Awaits, Fed, Fit, Work
    <3>5. QED BY <3>3, <3>4, LineProper
  <2>10. Broken(kind, v) BY UpBroken
  <2>11. Broken(kind, v2) BY <2>2, <2>7, <2>8, <2>9, <2>10, FreedBroken
  <2>12. y.c.life # "live" BY <2>1, FreshConn
  <2>13. QED BY <2>11, <2>12
<1>8. QED BY <1>5, <1>6, <1>7 DEF Carried

LEMMA LinesJoin ==
    ASSUME NEW a \in Seq(Record), NEW b \in Seq(Record), NEW c \in Seq(Record)
    PROVE  (a \o b) \o c = a \o (b \o c) /\ a \o b \in Seq(Record)
BY ConcatAssociative, ConcatProperties, SMTT(40)

(* What recv returned is put after what the BIO holds. *)
Fetched(s, n) == [s.c EXCEPT !.bio = @ \o SubSeq(s.w, 1, n)]
Left(s, n) == SubSeq(s.w, n + 1, Len(s.w))

LEMMA Reading ==
    ASSUME NEW s \in Side, NEW n \in Nat, n <= Len(s.w)
    PROVE  /\ Fetched(s, n) \in Conn /\ Left(s, n) \in Seq(Record)
           /\ Fetched(s, n).life = s.c.life /\ Fetched(s, n).status = s.c.status
           /\ Fetched(s, n).hs = s.c.hs /\ Fetched(s, n).out = s.c.out
           /\ Fetched(s, n).enc = s.c.enc /\ Fetched(s, n).session = s.c.session
           /\ Fetched(s, n).bio \o Left(s, n) = s.c.bio \o s.w
<1> DEFINE a == SubSeq(s.w, 1, n)
           c == Fetched(s, n)
           rest == Left(s, n)
<1>1. s.c \in Conn /\ s.w \in Seq(Record) BY DEF Side
<1>2. a \in Seq(Record) /\ rest \in Seq(Record) /\ s.w = a \o rest
  <2>1. n \in 0 .. Len(s.w) BY <1>1, LenProperties
  <2>2. QED BY <1>1, <2>1, CutAndJoin DEF Left
<1>5. c = [s.c EXCEPT !.bio = s.c.bio \o a] BY DEF Fetched
<1> HIDE DEF a, c, rest
<1>3. s.c.bio \in Seq(Record) BY <1>1 DEF Conn
<1>4. (s.c.bio \o a) \o rest = s.c.bio \o (a \o rest) /\ s.c.bio \o a \in Seq(Record)
  <2> DEFINE b == s.c.bio
             r == rest
  <2>1. b \in Seq(Record) /\ a \in Seq(Record) /\ r \in Seq(Record) BY <1>2, <1>3
  <2> HIDE DEF b, r
  <2>2. (b \o a) \o r = b \o (a \o r) /\ b \o a \in Seq(Record)
    BY <2>1, LinesJoin, SMTT(40)
  <2>3. QED BY <2>2 DEF b, r
<1>6. /\ c \in Conn /\ c.bio = s.c.bio \o a
      /\ c.life = s.c.life /\ c.status = s.c.status /\ c.hs = s.c.hs /\ c.out = s.c.out
      /\ c.enc = s.c.enc /\ c.session = s.c.session
  BY <1>1, <1>4, <1>5 DEF Conn
<1>7. c.bio \o rest = s.c.bio \o s.w BY <1>2, <1>4, <1>6
<1>8. QED BY <1>2, <1>6, <1>7 DEF c, rest

LEMMA WorkOn ==
    ASSUME NEW s \in Side, NEW c \in Conn,
           NEW x, x = [c |-> c, tx |-> <<>>, sent |-> s.sent, got |-> s.got]
    PROVE  x \in Work /\ x.c = c /\ x.tx = <<>> /\ x.sent = s.sent /\ x.got = s.got
<1>1. <<>> \in Seq(Record) /\ s.sent \in Seq(Msg) /\ s.got \in Seq(Msg)
  BY EmptySeq DEF Side
<1>2. QED BY <1>1 DEF Work

(* A frame is sent on a connection that is authenticated. *)
LEMMA FrameConnected ==
    ASSUME NEW e \in End, NEW v \in [End -> Side], NEW v2 \in [End -> Side],
           NEW x, NEW w, NEW m, NEW y, Framed(e, v, x, w, m, y, v2),
           Connected(kind, v), v[e].c.life = "live"
    PROVE  y.c.life = "live" /\ Connected(kind, v2)
<1> DEFINE o == Other(e)
<1>1. o \in End /\ \A f \in End : f = e \/ f = o BY Ends
<1>2. /\ Fed(e, v, x, w) /\ Moves(e, v, y, w, v2) /\ v[e].c.session = "AUTHED" /\ m \in Later
      /\ y = net_send_msg(x, m)
  BY DEF Framed
<1>3. Phase(kind, v) BY DEF Connected
<1>4. \A f \in End : Live(f, v)
  <2>1. CASE Live("server", v) BY <2>1 DEF Connected, End
  <2>2. CASE Unready(kind, v)
    <3>1. v["client"].c.session = "NOT_AUTHED" BY <2>2 DEF Shaking, Unready
    <3>2. v["server"].c.session = "NOT_AUTHED" BY <2>2, FreshConn DEF Unready
    <3>3. QED BY <3>1, <3>2, <1>2 DEF End
  <2>3. QED BY <2>1, <2>2 DEF Connected
<1>5. Phase(kind, v2) /\ Quiet(e, y.c) /\ y.c.life = x.c.life BY <1>3, FrameCarries
<1>6. v2[e].c = y.c /\ v2[o].c = v[o].c /\ x.c.life = v[e].c.life BY <1>2 DEF Moves, Fed
<1>7. \A f \in End : Live(f, v2) BY <1>1, <1>4, <1>5, <1>6 DEF Live
<1>8. ~TrackedIn(v2)
  <2>1. ~Waits(kind, v) BY <1>2 DEF Waits, Alone, Silent, End
  <2>2. ~TrackedIn(v) BY <2>1 DEF Connected
  <2>3. x \in Work /\ m \in Msg /\ v[e].sent \in Seq(Msg) /\ x.sent = v[e].sent /\ x.got = v[e].got
    BY <1>2 DEF Fed, Fit, Later, Msg, Side
  <2>a. net_send_msg(x, m).sent = Append(x.sent, m) /\ net_send_msg(x, m).got = x.got
    <3>1. x \in Work /\ m \in Msg BY <2>3
    <3>2. QED BY ONLY <3>1, SendWork
  <2>b. y = net_send_msg(x, m) BY <1>2
  <2>4. y.sent = Append(v[e].sent, m) /\ y.got = v[e].got BY ONLY <2>3, <2>a, <2>b, Zenon
  <2>5. IsPrefix(v[e].sent, y.sent) BY <2>3, <2>4, PrefixAppend
  <2>6. v[o].sent \in Seq(Msg) /\ y.sent \in Seq(Msg) /\ IsPrefix(v[o].sent, v[o].sent)
    BY <1>1, <2>3, <2>4, PrefixSelf DEF Side
  <2>7. \A f \in End : v2[f].got = v[f].got /\ v[f].sent \in Seq(Msg) /\ v2[f].sent \in Seq(Msg)
                       /\ IsPrefix(v[f].sent, v2[f].sent)
    BY <1>1, <1>2, <2>3, <2>4, <2>5, <2>6 DEF Moves
  <2>8. Range(v["server"].sent) \subseteq Range(v2["server"].sent) /\ v2["server"].got = v["server"].got
    BY <2>7, PrefixRange DEF End
  <2>9. QED BY <2>2, <2>8 DEF TrackedIn
<1>9. Connected(kind, v2) BY <1>5, <1>7, <1>8 DEF Connected, End
<1>10. QED BY <1>4, <1>5, <1>6, <1>9 DEF Live

(* The passport is sent to an agent that waits for it. *)
LEMMA GrantConnected ==
    ASSUME NEW v \in [End -> Side], NEW v2 \in [End -> Side],
           NEW x, NEW w, Fed("server", v, x, w), x.c = v["server"].c,
           NEW y, y = net_send_msg(x, Control("provResponse")), Moves("server", v, y, w, v2),
           Connected(kind, v), TrackedIn(v)
    PROVE  y.c.life = "live" /\ Connected(kind, v2)
<1>1. Waits(kind, v) BY DEF Connected
<1>2. \A f \in End : Live(f, v)
  <2>1. ~Unready(kind, v)
    <3>1. v["server"].c.hs = 4 BY <1>1 DEF Waits, Alone
    <3>2. QED BY <3>1, FreshConn DEF Unready
  <2>2. QED BY <2>1 DEF Connected, End
<1>3. /\ Granted(kind, v2) /\ Quiet("server", y.c) /\ y.c.life = x.c.life
      /\ y.sent = x.sent \o Grant
  <2>1. Quiet("server", v["server"].c) BY <1>2 DEF Live, End
  <2>2. QED BY <1>1, <2>1, GrantMoves
<1>4. /\ v2["server"].c = y.c /\ v2["client"].c = v["client"].c /\ x.c.life = v["server"].c.life
      /\ v2["server"].sent = y.sent
  BY Ends DEF Moves, Fed
<1>5. \A f \in End : Live(f, v2) BY <1>2, <1>3, <1>4 DEF Live, End
<1>6. Phase(kind, v2) BY <1>3 DEF Phase, Exchange
<1>7. ~TrackedIn(v2)
  <2> DEFINE s == x.sent
             g == Grant
  <2>1. s \in Seq(Msg) /\ g \in Seq(Msg) /\ Len(g) = 1 /\ g[1] = Control("provResponse")
    BY AuthIsSeq DEF Fed, Fit, Work, Lone
  <2>2. v2["server"].sent = s \o g BY <1>3, <1>4
  <2> HIDE DEF s, g
  <2>3. Control("provResponse") \in Range(g) BY <2>1 DEF Range
  <2>4. Control("provResponse") \in Range(s \o g) BY <2>1, <2>3, RangeJoin
  <2>5. QED BY <2>2, <2>4 DEF TrackedIn
<1>8. QED BY <1>2, <1>3, <1>4, <1>5, <1>6, <1>7 DEF Connected, Live, End

(* The control thread touches the session of the switch alone. *)
LEMMA PurgeKeeps ==
    ASSUME NEW kd, NEW v \in [End -> Side], NEW v2 \in [End -> Side],
           v["server"].c.life = "live", v["server"].c.session \in {"WAIT_STEPUP", "AUTHED"},
           v2["client"] = v["client"],
           v2["server"] = [v["server"] EXCEPT !.c.session = "PURGE"]
    PROVE  /\ Connected(kd, v) => Connected(kd, v2)
           /\ Broken(kd, v) => Broken(kd, v2)
<1>1. v["server"] \in Side /\ v["client"] \in Side BY DEF End
<1>2. v["server"].c \in Conn BY <1>1 DEF Side
<1>3. /\ v2["server"].w = v["server"].w /\ v2["server"].sent = v["server"].sent
      /\ v2["server"].got = v["server"].got
      /\ v2["server"].c = [v["server"].c EXCEPT !.session = "PURGE"]
  BY <1>1 DEF Side
<1>4. /\ v2["server"].c.session = "PURGE" /\ v2["server"].c.hs = v["server"].c.hs
      /\ v2["server"].c.bio = v["server"].c.bio /\ v2["server"].c.out = v["server"].c.out
      /\ v2["server"].c.enc = v["server"].c.enc /\ v2["server"].c.life = v["server"].c.life
      /\ v2["server"].c.status = v["server"].c.status
  BY <1>2, <1>3 DEF Conn
<1>5. \A e \in End :
        /\ v2[e].c.hs = v[e].c.hs /\ v2[e].sent = v[e].sent /\ v2[e].got = v[e].got
        /\ v2[e].w = v[e].w /\ v2[e].c.bio = v[e].c.bio /\ v2[e].c.life = v[e].c.life
        /\ v2[e].c.out = v[e].c.out /\ v2[e].c.enc = v[e].c.enc /\ v2[e].c.status = v[e].c.status
  BY <1>3, <1>4 DEF End
<1>6. \A e \in End : \A Q : OnLine(v[e].c, v[e].w, Q) => OnLine(v2[e].c, v2[e].w, Q)
  BY <1>5 DEF OnLine
<1>7. Alike(v, v2) BY <1>4, <1>5, <1>6 DEF Alike
<1>0. v["server"].c \notin {Fresh("none"), Fresh("live")} /\ ~Deaf(v["server"])
  BY FreshConn DEF Deaf
<1>8. ASSUME Connected(kd, v) PROVE Connected(kd, v2)
  <2>1. Phase(kd, v2) /\ (Waits(kd, v) => Waits(kd, v2))
    BY <1>7, <1>8, PhaseAlike DEF Connected
  <2>2. \A e \in End : Quiet(e, v[e].c) => Quiet(e, v2[e].c) BY <1>5 DEF Quiet
  <2>3. Live("client", v) /\ Live("server", v) BY <1>0, <1>8 DEF Connected, Unready
  <2>4. Live("client", v2) /\ Live("server", v2) BY <1>5, <2>2, <2>3 DEF Live, End
  <2>5. TrackedIn(v2) => TrackedIn(v) BY <1>3 DEF TrackedIn
  <2>6. QED BY <1>8, <2>1, <2>4, <2>5 DEF Connected
<1>9. ASSUME Broken(kd, v) PROVE Broken(kd, v2)
  <2>1. ASSUME NEW e \in End, v2[e].c.life = "live"
        PROVE  Lined(v2, e) /\ NotYet(kd, v2[e].c)
    <3>1. Lined(v, e) /\ NotYet(kd, v[e].c) BY <1>0, <1>5, <1>9, <2>1 DEF Broken, Hears
    <3>2. PICK Q, R : /\ R \in Seq(Msg) /\ Arranged(Q, R) /\ OnLine(v[e].c, v[e].w, Q)
                      /\ IsPrefix(v[e].got \o R, v[Other(e)].sent)
      BY <3>1 DEF Lined
    <3>3. v2[e].got = v[e].got /\ v2[Other(e)].sent = v[Other(e)].sent BY <1>5, Ends
    <3>4. OnLine(v2[e].c, v2[e].w, Q) BY <3>2, <1>6
    <3>5. v2[e].c.status = "NOINIT" => e = "client" BY <1>0, <1>5, <3>1 DEF End, NotYet
    <3>6. QED BY <1>5, <3>1, <3>2, <3>3, <3>4, <3>5 DEF Lined, NotYet
  <2>2. kd # "p2p" => Certified(v2) BY <1>5, <1>9 DEF Broken, Certified
  <2>3. QED BY <2>1, <2>2 DEF Broken, Hears
<1>10. QED BY <1>8, <1>9

-----------------------------------------------------------------------------
(* The invariant. *)

TypeOK ==
  /\ kind \in Kinds /\ up \in BOOLEAN /\ dropped \in BOOLEAN /\ undef \in BOOLEAN
  /\ netc \in [End -> Conn] /\ wire \in [End -> Seq(Record)]
  /\ sent \in [End -> Seq(Msg)] /\ got \in [End -> Seq(Msg)]

(* While the transport connects the two, the connection is in one of its    *)
(* phases, or waits for ever for what was dropped; from then on, what is on *)
(* its way is still in order.                                               *)
Sound ==
  IF ~up THEN Broken(kind, View)
  ELSE /\ ~undef
       /\ IF dropped THEN Stalled(kind, View) ELSE Early(kind, View) \/ Connected(kind, View)

IInv == TypeOK /\ Sound

LEMMA Viewed ==
    ASSUME TypeOK
    PROVE  /\ View \in [End -> Side]
           /\ \A e \in End : /\ View[e].c = netc[e] /\ View[e].w = wire[e]
                             /\ View[e].sent = sent[e] /\ View[e].got = got[e]
<1>1. /\ netc \in [End -> Conn] /\ wire \in [End -> Seq(Record)]
      /\ sent \in [End -> Seq(Msg)] /\ got \in [End -> Seq(Msg)]
  BY DEF TypeOK
<1>2. QED BY <1>1 DEF View, Side

LEMMA ViewedNext ==
    ASSUME TypeOK'
    PROVE  /\ View' \in [End -> Side]
           /\ \A e \in End : /\ View'[e].c = netc'[e] /\ View'[e].w = wire'[e]
                             /\ View'[e].sent = sent'[e] /\ View'[e].got = got'[e]
<1>1. /\ netc' \in [End -> Conn] /\ wire' \in [End -> Seq(Record)]
      /\ sent' \in [End -> Seq(Msg)] /\ got' \in [End -> Seq(Msg)]
  BY DEF TypeOK
<1>2. QED BY <1>1 DEF View, Side

LEMMA KindIs ==
    ASSUME TypeOK
    PROVE  kind \in {"switch", "prov", "p2p"}
BY NetbusAssumption DEF TypeOK

LEMMA InvBroken ==
    ASSUME IInv
    PROVE  Broken(kind, View)
BY Viewed, UpBroken DEF IInv, Sound

(* An end that is not there yet, and one that has yet to start TLS. *)
LEMMA Beginning ==
    ASSUME IInv, NEW e \in End
    PROVE  /\ up /\ netc[e].life = "none" =>
                ~dropped /\ netc[e] = Fresh("none") /\ sent[e] = <<>> /\ got[e] = <<>>
           /\ netc[e].life = "live" /\ netc[e].status = "NOINIT" =>
                kind = "p2p" /\ netc[e] = Fresh("live")
<1>1. View[e].c = netc[e] /\ View[e].sent = sent[e] /\ View[e].got = got[e]
  BY Viewed DEF IInv
<1>2. ASSUME up, netc[e].life = "none"
      PROVE  ~dropped /\ netc[e] = Fresh("none") /\ sent[e] = <<>> /\ got[e] = <<>>
  <2>1. ~Stalled(kind, View) BY <1>1, <1>2 DEF Stalled, Live, End
  <2>2. CASE Early(kind, View)
    <3>1. View[e].c \in {Fresh("none"), Fresh("live"), Started} BY <2>2 DEF Early, End
    <3>2. QED BY <1>1, <1>2, <2>1, <2>2, <3>1, FreshConn DEF Early, IInv, Sound
  <2>3. CASE Connected(kind, View)
    <3>1. e = "server" /\ Unready(kind, View) BY <1>1, <1>2, <2>3 DEF Connected, Live, End
    <3>2. QED BY <1>1, <1>2, <2>1, <3>1, FreshConn DEF Unready, IInv, Sound
  <2>4. QED BY <1>2, <2>1, <2>2, <2>3 DEF IInv, Sound
<1>3. QED BY <1>1, <1>2, InvBroken DEF Broken, NotYet

(* What net_on_input works on, and what it gives. *)
LEMMA CameHeard ==
    ASSUME NEW e \in End, NEW v \in [End -> Side], Lined(v, e), kind \in {"switch", "prov", "p2p"},
           NEW x \in Work, x.sent = v[e].sent, x.got = v[e].got, NEW rest \in Seq(Record),
           \A Q : OnLine(v[e].c, v[e].w, Q) => OnLine(x.c, rest, Q),
           NEW y, y = Came(e, x)
    PROVE  /\ y \in Work /\ IsPrefix(v[e].sent, y.sent) /\ IsPrefix(v[e].got, y.got)
           /\ IsPrefix(y.got, v[Other(e)].sent)
<1>1. PICK Q, R : /\ R \in Seq(Msg) /\ Arranged(Q, R) /\ OnLine(v[e].c, v[e].w, Q)
                  /\ IsPrefix(v[e].got \o R, v[Other(e)].sent)
  BY DEF Lined
<1>2. OnLine(x.c, rest, Q) BY <1>1
<1>3. Heard(x, y, R) BY <1>1, <1>2, CameWords
<1>4. PICK A \in Seq(Msg), B \in Seq(Msg) : R = A \o B /\ y.got = x.got \o A
  BY <1>3 DEF Heard
<1>5. y \in Work /\ IsPrefix(x.sent, y.sent) BY <1>3 DEF Heard
<1>6. v[e] \in Side /\ v[Other(e)] \in Side BY Ends
<1>7. v[e].got \in Seq(Msg) /\ v[Other(e)].sent \in Seq(Msg) /\ y.got \in Seq(Msg)
  BY <1>5, <1>6 DEF Side, Work
<1>8. IsPrefix(v[e].got, v[e].got \o A) /\ IsPrefix(v[e].got \o A, v[Other(e)].sent)
  <2> DEFINE g == v[e].got
             s == v[Other(e)].sent
  <2>1. g \in Seq(Msg) /\ s \in Seq(Msg) /\ IsPrefix(g \o (A \o B), s) BY <1>1, <1>4, <1>7
  <2> HIDE DEF g, s
  <2>2. /\ g \o A \in Seq(Msg) /\ (g \o A) \o B = g \o (A \o B) /\ (g \o A) \o B \in Seq(Msg)
    <3>1. g \o A \in Seq(Msg) BY <2>1, ConcatProperties
    <3>2. (g \o A) \o B \in Seq(Msg) BY <3>1, ConcatProperties
    <3>3. QED BY <2>1, <3>1, <3>2, WordsJoin, SMTT(40)
  <2>3. IsPrefix(g, g \o A) /\ IsPrefix(g \o A, (g \o A) \o B) BY <2>1, <2>2, PrefixJoin
  <2>4. IsPrefix(g \o A, s) BY <2>1, <2>2, <2>3, PrefixTrans
  <2>5. QED BY <2>3, <2>4 DEF g, s
<1>9. QED BY <1>4, <1>5, <1>8

LEMMA GotSent ==
    ASSUME IInv, NEW e \in End, netc[e].life = "live"
    PROVE  IsPrefix(got[e], sent[Other(e)])
<1>1. /\ View[e].c = netc[e] /\ View[e].got = got[e] /\ View[Other(e)].sent = sent[Other(e)]
      /\ got[e] \in Seq(Msg) /\ sent[Other(e)] \in Seq(Msg)
  BY Viewed, Ends DEF IInv, TypeOK
<1>2. Hears(View, e) BY <1>1, InvBroken DEF Broken
<1>3. CASE Lined(View, e)
  <2>1. PICK R : R \in Seq(Msg) /\ IsPrefix(View[e].got \o R, View[Other(e)].sent)
    BY <1>3 DEF Lined
  <2>2. got[e] \o R \in Seq(Msg) /\ IsPrefix(got[e], got[e] \o R)
    BY <1>1, <2>1, ConcatProperties, PrefixJoin
  <2>3. QED BY <1>1, <2>1, <2>2, PrefixTrans
<1>4. CASE Deaf(View[e])
  <2> DEFINE s == sent[Other(e)]
             g == got[e]
  <2>1. s \in Seq(Msg) /\ g \in Seq(Msg) /\ g = <<>> BY <1>1, <1>4 DEF Deaf
  <2> HIDE DEF s, g
  <2>2. IsPrefix(g, g \o s) /\ <<>> \o s = s BY <2>1, PrefixJoin, ConcatEmptySeq
  <2>3. QED BY <2>1, <2>2 DEF s, g
<1>5. QED BY <1>2, <1>3, <1>4 DEF Hears

LEMMA Receives ==
    ASSUME IInv, NEW e \in End, netc[e].life = "live", NEW n \in Nat, n <= Len(wire[e]),
           NEW x, x = Working(e, [netc[e] EXCEPT !.bio = @ \o SubSeq(wire[e], 1, n)]),
           NEW rest, rest = SubSeq(wire[e], n + 1, Len(wire[e])),
           NEW y, y = net_on_input(e, SubSeq(wire[e], 1, n))
    PROVE  /\ x \in Work /\ x.tx = <<>> /\ x.sent = sent[e] /\ x.got = got[e]
           /\ rest \in Seq(Record)
           /\ y = IF netc[e].status = "NOINIT" THEN Working(e, netc[e]) ELSE Came(e, x)
           /\ x.c.life = netc[e].life /\ x.c.status = netc[e].status /\ x.c.hs = netc[e].hs
           /\ x.c.out = netc[e].out /\ x.c.enc = netc[e].enc /\ x.c.session = netc[e].session
           /\ x.c.bio \o rest = netc[e].bio \o wire[e]
           /\ \A Q : OnLine(netc[e], wire[e], Q) => OnLine(x.c, rest, Q)
           /\ Deaf(View[e]) /\ e = "server" /\ netc[e].status # "NOINIT" => y = x
           /\ y \in Work /\ IsPrefix(sent[e], y.sent) /\ IsPrefix(got[e], y.got)
           /\ IsPrefix(y.got, sent[Other(e)])
<1>1. TypeOK /\ kind \in {"switch", "prov", "p2p"} BY KindIs DEF IInv
<1>2. /\ View \in [End -> Side] /\ View[e] \in Side /\ Other(e) \in End
      /\ \A f \in End : /\ View[f].c = netc[f] /\ View[f].w = wire[f]
                        /\ View[f].sent = sent[f] /\ View[f].got = got[f]
  BY <1>1, Viewed, Ends
<1> DEFINE c == [View[e].c EXCEPT !.bio = @ \o SubSeq(View[e].w, 1, n)]
<1>3. x = [c |-> c, tx |-> <<>>, sent |-> View[e].sent, got |-> View[e].got]
  BY <1>2 DEF Working
<1>4. rest = SubSeq(View[e].w, n + 1, Len(View[e].w)) /\ n <= Len(View[e].w) BY <1>2
<1>5. /\ c \in Conn /\ rest \in Seq(Record)
      /\ c.life = View[e].c.life /\ c.status = View[e].c.status /\ c.hs = View[e].c.hs
      /\ c.out = View[e].c.out /\ c.enc = View[e].c.enc /\ c.session = View[e].c.session
      /\ c.bio \o rest = View[e].c.bio \o View[e].w
  <2> DEFINE s == View[e]
  <2>1. s \in Side /\ n <= Len(s.w) /\ n \in Nat BY <1>2, <1>4
  <2> HIDE DEF s
  <2>2. c = [s.c EXCEPT !.bio = @ \o SubSeq(s.w, 1, n)] /\ rest = SubSeq(s.w, n + 1, Len(s.w))
    BY <1>4 DEF s
  <2> HIDE DEF c
  <2>3. /\ c \in Conn /\ rest \in Seq(Record)
        /\ c.life = s.c.life /\ c.status = s.c.status /\ c.hs = s.c.hs
        /\ c.out = s.c.out /\ c.enc = s.c.enc /\ c.session = s.c.session
        /\ c.bio \o rest = s.c.bio \o s.w
    <3>1. c = Fetched(s, n) /\ rest = Left(s, n) BY ONLY <2>2 DEF Fetched, Left
    <3>2. QED BY ONLY <2>1, <3>1, Reading, Zenon
  <2>4. QED BY <2>3 DEF s
<1> HIDE DEF c
<1>7. x \in Work /\ x.c = c /\ x.tx = <<>> /\ x.sent = View[e].sent /\ x.got = View[e].got
  BY <1>2, <1>3, <1>5, WorkOn
<1>6. y = IF netc[e].status = "NOINIT" THEN Working(e, netc[e]) ELSE Came(e, x)
  <2>1. netc[e].status \in {"NOINIT", "HANDSHAKE", "SECURE"} /\ x.c.status = netc[e].status
    BY <1>2, <1>5, <1>7 DEF Side, Conn
  <2>2. y = CASE x.c.status = "NOINIT"    -> Working(e, netc[e])
              [] x.c.status = "HANDSHAKE" -> Handshake(e, x)
              [] x.c.status = "SECURE"    -> Secure(e, x)
    BY DEF net_on_input
  <2>3. QED BY <2>1, <2>2 DEF Came
<1>8. \A Q : OnLine(View[e].c, View[e].w, Q) => OnLine(x.c, rest, Q)
  BY <1>5, <1>7 DEF OnLine
<1>9. ASSUME Deaf(View[e]), e = "server", netc[e].status # "NOINIT" PROVE y = x
  <2>1. Len(x.c.bio) < 2
    <3>1. x.c.bio \in Seq(Record) /\ rest \in Seq(Record) /\ Len(x.c.bio \o rest) <= 1
      BY <1>5, <1>7, <1>9 DEF Deaf, Work, Conn
    <3>2. Len(x.c.bio \o rest) = Len(x.c.bio) + Len(rest) /\ Len(x.c.bio) \in Nat /\ Len(rest) \in Nat
      BY <3>1, ConcatProperties, LenProperties
    <3>3. QED BY <3>1, <3>2
  <2>2. Fit(x) /\ ~Finished(x.c) /\ Speaker(x.c.hs + 1) # e
    BY <1>5, <1>7, <1>9 DEF Fit, Deaf, Finished, Speaker
  <2>3. QED BY <1>6, <1>9, <2>1, <2>2, CameNothing
<1>10. /\ y \in Work /\ IsPrefix(sent[e], y.sent) /\ IsPrefix(got[e], y.got)
       /\ IsPrefix(y.got, sent[Other(e)])
  <2>1. sent[e] \in Seq(Msg) /\ got[e] \in Seq(Msg) /\ netc[e] \in Conn BY <1>1 DEF TypeOK
  <2>2. IsPrefix(sent[e], sent[e]) /\ IsPrefix(got[e], got[e]) /\ IsPrefix(got[e], sent[Other(e)])
    BY <2>1, PrefixSelf, GotSent
  <2>3. CASE netc[e].status = "NOINIT"
    <3>1. y = [c |-> netc[e], tx |-> <<>>, sent |-> sent[e], got |-> got[e]]
      BY <1>6, <2>3 DEF Working
    <3>2. y \in Work /\ y.sent = sent[e] /\ y.got = got[e] BY <1>2, <2>1, <3>1, WorkOn
    <3>3. QED BY <2>2, <3>2
  <2>4. CASE netc[e].status # "NOINIT" /\ Lined(View, e)
    <3>1. /\ y \in Work /\ IsPrefix(View[e].sent, y.sent) /\ IsPrefix(View[e].got, y.got)
          /\ IsPrefix(y.got, View[Other(e)].sent)
      BY <1>1, <1>2, <1>5, <1>6, <1>7, <1>8, <2>4, CameHeard
    <3>2. QED BY <1>2, <3>1
  <2>5. CASE netc[e].status # "NOINIT" /\ e = "server" /\ Deaf(View[e])
    BY <1>2, <1>7, <1>9, <2>2, <2>5
  <2>6. QED BY <1>2, <2>3, <2>4, <2>5, InvBroken DEF Broken, Hears
<1>11. QED BY <1>2, <1>5, <1>6, <1>7, <1>8, <1>9, <1>10

-----------------------------------------------------------------------------
(* The steps. *)

(* Each step keeps the invariant, and is a step of the channel or none. *)
Steps == (\E e \in End : TheChannel!Open(e) \/ TheChannel!Work(e))
           \/ UNCHANGED <<sent, got, {e \in End : netc[e].life = "live"}>>

LEMMA DoneTyped ==
    ASSUME TypeOK, NEW e \in End, NEW y \in Work, Done(e, y), kind' = kind, undef' \in BOOLEAN,
           dropped' \in BOOLEAN, wire' \in [End -> Seq(Record)]
    PROVE  /\ TypeOK' /\ View' \in [End -> Side]
           /\ up' = (up /\ y.c.life = "live")
           /\ View'[e].c = y.c /\ View'[e].w = wire'[e]
           /\ View'[e].sent = y.sent /\ View'[e].got = y.got
           /\ View'[Other(e)].c = View[Other(e)].c /\ View'[Other(e)].w = wire'[Other(e)]
           /\ View'[Other(e)].sent = View[Other(e)].sent
           /\ View'[Other(e)].got = View[Other(e)].got
<1>1. y.c \in Conn /\ y.sent \in Seq(Msg) /\ y.got \in Seq(Msg) BY DEF Work
<1>2. /\ netc' = [netc EXCEPT ![e] = y.c] /\ sent' = [sent EXCEPT ![e] = y.sent]
      /\ got' = [got EXCEPT ![e] = y.got] /\ up' = (up /\ y.c.life = "live")
  BY DEF Done
<1>3. Other(e) \in End /\ Other(e) # e BY Ends
<1>4. /\ netc' \in [End -> Conn] /\ sent' \in [End -> Seq(Msg)] /\ got' \in [End -> Seq(Msg)]
      /\ netc'[e] = y.c /\ sent'[e] = y.sent /\ got'[e] = y.got
      /\ netc'[Other(e)] = netc[Other(e)] /\ sent'[Other(e)] = sent[Other(e)]
      /\ got'[Other(e)] = got[Other(e)]
  BY <1>1, <1>2, <1>3 DEF TypeOK
<1>5. up' \in BOOLEAN BY <1>2
<1>6. TypeOK' BY <1>4, <1>5 DEF TypeOK
<1>7. QED BY <1>2, <1>3, <1>4, <1>6, Viewed, ViewedNext

(* On the channel, such a step is the work of one end. *)
LEMMA DoneWork ==
    ASSUME TypeOK, NEW e \in End, NEW y \in Work, Done(e, y), netc[e].life = "live",
           IsPrefix(sent[e], y.sent), IsPrefix(got[e], y.got), IsPrefix(y.got, sent[Other(e)])
    PROVE  TheChannel!Work(e)
<1>1. /\ netc' = [netc EXCEPT ![e] = y.c] /\ sent' = [sent EXCEPT ![e] = y.sent]
      /\ got' = [got EXCEPT ![e] = y.got]
  BY DEF Done
<1>2. /\ netc \in [End -> Conn] /\ sent \in [End -> Seq(Msg)] /\ got \in [End -> Seq(Msg)]
  BY DEF TypeOK
<1>3. Other(e) \in End \ {e} /\ \A f \in End \ {e} : f = Other(e) BY Ends
<1>4. /\ sent'[e] = y.sent /\ got'[e] = y.got
      /\ \A f \in End \ {e} : netc'[f] = netc[f] /\ sent'[f] = sent[f] /\ got'[f] = got[f]
  BY <1>1, <1>2
<1> DEFINE open == {f \in End : netc[f].life = "live"}
           open2 == {f \in End : netc'[f].life = "live"}
<1>5. e \in open /\ open2 \in {open, open \ {e}} BY <1>4
<1>6. \E f \in End \ {e} : IsPrefix(got'[e], sent[f]) BY <1>3, <1>4
<1>7. QED BY <1>4, <1>5, <1>6 DEF TheChannel!Work, TheChannel!IsPrefix, IsPrefix

(* A piece of the hello goes nowhere. *)
LEMMA DropStalls ==
    ASSUME NEW v \in [End -> Side], NEW v2 \in [End -> Side], Connected(kind, v), NEW e \in End,
           v[e].c.life = "live", v[e].c.status = "NOINIT", NEW n \in Nat, n > 0, n <= Len(v[e].w),
           v2[e].c = v[e].c, v2[e].w = SubSeq(v[e].w, n + 1, Len(v[e].w)),
           v2[e].sent = v[e].sent, v2[e].got = v[e].got, v2[Other(e)] = v[Other(e)]
    PROVE  Stalled(kind, v2)
<1>1. e = "server" /\ Unready(kind, v) /\ Live("client", v)
  <2>1. ~Quiet(e, v[e].c) BY DEF Quiet
  <2>2. QED BY <2>1 DEF Connected, Live, End
<1>2. kind = "p2p" /\ v["server"].c = Fresh("live") /\ Shaking(kind, 1, v)
  BY <1>1, FreshConn DEF Unready
<1>3. /\ "client" \in End /\ Other("server") = "client" /\ Other("client") = "server"
      /\ Speaker(1) = "client"
  BY Ends DEF End, Speaker
<1>4. v["client"] \in Side /\ v["server"] \in Side BY <1>1, <1>3
<1>5. /\ v["client"].c.hs = 1 /\ v["client"].c.session = "NOT_AUTHED"
      /\ Awaits(v, "client", <<>>, <<>>)
  BY <1>2, <1>3 DEF Shaking
<1>6. Awaits(v, "server", <<Flight(1)>>, <<>>)
  <2>1. PICK R \in Talk : /\ Awaits(v, "server", Lead(1, Bring(LastKeys(kind), R)), R)
                          /\ 1 < LastFlight(kind) => R = <<>>
    BY <1>2, <1>3 DEF Shaking
  <2>2. R = <<>> BY <2>1 DEF LastFlight
  <2>3. Lead(1, Bring(LastKeys(kind), <<>>)) = <<Flight(1)>> BY BringNone, LeadNothing
  <2>4. QED BY <2>1, <2>2, <2>3
<1>7. v["client"].c.bio = <<>> /\ v["client"].w = <<>>
  BY <1>4, <1>5, NoLine DEF Side, Awaits
<1>8. /\ v["server"].sent = <<>> /\ v["server"].got = <<>>
      /\ v["client"].sent = <<>> /\ v["client"].got = <<>>
  <2>1. v["server"].sent = <<>> /\ v["server"].got = <<>> BY <1>1 DEF Unready
  <2>2. v["server"].sent = v["client"].got \o <<>> /\ v["client"].sent = v["server"].got \o <<>>
    BY <1>3, <1>5, <1>6 DEF Awaits
  <2>3. v["client"].got \in Seq(Msg) /\ v["server"].got \in Seq(Msg) BY <1>4 DEF Side
  <2>4. v["client"].got \o <<>> = v["client"].got /\ v["server"].got \o <<>> = v["server"].got
    BY <2>3, ConcatEmptySeq
  <2>5. QED BY <2>1, <2>2, <2>4
<1>9. Len(v2["server"].c.bio \o v2["server"].w) <= 1
  <2> DEFINE w == v["server"].w
             r == SubSeq(w, n + 1, Len(w))
  <2>1. w \in Seq(Record) BY <1>4 DEF Side
  <2>2. Len(w) = 2
    <3>1. v["server"].c.bio = <<>> BY <1>2, FreshConn
    <3>2. <<>> \o w = Units(<<Flight(1)>>) BY <1>6, <3>1 DEF Awaits, OnLine
    <3>3. Len(Units(<<Flight(1)>>)) = 2
      <4>1. <<Flight(1)>> \in Seq(Record) /\ Len(<<Flight(1)>>) = 1 BY FlightRecord
      <4> DEFINE F == <<Flight(1)>>
      <4> HIDE DEF F
      <4>2. F \in Seq(Record) /\ Len(F) = 1 BY ONLY <4>1 DEF F
      <4>3. Len(Units(F)) = 2 * Len(F) BY ONLY <4>2, UnitsSeq, Zenon
      <4>4. Len(Units(F)) = 2 BY ONLY <4>2, <4>3
      <4>5. QED BY <4>4 DEF F
    <3> HIDE DEF w
    <3>4. <<>> \o w = w BY ONLY <2>1, NoTx
    <3>5. QED BY ONLY <3>2, <3>3, <3>4, Zenon
  <2> HIDE DEF w
  <2>3. n = 1 \/ n = 2 BY <1>1, <2>2 DEF w
  <2>4. r \in Seq(Record) /\ Len(r) <= 1
    <3>1. n + 1 \in 1 .. Len(w) + 1 /\ Len(w) \in (n + 1) - 1 .. Len(w) BY <2>2, <2>3
    <3>2. r \in Seq(Record) /\ Len(r) = IF n + 1 <= Len(w) THEN Len(w) - (n + 1) + 1 ELSE 0
      BY <2>1, <3>1, SubSeqProperties
    <3>3. QED BY <2>2, <2>3, <3>2
  <2> HIDE DEF r
  <2>5. v2["server"].c.bio = <<>> /\ v2["server"].w = r BY <1>1, <1>2, FreshConn DEF r, w
  <2>6. <<>> \o r = r BY <2>4, NoTx
  <2>7. QED BY <2>4, <2>5, <2>6
<1>10. Deaf(v2["server"]) BY <1>1, <1>2, <1>8, <1>9, FreshConn DEF Deaf
<1>11. v2["client"] = v["client"] /\ v2["server"].c.life = "live" /\ v2["server"].sent = <<>>
  BY <1>1, <1>3, <1>8
<1>12. QED BY <1>1, <1>2, <1>5, <1>7, <1>8, <1>10, <1>11 DEF Stalled, Live, End

LEMMA InputStep ==
    ASSUME IInv, NEW e \in End, NEW n \in Nat, n > 0, Input(e, n)
    PROVE  IInv' /\ TheChannel!Work(e)
<1> DEFINE x == Working(e, [netc[e] EXCEPT !.bio = @ \o SubSeq(wire[e], 1, n)])
           rest == SubSeq(wire[e], n + 1, Len(wire[e]))
           y == net_on_input(e, SubSeq(wire[e], 1, n))
           o == Other(e)
<1>1. /\ ~undef /\ undef' = undef /\ kind' = kind /\ up /\ netc[e].life = "live" /\ n <= Len(wire[e])
      /\ Done(e, y) /\ dropped' = (dropped \/ netc[e].status = "NOINIT")
      /\ wire' = [wire EXCEPT ![e] = rest, ![o] = @ \o Units(y.tx)]
  BY DEF Input, Defined
<1>2. /\ x \in Work /\ x.tx = <<>> /\ x.sent = sent[e] /\ x.got = got[e]
      /\ rest \in Seq(Record)
      /\ y = IF netc[e].status = "NOINIT" THEN Working(e, netc[e]) ELSE Came(e, x)
      /\ x.c.life = netc[e].life /\ x.c.status = netc[e].status /\ x.c.hs = netc[e].hs
      /\ x.c.out = netc[e].out /\ x.c.enc = netc[e].enc /\ x.c.session = netc[e].session
      /\ x.c.bio \o rest = netc[e].bio \o wire[e]
      /\ \A Q : OnLine(netc[e], wire[e], Q) => OnLine(x.c, rest, Q)
      /\ Deaf(View[e]) /\ e = "server" /\ netc[e].status # "NOINIT" => y = x
      /\ y \in Work /\ IsPrefix(sent[e], y.sent) /\ IsPrefix(got[e], y.got)
      /\ IsPrefix(y.got, sent[Other(e)])
  BY <1>1, Receives
<1>3. rest = SubSeq(wire[e], n + 1, Len(wire[e])) OBVIOUS
<1> HIDE DEF x, rest, y
<1>4. /\ TypeOK /\ kind \in {"switch", "prov", "p2p"} /\ wire \in [End -> Seq(Record)]
      /\ undef' \in BOOLEAN /\ dropped' \in BOOLEAN
  BY <1>1, KindIs DEF IInv, TypeOK
<1>5. TheChannel!Work(e) BY <1>1, <1>2, <1>4, DoneWork
<1>6. o \in End /\ o # e /\ \A f \in End : f = e \/ f = o BY Ends
<1>7. wire[o] \o Units(y.tx) \in Seq(Record)
  <2>1. y.tx \in Seq(Record) BY <1>2 DEF Work
  <2>2. Units(y.tx) \in Seq(Record) /\ wire[o] \in Seq(Record)
    BY <2>1, <1>4, <1>6, UnitsSeq
  <2>3. QED BY <2>2, ConcatProperties
<1>8. /\ wire' \in [End -> Seq(Record)] /\ wire'[e] = rest /\ wire'[o] = wire[o] \o Units(y.tx)
  BY <1>1, <1>2, <1>4, <1>6, <1>7
<1>9. /\ View \in [End -> Side]
      /\ \A f \in End : /\ View[f].c = netc[f] /\ View[f].w = wire[f]
                        /\ View[f].sent = sent[f] /\ View[f].got = got[f]
  BY <1>4, Viewed
<1>10. /\ TypeOK' /\ View' \in [End -> Side]
       /\ up' = (up /\ y.c.life = "live")
       /\ View'[e].c = y.c /\ View'[e].w = wire'[e]
       /\ View'[e].sent = y.sent /\ View'[e].got = y.got
       /\ View'[o].c = View[o].c /\ View'[o].w = wire'[o]
       /\ View'[o].sent = View[o].sent /\ View'[o].got = View[o].got
  BY <1>1, <1>2, <1>4, <1>8, DoneTyped, ZenonT(60)
<1>11. wire[e] # <<>> /\ ~Early(kind, View)
  <2>1. wire[e] # <<>> BY <1>1
  <2>2. QED BY <1>9, <2>1 DEF Early
<1>12. ASSUME y.tx = <<>> PROVE View'[o] = View[o]
  <2>1. View'[o] \in Side /\ View[o] \in Side /\ wire[o] \in Seq(Record)
    BY <1>4, <1>6, <1>9, <1>10
  <2>2. wire[o] \o Units(<<>>) = wire[o]
    <3>1. Units(<<>>) = <<>> BY DEF Units
    <3>2. QED BY <2>1, <3>1, ConcatEmptySeq
  <2>3. View'[o].w = View[o].w BY <1>6, <1>8, <1>9, <1>10, <1>12, <2>2
  <2>4. QED BY <1>10, <2>1, <2>3, SameSide
<1>13. ASSUME netc[e].status = "NOINIT"
       PROVE  y \in Work /\ y.c = netc[e] /\ y.tx = <<>> /\ y.sent = sent[e] /\ y.got = got[e]
  <2>1. y = [c |-> netc[e], tx |-> <<>>, sent |-> sent[e], got |-> got[e]]
    BY <1>2, <1>13 DEF Working
  <2>2. QED BY <1>2, <2>1
<1>14. CASE ~dropped /\ netc[e].status # "NOINIT"
  <2>1. Connected(kind, View) /\ ~dropped' BY <1>1, <1>11, <1>14 DEF IInv, Sound
  <2>2. Quiet(e, View[e].c)
    <3>1. View[e].c.status # "NOINIT" BY <1>9, <1>14
    <3>2. QED BY <2>1, <3>1, FreshConn DEF Connected, Live, Unready, End
  <2>3. Taken(e, View, x, rest, y, View')
    <3>1. Moves(e, View, y, rest, View') BY <1>6, <1>8, <1>9, <1>10 DEF Moves
    <3>2. x.c.out = <<>> /\ x.c.enc = <<>> BY <2>2, <1>2, <1>9 DEF Quiet
    <3>3. Fed(e, View, x, rest) BY <3>2, <1>2, <1>9 DEF Fed, Fit
    <3>4. QED BY <2>2, <3>1, <3>3, <1>2, <1>4, <1>9, <1>14 DEF Taken
  <2>4. View[e].c.life = "live" /\ View[e].w # <<>> BY <1>1, <1>9, <1>11
  <2>5. IF y.c.life = "live" THEN Connected(kind, View') ELSE Broken(kind, View')
    BY <1>9, <1>10, <2>1, <2>3, <2>4, InputConnected
  <2>6. Sound' BY <1>1, <1>10, <2>1, <2>5 DEF Sound
  <2>7. QED BY <1>5, <1>10, <2>6 DEF IInv
<1>15. CASE ~dropped /\ netc[e].status = "NOINIT"
  <2>1. Connected(kind, View) /\ dropped' BY <1>1, <1>11, <1>15 DEF IInv, Sound
  <2>2. /\ View'[o] = View[o] /\ View'[e].c = View[e].c /\ View'[e].w = rest
        /\ View'[e].sent = View[e].sent /\ View'[e].got = View[e].got
    BY <1>8, <1>9, <1>10, <1>12, <1>13, <1>15
  <2>3. View[e].c.life = "live" /\ View[e].c.status = "NOINIT" /\ n <= Len(View[e].w)
    BY <1>1, <1>9, <1>15
  <2>4. rest = SubSeq(View[e].w, n + 1, Len(View[e].w)) BY <1>3, <1>9
  <2>5. Stalled(kind, View')
    <3>1. View'[e].w = SubSeq(View[e].w, n + 1, Len(View[e].w)) /\ View'[Other(e)] = View[Other(e)]
      BY <2>2, <2>4
    <3>2. QED BY <1>9, <1>10, <2>1, <2>2, <2>3, <3>1, DropStalls
  <2>6. up' BY <1>1, <1>10, <1>13, <1>15
  <2>7. Sound' BY <1>1, <2>1, <2>5, <2>6 DEF Sound
  <2>8. QED BY <1>5, <1>10, <2>7 DEF IInv
<1>16. CASE dropped
  <2>1. Stalled(kind, View) /\ dropped' BY <1>1, <1>16 DEF IInv, Sound
  <2>2. e = "server" /\ o = "client" /\ Deaf(View["server"])
    BY <1>9, <1>11, <2>1, Ends DEF Stalled, End
  <2>3. /\ y.tx = <<>> /\ y.sent = sent[e] /\ y.got = got[e] /\ y.c.life = "live"
        /\ y.c.hs = netc[e].hs /\ y.c.out = netc[e].out /\ y.c.enc = netc[e].enc
        /\ y.c.session = netc[e].session
        /\ y.c = netc[e] \/ (y.c.status = netc[e].status /\ y.c = x.c)
    BY <1>1, <1>2, <1>13, <2>2
  <2>4. View'["client"] = View["client"] BY <1>12, <2>2, <2>3
  <2>5. Len(y.c.bio \o rest) <= 1
    <3>1. Len(netc[e].bio \o wire[e]) <= 1 BY <1>9, <2>2 DEF Deaf
    <3>2. CASE y.c = x.c BY <1>2, <3>1, <3>2
    <3>3. CASE y.c = netc[e]
      <4> DEFINE b == netc[e].bio
                 w == wire[e]
      <4>1. b \in Seq(Record) /\ w \in Seq(Record) /\ n \in 0 .. Len(w)
        BY <1>1, <1>4 DEF TypeOK, Conn
      <4>2. rest = SubSeq(w, n + 1, Len(w)) /\ rest \in Seq(Record) BY <1>2, <1>3
      <4> HIDE DEF b, w
      <4>3. SubSeq(w, 1, n) \in Seq(Record) /\ w = SubSeq(w, 1, n) \o rest
        BY <4>1, <4>2, CutAndJoin
      <4> DEFINE a == SubSeq(w, 1, n)
      <4> HIDE DEF a
      <4>4. Len(w) = Len(a) + Len(rest) /\ Len(a) \in Nat /\ Len(rest) \in Nat
        BY <4>2, <4>3, ConcatProperties, LenProperties DEF a
      <4>5. Len(b \o w) = Len(b) + Len(w) /\ Len(b \o rest) = Len(b) + Len(rest) /\ Len(b) \in Nat
        BY <4>1, <4>2, ConcatProperties, LenProperties
      <4>6. Len(b \o rest) <= Len(b \o w) BY <4>4, <4>5
      <4>7. Len(b \o w) <= 1 BY <3>1 DEF b, w
      <4>8. Len(b \o rest) <= 1 BY ONLY <4>4, <4>5, <4>7
      <4>9. y.c.bio = b BY <3>3 DEF b
      <4>10. QED BY ONLY <4>8, <4>9, Zenon
    <3>4. QED BY <2>3, <3>2, <3>3
  <2>6. Deaf(View'["server"]) /\ View'["server"].c.life = "live" /\ View'["server"].sent = <<>>
    <3>1. y.c = Fresh("live") \/ y.c.status = "HANDSHAKE"
      <4>1. netc[e] = Fresh("live") \/ netc[e].status = "HANDSHAKE" BY <1>9, <2>2 DEF Deaf
      <4>2. QED BY <1>13, <2>3, <4>1, FreshConn
    <3>2. View["server"].got = <<>> /\ View["server"].sent = <<>>
      BY <2>1 DEF Stalled, Deaf, End
    <3>3. View'["server"].c = y.c /\ View'["server"].w = rest /\ View'["server"].got = <<>>
      BY <1>8, <1>9, <1>10, <2>2, <2>3, <3>2
    <3>4. y.c.hs = 0 /\ y.c.out = <<>> /\ y.c.enc = <<>> /\ y.c.session = "NOT_AUTHED"
      BY <1>9, <2>2, <2>3 DEF Deaf
    <3>5. QED BY <1>9, <1>10, <2>2, <2>3, <2>5, <3>1, <3>2, <3>3, <3>4 DEF Deaf
  <2>7. Stalled(kind, View') BY <2>1, <2>4, <2>6 DEF Stalled, Live, End
  <2>8. up' BY <1>1, <1>10, <2>3
  <2>9. Sound' BY <1>1, <2>1, <2>7, <2>8 DEF Sound
  <2>10. QED BY <1>5, <1>10, <2>9 DEF IInv
<1>17. QED BY <1>14, <1>15, <1>16

(* An end is freed: the other one keeps what is on its way. *)
LEMMA FreedStep ==
    ASSUME IInv, NEW e \in End, netc[e].life = "live", NEW y \in Work, y.c = Fresh("freed"),
           Done(e, y), kind' = kind, undef' \in BOOLEAN, dropped' \in BOOLEAN,
           IsPrefix(sent[e], y.sent), IsPrefix(got[e], y.got), IsPrefix(y.got, sent[Other(e)]),
           wire' \in [End -> Seq(Record)], wire'[Other(e)] = wire[Other(e)],
           kind # "p2p" => wire'[e] = wire[e]
    PROVE  IInv' /\ TheChannel!Work(e)
<1> DEFINE o == Other(e)
<1>1. TypeOK /\ o \in End /\ o # e BY Ends DEF IInv
<1>2. TheChannel!Work(e) BY <1>1, DoneWork
<1>3. /\ View \in [End -> Side]
      /\ \A f \in End : /\ View[f].c = netc[f] /\ View[f].w = wire[f]
                        /\ View[f].sent = sent[f] /\ View[f].got = got[f]
  BY <1>1, Viewed
<1>4. /\ TypeOK' /\ View' \in [End -> Side]
      /\ up' = (up /\ y.c.life = "live")
      /\ View'[e].c = y.c /\ View'[e].w = wire'[e]
      /\ View'[e].sent = y.sent /\ View'[e].got = y.got
      /\ View'[o].c = View[o].c /\ View'[o].w = wire'[o]
      /\ View'[o].sent = View[o].sent /\ View'[o].got = View[o].got
  BY <1>1, DoneTyped
<1>5. View'[o] = View[o]
  <2>1. View'[o] \in Side /\ View[o] \in Side /\ View'[o].w = View[o].w
    BY <1>1, <1>3, <1>4
  <2>2. QED BY <1>4, <2>1, SameSide
<1>6. Broken(kind, View) BY InvBroken
<1>7. kind # "p2p" => View'[e].w \in Seq(Proper) BY <1>3, <1>4, <1>6 DEF Broken, Certified
<1>8. View'[e].c = Fresh("freed") /\ IsPrefix(View[e].sent, View'[e].sent) BY <1>3, <1>4
<1>9. Broken(kind, View') BY <1>3, <1>4, <1>5, <1>6, <1>7, <1>8, FreedBroken
<1>10. ~up' BY <1>4, FreshConn
<1>11. Sound' BY <1>9, <1>10 DEF Sound
<1>12. QED BY <1>2, <1>4, <1>11 DEF IInv

(* Nothing was worked out yet: an end as it is, or as it was. *)
LEMMA Untouched ==
    ASSUME IInv, NEW e \in End, netc[e].life = "live", NEW x, x = Working(e, netc[e])
    PROVE  /\ x \in Work /\ x.c = netc[e] /\ x.tx = <<>> /\ x.sent = sent[e] /\ x.got = got[e]
           /\ IsPrefix(sent[e], x.sent) /\ IsPrefix(got[e], x.got) /\ IsPrefix(x.got, sent[Other(e)])
<1>1. netc[e] \in Conn /\ sent[e] \in Seq(Msg) /\ got[e] \in Seq(Msg) /\ <<>> \in Seq(Record)
  BY EmptySeq DEF IInv, TypeOK
<1>2. x = [c |-> netc[e], tx |-> <<>>, sent |-> sent[e], got |-> got[e]] BY DEF Working
<1>3. x \in Work /\ x.c = netc[e] /\ x.tx = <<>> /\ x.sent = sent[e] /\ x.got = got[e]
  BY <1>1, <1>2 DEF Work
<1>4. QED BY <1>1, <1>3, PrefixSelf, GotSent

(* The socket is broken: the end reads once more and is freed. *)
LEMMA LastInputStep ==
    ASSUME IInv, NEW e \in End, NEW n \in Nat, LastInput(e, n)
    PROVE  IInv' /\ TheChannel!Work(e)
<1> DEFINE x == IF n = 0 THEN Working(e, netc[e]) ELSE net_on_input(e, SubSeq(wire[e], 1, n))
<1>1. /\ undef' \in BOOLEAN /\ kind' = kind /\ netc[e].life = "live" /\ n <= Len(wire[e])
      /\ Done(e, Freed(x)) /\ wire' = wire /\ dropped' = dropped
  BY DEF LastInput, Undropped
<1>2. /\ x \in Work /\ IsPrefix(sent[e], x.sent) /\ IsPrefix(got[e], x.got)
      /\ IsPrefix(x.got, sent[Other(e)])
  <2>1. CASE n = 0 BY <1>1, <2>1, Untouched
  <2>2. CASE n # 0
    <3>1. x = net_on_input(e, SubSeq(wire[e], 1, n)) BY <2>2
    <3> HIDE DEF x
    <3>2. QED BY <1>1, <3>1, Receives, ZenonT(60)
  <2>3. QED BY <2>1, <2>2
<1> HIDE DEF x
<1> DEFINE y == Freed(x)
<1>3. y \in Work /\ y.c = Fresh("freed") /\ y.sent = x.sent /\ y.got = x.got
  BY <1>2, FreedWork
<1>4. Done(e, y) BY <1>1
<1> HIDE DEF y
<1>5. wire' \in [End -> Seq(Record)] /\ dropped' \in BOOLEAN BY <1>1 DEF IInv, TypeOK
<1>6. /\ IsPrefix(sent[e], y.sent) /\ IsPrefix(got[e], y.got) /\ IsPrefix(y.got, sent[Other(e)])
      /\ wire'[Other(e)] = wire[Other(e)] /\ (kind # "p2p" => wire'[e] = wire[e])
  BY <1>1, <1>2, <1>3
<1>7. QED BY <1>1, <1>3, <1>4, <1>5, <1>6, FreedStep

LEMMA HandshakeFailsStep ==
    ASSUME IInv, NEW e \in End, NEW n \in Nat, HandshakeFails(e, n)
    PROVE  IInv' /\ TheChannel!Work(e)
<1> DEFINE x == Working(e, netc[e])
           y == Freed(x)
           rest == SubSeq(wire[e], n + 1, Len(wire[e]))
<1>1. /\ ~undef /\ undef' = undef /\ kind' = kind /\ dropped' = dropped /\ dropped /\ up
      /\ netc[e].life = "live" /\ n <= Len(wire[e]) /\ Done(e, y)
      /\ wire' = [wire EXCEPT ![e] = rest]
  BY DEF HandshakeFails, Defined, Undropped
<1>2. /\ x \in Work /\ x.sent = sent[e] /\ x.got = got[e] /\ IsPrefix(sent[e], x.sent)
      /\ IsPrefix(got[e], x.got) /\ IsPrefix(x.got, sent[Other(e)])
  BY <1>1, Untouched
<1> HIDE DEF x
<1>3. y \in Work /\ y.c = Fresh("freed") /\ y.sent = x.sent /\ y.got = x.got
  BY <1>2, FreedWork
<1> HIDE DEF y
<1>4. kind = "p2p" BY <1>1 DEF IInv, Sound, Stalled
<1>5. /\ wire \in [End -> Seq(Record)] /\ undef' \in BOOLEAN /\ dropped' \in BOOLEAN
      /\ Other(e) \in End /\ Other(e) # e
  BY <1>1, Ends DEF IInv, TypeOK
<1>6. rest \in Seq(Record)
  <2> DEFINE w == wire[e]
  <2>1. w \in Seq(Record) /\ n \in 0 .. Len(w) BY <1>1, <1>5
  <2> HIDE DEF w
  <2>2. SubSeq(w, n + 1, Len(w)) \in Seq(Record) BY <2>1, CutAndJoin
  <2>3. QED BY <2>2 DEF w
<1> HIDE DEF rest
<1>7. wire' \in [End -> Seq(Record)] /\ wire'[Other(e)] = wire[Other(e)]
  BY <1>1, <1>5, <1>6
<1>8. /\ IsPrefix(sent[e], y.sent) /\ IsPrefix(got[e], y.got) /\ IsPrefix(y.got, sent[Other(e)])
  BY <1>2, <1>3
<1>9. QED BY <1>1, <1>3, <1>4, <1>5, <1>7, <1>8, FreedStep

(* A message: sent, or the send finds the socket broken and frees the end. *)
LEMMA SendStep ==
    ASSUME IInv, NEW e \in End, netc[e].life = "live", NEW m \in Msg, Send(e, m),
           up => /\ ~dropped /\ Connected(kind, View)
                 /\ \A y, v2 : v2 \in [End -> Side]
                               /\ y = net_send_msg(Working(e, netc[e]), m)
                               /\ Moves(e, View, y, wire[e], v2) =>
                      y.c.life = "live" /\ Connected(kind, v2)
    PROVE  IInv' /\ TheChannel!Work(e)
<1> DEFINE x == Working(e, netc[e])
           y == net_send_msg(x, m)
           o == Other(e)
           z == IF up THEN y ELSE Freed(y)
<1>1. /\ undef' = ~up /\ kind' = kind /\ dropped' = dropped /\ Done(e, z)
      /\ wire' = [wire EXCEPT ![o] = IF up THEN @ \o Units(y.tx) ELSE @]
  BY DEF Send, Undropped
<1>2. /\ TypeOK /\ wire \in [End -> Seq(Record)] /\ undef' \in BOOLEAN /\ dropped' \in BOOLEAN
      /\ sent[e] \in Seq(Msg) /\ got[e] \in Seq(Msg)
  BY <1>1 DEF IInv, TypeOK
<1>3. o \in End /\ o # e BY Ends
<1>4. /\ View \in [End -> Side]
      /\ \A f \in End : /\ View[f].c = netc[f] /\ View[f].w = wire[f]
                        /\ View[f].sent = sent[f] /\ View[f].got = got[f]
  BY <1>2, Viewed
<1>5. x \in Work /\ x.sent = sent[e] /\ x.got = got[e] /\ IsPrefix(x.got, sent[o])
  BY Untouched
<1>6. up => \A v2 : v2 \in [End -> Side] /\ Moves(e, View, y, wire[e], v2) =>
                      y.c.life = "live" /\ Connected(kind, v2)
  OBVIOUS
<1> HIDE DEF x
<1>7. y \in Work /\ y.sent = Append(sent[e], m) /\ y.got = got[e] BY <1>5, SendWork
<1> HIDE DEF y
<1>8. /\ z \in Work /\ z.sent = y.sent /\ z.got = y.got
      /\ up => z = y
      /\ ~up => z.c = Fresh("freed")
  BY <1>7, FreedWork
<1>9. IsPrefix(sent[e], z.sent) /\ IsPrefix(got[e], z.got) /\ IsPrefix(z.got, sent[o])
  <2>1. IsPrefix(sent[e], Append(sent[e], m)) /\ IsPrefix(got[e], got[e])
    BY <1>2, PrefixAppend, PrefixSelf
  <2>2. QED BY <2>1, <1>5, <1>7, <1>8
<1>10. wire[o] \o Units(y.tx) \in Seq(Record)
  <2>1. y.tx \in Seq(Record) BY <1>7 DEF Work
  <2>2. Units(y.tx) \in Seq(Record) /\ wire[o] \in Seq(Record)
    BY <2>1, <1>2, <1>3, UnitsSeq
  <2>3. QED BY <2>2, ConcatProperties
<1>11. /\ wire' \in [End -> Seq(Record)] /\ wire'[e] = wire[e]
       /\ wire'[o] = IF up THEN wire[o] \o Units(y.tx) ELSE wire[o]
  BY <1>1, <1>2, <1>3, <1>10
<1> HIDE DEF z
<1>12. CASE up
  <2>1. TheChannel!Work(e) BY <1>1, <1>2, <1>8, <1>9, DoneWork
  <2>2. /\ TypeOK' /\ View' \in [End -> Side]
        /\ up' = (up /\ z.c.life = "live")
        /\ View'[e].c = z.c /\ View'[e].w = wire'[e]
        /\ View'[e].sent = z.sent /\ View'[e].got = z.got
        /\ View'[o].c = View[o].c /\ View'[o].w = wire'[o]
        /\ View'[o].sent = View[o].sent /\ View'[o].got = View[o].got
    BY <1>1, <1>2, <1>8, <1>11, DoneTyped
  <2>3. Moves(e, View, y, wire[e], View')
    BY <1>3, <1>4, <1>8, <1>11, <1>12, <2>2 DEF Moves
  <2>4. y.c.life = "live" /\ Connected(kind, View') BY <1>6, <1>12, <2>2, <2>3
  <2>5. Sound' BY <1>1, <1>8, <1>12, <2>2, <2>4 DEF Sound
  <2>6. QED BY <2>1, <2>2, <2>5 DEF IInv
<1>13. CASE ~up
  <2>1. z.c = Fresh("freed") /\ wire'[Other(e)] = wire[Other(e)] BY <1>8, <1>11, <1>13
  <2>2. QED BY <1>1, <1>2, <1>8, <1>9, <1>11, <2>1, FreedStep
<1>14. QED BY <1>12, <1>13

(* An end whose session is not new, or that was given something. *)
LEMMA Underway ==
    ASSUME IInv, up, NEW e \in End, netc[e].session # "NOT_AUTHED" \/ (e = "server" /\ got[e] # <<>>)
    PROVE  ~dropped /\ Connected(kind, View)
<1>1. View[e].c = netc[e] /\ View[e].got = got[e] BY Viewed DEF IInv
<1>2. ~Stalled(kind, View) BY <1>1 DEF Stalled, Deaf, End
<1>3. ~Early(kind, View)
  <2>1. SUFFICES ASSUME Early(kind, View) PROVE FALSE OBVIOUS
  <2>2. View[e].c \in {Fresh("none"), Fresh("live"), Started} /\ View[e].got = <<>>
    BY <2>1 DEF Early, End
  <2>3. QED BY <1>1, <2>2, FreshConn
<1>4. QED BY <1>2, <1>3 DEF IInv, Sound

(* What a send starts from. *)
LEMMA SendFed ==
    ASSUME IInv, NEW e \in End, netc[e].life = "live", Quiet(e, netc[e]),
           NEW x, x = Working(e, netc[e])
    PROVE  Fed(e, View, x, wire[e]) /\ x.c = View[e].c
<1>1. x \in Work /\ x.c = netc[e] /\ x.tx = <<>> /\ x.sent = sent[e] /\ x.got = got[e]
  BY Untouched
<1>2. /\ View[e].c = netc[e] /\ View[e].w = wire[e] /\ View[e].sent = sent[e] /\ View[e].got = got[e]
      /\ wire[e] \in Seq(Record)
  BY Viewed DEF IInv, TypeOK
<1>3. QED BY <1>1, <1>2 DEF Fed, Fit, Quiet

LEMMA SendFrameStep ==
    ASSUME IInv, NEW e \in End, SendFrame(e)
    PROVE  IInv' /\ TheChannel!Work(e)
<1> DEFINE m == Message("frame", Len(sent[e]) + 1)
           x == Working(e, netc[e])
<1>1. netc[e].life = "live" /\ netc[e].session = "AUTHED" /\ Send(e, m) BY DEF SendFrame
<1>2. m \in Later /\ m \in Msg
  <2>1. Len(sent[e]) + 1 \in Nat BY LenProperties DEF IInv, TypeOK
  <2>2. QED BY <2>1 DEF Message, Later, Msg
<1> HIDE DEF m
<1>3. /\ View \in [End -> Side] /\ View[e].c = netc[e] /\ kind \in {"switch", "prov", "p2p"}
  BY Viewed, KindIs DEF IInv
<1>4. ASSUME up
      PROVE  /\ ~dropped /\ Connected(kind, View)
             /\ \A y, v2 : v2 \in [End -> Side] /\ y = net_send_msg(x, m)
                           /\ Moves(e, View, y, wire[e], v2) =>
                    y.c.life = "live" /\ Connected(kind, v2)
  <2>1. ~dropped /\ Connected(kind, View) BY <1>1, <1>4, Underway
  <2>2. Quiet(e, netc[e])
    <3>1. ~(netc[e] \in {Fresh("none"), Fresh("live")}) BY <1>1, FreshConn
    <3>2. QED BY <1>3, <2>1, <3>1 DEF Connected, Live, Unready, End
  <2>3. Fed(e, View, x, wire[e]) /\ x.c = View[e].c BY <1>1, <2>2, SendFed
  <2> HIDE DEF x
  <2>4. ASSUME NEW y, NEW v2, v2 \in [End -> Side], y = net_send_msg(x, m),
               Moves(e, View, y, wire[e], v2)
        PROVE  y.c.life = "live" /\ Connected(kind, v2)
    <3>1. Framed(e, View, x, wire[e], m, y, v2)
      BY <1>1, <1>2, <1>3, <2>2, <2>3, <2>4 DEF Framed
    <3>2. QED BY <1>1, <1>3, <2>1, <2>4, <3>1, FrameConnected
  <2>5. QED BY <2>1, <2>4
<1>5. QED BY <1>1, <1>2, <1>4, SendStep

LEMMA ProvisioningStep ==
    ASSUME IInv, Provisioning
    PROVE  IInv' /\ TheChannel!Work("server")
<1> DEFINE m == Control("provResponse")
           x == Working("server", netc["server"])
<1>1. Tracked /\ netc["server"].life = "live" /\ Send("server", m) /\ "server" \in End
  BY DEF Provisioning, End
<1>2. m \in Msg BY ControlMsg
<1>3. /\ View \in [End -> Side] /\ View["server"].c = netc["server"]
      /\ View["server"].got = got["server"] /\ View["server"].sent = sent["server"]
  BY <1>1, Viewed DEF IInv
<1>4. TrackedIn(View) BY <1>1, <1>3 DEF Tracked, TrackedIn, Asks
<1>5. ASSUME up
      PROVE  /\ ~dropped /\ Connected(kind, View)
             /\ \A y, v2 : v2 \in [End -> Side] /\ y = net_send_msg(x, m)
                           /\ Moves("server", View, y, wire["server"], v2) =>
                    y.c.life = "live" /\ Connected(kind, v2)
  <2>1. got["server"] # <<>> BY <1>3, <1>4, Unasked DEF TrackedIn
  <2>2. ~dropped /\ Connected(kind, View) BY <1>1, <1>5, <2>1, Underway
  <2>3. Quiet("server", netc["server"]) BY <1>3, <2>1, <2>2 DEF Connected, Live, Unready
  <2>4. Fed("server", View, x, wire["server"]) /\ x.c = View["server"].c
    BY <1>1, <2>3, SendFed
  <2> HIDE DEF x
  <2>5. ASSUME NEW y, NEW v2, v2 \in [End -> Side], y = net_send_msg(x, m),
               Moves("server", View, y, wire["server"], v2)
        PROVE  y.c.life = "live" /\ Connected(kind, v2)
    BY <1>3, <1>4, <2>2, <2>4, <2>5, GrantConnected
  <2>6. QED BY <2>2, <2>5
<1> HIDE DEF m
<1>6. QED BY <1>1, <1>2, <1>5, SendStep

(* The session that asked is gone: only what may be said ends. *)
LEMMA ProvisioningFreedStep ==
    ASSUME IInv, ProvisioningFreed
    PROVE  IInv' /\ UNCHANGED <<sent, got, {e \in End : netc[e].life = "live"}>>
<1>1. /\ netc["server"].life = "freed" /\ undef' = TRUE /\ kind' = kind /\ netc' = netc /\ wire' = wire
      /\ up' = up /\ sent' = sent /\ got' = got /\ dropped' = dropped
  BY DEF ProvisioningFreed
<1>2. TypeOK' /\ View' = View BY <1>1 DEF IInv, TypeOK, View
<1>3. View["server"].c = netc["server"] BY Viewed DEF IInv, End
<1>4. ~Early(kind, View)
  <2>1. View["server"].c \notin {Fresh("none"), Fresh("live"), Started}
    BY <1>1, <1>3, FreshConn
  <2>2. QED BY <2>1 DEF Early
<1>5. ~Connected(kind, View) /\ ~Stalled(kind, View)
  BY <1>1, <1>3, FreshConn DEF Connected, Live, Unready, Stalled
<1>6. ~up BY <1>4, <1>5 DEF IInv, Sound
<1>7. Sound' BY <1>1, <1>2, <1>6 DEF IInv, Sound
<1>8. QED BY <1>1, <1>2, <1>7 DEF IInv

(* The control thread, and the break. *)
LEMMA PurgeStep ==
    ASSUME IInv, Purge
    PROVE  IInv' /\ UNCHANGED <<sent, got, {e \in End : netc[e].life = "live"}>>
<1>1. /\ ~undef /\ undef' = undef /\ kind' = kind /\ netc["server"].life = "live"
      /\ netc["server"].session \in {"WAIT_STEPUP", "AUTHED"}
      /\ netc' = [netc EXCEPT !["server"].session = "PURGE"]
      /\ wire' = wire /\ up' = up /\ sent' = sent /\ got' = got /\ dropped' = dropped
  BY DEF Purge, Defined, Undropped
<1>2. TypeOK /\ netc \in [End -> Conn] /\ "server" \in End /\ "client" \in End
  BY DEF IInv, TypeOK, End
<1>3. /\ netc' \in [End -> Conn] /\ netc'["client"] = netc["client"]
      /\ netc'["server"] = [netc["server"] EXCEPT !.session = "PURGE"]
      /\ netc'["server"].life = netc["server"].life
  BY <1>1, <1>2, ZenonT(60) DEF Conn
<1>4. TypeOK' BY <1>1, <1>2, <1>3 DEF TypeOK
<1>5. /\ View \in [End -> Side] /\ View' \in [End -> Side]
      /\ \A f \in End : /\ View[f].c = netc[f] /\ View[f].w = wire[f]
                        /\ View[f].sent = sent[f] /\ View[f].got = got[f]
                        /\ View'[f].c = netc'[f] /\ View'[f].w = wire'[f]
                        /\ View'[f].sent = sent'[f] /\ View'[f].got = got'[f]
  BY <1>2, <1>4, Viewed, ViewedNext
<1>6. View'["client"] = View["client"]
  <2>1. View'["client"] \in Side /\ View["client"] \in Side BY <1>2, <1>5
  <2>2. /\ View'["client"].c = View["client"].c /\ View'["client"].w = View["client"].w
        /\ View'["client"].sent = View["client"].sent /\ View'["client"].got = View["client"].got
    BY <1>1, <1>2, <1>3, <1>5
  <2>3. QED BY <2>1, <2>2, SameSide
<1>7. View'["server"] = [View["server"] EXCEPT !.c.session = "PURGE"]
  <2> DEFINE a == View["server"]
             b == View'["server"]
  <2>1. a \in Side /\ b \in Side BY <1>2, <1>5
  <2>2. /\ b.c = [a.c EXCEPT !.session = "PURGE"] /\ b.w = a.w /\ b.sent = a.sent /\ b.got = a.got
    BY <1>1, <1>2, <1>3, <1>5
  <2> HIDE DEF a, b
  <2>3. b = [a EXCEPT !.c.session = "PURGE"] BY <2>1, <2>2 DEF Side
  <2>4. QED BY <2>3 DEF a, b
<1>8. View["server"].c.life = "live" /\ View["server"].c.session \in {"WAIT_STEPUP", "AUTHED"}
  BY <1>1, <1>2, <1>5
<1>9. /\ Connected(kind, View) => Connected(kind, View')
      /\ Broken(kind, View) => Broken(kind, View')
  BY <1>5, <1>6, <1>7, <1>8, PurgeKeeps
<1>10. ~Early(kind, View) /\ ~Stalled(kind, View)
  BY <1>8, FreshConn DEF Early, Stalled, Deaf
<1>11. Sound' BY <1>1, <1>9, <1>10 DEF IInv, Sound
<1>12. {e \in End : netc'[e].life = "live"} = {e \in End : netc[e].life = "live"}
  BY <1>3 DEF End
<1>13. QED BY <1>1, <1>4, <1>11, <1>12 DEF IInv

LEMMA BreakStep ==
    ASSUME IInv, Break
    PROVE  IInv' /\ UNCHANGED <<sent, got, {e \in End : netc[e].life = "live"}>>
<1>1. /\ kind' = kind /\ undef' = undef /\ dropped' = dropped /\ up' = FALSE
      /\ netc' = netc /\ wire' = wire /\ sent' = sent /\ got' = got
  BY DEF Break, Defined, Undropped
<1>2. TypeOK' /\ View' = View BY <1>1 DEF IInv, TypeOK, View
<1>3. Sound' BY <1>1, <1>2, InvBroken DEF Sound
<1>4. QED BY <1>1, <1>2, <1>3 DEF IInv

(* The handshake begins: the first flight is on its way. *)
LEMMA FirstFlight ==
    ASSUME NEW c, c = SSL_do_handshake("client", Started)
    PROVE  c = [Started EXCEPT !.hs = 1, !.out = <<Flight(1)>>]
<1> DEFINE f == Started
<1>1. /\ f \in Conn /\ f.bio = <<>> /\ f.hs = 0 /\ f.out = <<>>
  BY FreshConn
<1> HIDE DEF f
<1>2. ~HasFlight(f)
  <2>1. Len(f.bio) < 2 BY <1>1
  <2>2. QED BY <1>1, <2>1, ShortRead
<1>3. ~Finished(f) /\ Speaker(f.hs + 1) = "client" /\ f.hs + 1 = 1
  BY <1>1 DEF Finished, Speaker
<1>4. c = SSL_write_flight("client", f) BY <1>2 DEF SSL_do_handshake, f
<1>5. Append(f.out, Flight(1)) = <<Flight(1)>> BY <1>1
<1>6. c = [f EXCEPT !.hs = 1, !.out = <<Flight(1)>>]
  BY <1>1, <1>3, <1>4, <1>5 DEF SSL_write_flight
<1>7. QED BY <1>6 DEF f

(* A connection is made. *)
LEMMA ConnectShaking ==
    ASSUME NEW v,
           v["client"].c = [Started EXCEPT !.hs = 1],
           v["server"].c = Fresh("none")
             \/ (kind = "p2p" /\ v["server"].c \in {Fresh("live"), Started}),
           v["client"].w = <<>>, v["server"].w = Units(<<Flight(1)>>),
           \A e \in End : v[e].sent = <<>> /\ v[e].got = <<>>
    PROVE  Connected(kind, v)
<1>1. /\ v["client"].c.life = "live" /\ v["client"].c.status = "HANDSHAKE"
      /\ v["client"].c.hs = 1 /\ v["client"].c.bio = <<>> /\ v["client"].c.out = <<>>
      /\ v["client"].c.enc = <<>> /\ v["client"].c.session = "NOT_AUTHED"
  <2> DEFINE s == Started
  <2>1. /\ s \in Conn /\ s.life = "live" /\ s.status = "HANDSHAKE" /\ s.bio = <<>> /\ s.out = <<>>
        /\ s.enc = <<>> /\ s.session = "NOT_AUTHED" /\ v["client"].c = [s EXCEPT !.hs = 1]
    BY FreshConn
  <2> HIDE DEF s
  <2>2. QED BY <2>1 DEF Conn
<1>2. /\ v["server"].c.hs = 0 /\ v["server"].c.bio = <<>> /\ v["server"].c.out = <<>>
      /\ v["server"].c.enc = <<>> /\ v["server"].c.session = "NOT_AUTHED"
      /\ v["server"].c = Started => v["server"].c.life = "live" /\ v["server"].c.status = "HANDSHAKE"
  BY FreshConn
<1>3. /\ "client" \in End /\ "server" \in End /\ Other("client") = "server"
      /\ Other("server") = "client" /\ Speaker(1) = "client"
  BY Ends DEF End, Speaker
<1>4. Live("client", v) /\ (v["server"].c = Started => Live("server", v))
  <2>1. Len(<<>>) <= 1 OBVIOUS
  <2>2. QED BY <1>1, <1>2, <2>1 DEF Live, Quiet, Secured
<1>5. <<>> \o <<>> = <<>> /\ Units(<<>>) = <<>>
  <2>1. <<>> \in Seq(Record) BY EmptySeq
  <2>2. QED BY <2>1, ConcatEmptySeq DEF Units
<1>6. Awaits(v, "client", <<>>, <<>>) BY <1>1, <1>3, <1>5 DEF Awaits, OnLine
<1>7. Awaits(v, "server", Lead(1, Bring(LastKeys(kind), <<>>)), <<>>)
  <2>1. Lead(1, Bring(LastKeys(kind), <<>>)) = <<Flight(1)>> BY BringNone, LeadNothing
  <2>2. <<Flight(1)>> \in Seq(Record) BY FlightRecord
  <2>3. Units(<<Flight(1)>>) \in Seq(Record) BY <2>2, UnitsSeq
  <2>4. <<>> \o Units(<<Flight(1)>>) = Units(<<Flight(1)>>) BY <2>3, NoTx
  <2>5. QED BY <1>2, <1>3, <1>5, <2>1, <2>4 DEF Awaits, OnLine
<1>8. Silent(1, v) BY <1>1, <1>2 DEF Silent
<1>9. Shaking(kind, 1, v)
  <2>1. \E R \in Talk :
           /\ Awaits(v, Other(Speaker(1)), Lead(1, Bring(LastKeys(kind), R)), R)
           /\ 1 < LastFlight(kind) => R = <<>>
    BY <1>3, <1>7, NoTalk
  <2>2. v[Speaker(1)].c.hs = 1 /\ v[Other(Speaker(1))].c.hs = 1 - 1
    <3>1. v[Speaker(1)].c.hs = 1 /\ v[Other(Speaker(1))].c.hs = 0 BY <1>1, <1>2, <1>3
    <3>2. 1 - 1 = 0 OBVIOUS
    <3>3. QED BY <3>1, <3>2
  <2>3. Awaits(v, Speaker(1), <<>>, <<>>) /\ v["client"].c.session = "NOT_AUTHED"
    BY <1>1, <1>3, <1>6
  <2>4. QED BY <1>8, <2>1, <2>2, <2>3 DEF Shaking
<1>10. 1 \in 1 .. LastFlight(kind) BY DEF LastFlight
<1>11. ~TrackedIn(v) BY <1>3, Unasked DEF TrackedIn
<1>12. QED BY <1>3, <1>4, <1>9, <1>10, <1>11 DEF Connected, Phase, Unready

LEMMA WroteOut ==
    ASSUME NEW f \in Conn, f.out = <<>>, NEW t \in Seq(Record),
           NEW c, c = [f EXCEPT !.hs = 1, !.out = t]
    PROVE  c \in Conn /\ c.out = t /\ [c EXCEPT !.out = <<>>] = [f EXCEPT !.hs = 1]
<1>0. 1 \in 0 .. 9 OBVIOUS
<1>1. /\ c.life = f.life /\ c.status = f.status /\ c.hs = 1 /\ c.bio = f.bio /\ c.out = t
      /\ c.enc = f.enc /\ c.session = f.session
  BY DEF Conn
<1>2. c \in Conn BY <1>0 DEF Conn
<1> DEFINE a == [c EXCEPT !.out = <<>>]
           b == [f EXCEPT !.hs = 1]
<1>3. <<>> \in Seq(Record) BY EmptySeq
<1>4. /\ a \in Conn /\ a.life = c.life /\ a.status = c.status /\ a.hs = c.hs /\ a.bio = c.bio
      /\ a.out = <<>> /\ a.enc = c.enc /\ a.session = c.session
  BY <1>2, <1>3 DEF Conn
<1>5. /\ b \in Conn /\ b.life = f.life /\ b.status = f.status /\ b.hs = 1 /\ b.bio = f.bio
      /\ b.out = f.out /\ b.enc = f.enc /\ b.session = f.session
  BY <1>0 DEF Conn
<1> HIDE DEF a, b
<1>6. a = b BY <1>1, <1>4, <1>5 DEF Conn
<1>7. QED BY <1>1, <1>2, <1>6 DEF a, b

(* What the client says first. *)
LEMMA Hello ==
    ASSUME TypeOK, NEW x, x = net_do_krypt(Working("client", SSL_do_handshake("client", Started)))
    PROVE  /\ x \in Work /\ x.sent = sent["client"] /\ x.got = got["client"]
           /\ x.tx = <<Flight(1)>> /\ x.c = [Started EXCEPT !.hs = 1] /\ x.c.life = "live"
<1> DEFINE c == SSL_do_handshake("client", Started)
           w == Working("client", c)
<1>1. c = [Started EXCEPT !.hs = 1, !.out = <<Flight(1)>>] BY FirstFlight
<1>2. <<Flight(1)>> \in Seq(Record) /\ <<>> \in Seq(Record) BY FlightRecord, EmptySeq
<1>3. /\ c \in Conn /\ c.out = <<Flight(1)>> /\ [c EXCEPT !.out = <<>>] = [Started EXCEPT !.hs = 1]
  <2> DEFINE f == Started
             t == <<Flight(1)>>
  <2>1. f \in Conn /\ f.out = <<>> /\ t \in Seq(Record) /\ c = [f EXCEPT !.hs = 1, !.out = t]
    BY <1>1, <1>2, FreshConn
  <2> HIDE DEF f, c, t
  <2>2. c \in Conn /\ c.out = t /\ [c EXCEPT !.out = <<>>] = [f EXCEPT !.hs = 1]
    BY <2>1, WroteOut
  <2>3. QED BY <2>2 DEF f, t
<1>4. w = [c |-> c, tx |-> <<>>, sent |-> sent["client"], got |-> got["client"]]
  BY DEF Working
<1>5. x = net_do_krypt(w) OBVIOUS
<1> HIDE DEF c, w
<1>6. w \in Work /\ w.c = c /\ w.tx = <<>> /\ w.sent = sent["client"] /\ w.got = got["client"]
  BY <1>2, <1>3, <1>4 DEF Work, TypeOK, End
<1>7. /\ x \in Work /\ x.sent = w.sent /\ x.got = w.got /\ x.c = [w.c EXCEPT !.out = <<>>]
      /\ x.tx = w.tx \o w.c.out
  BY <1>5, <1>6, KryptWork
<1>8. <<>> \o <<Flight(1)>> = <<Flight(1)>> BY <1>2, NoTx
<1>9. x.c.life = "live"
  <2> DEFINE s == Started
  <2>1. s \in Conn /\ s.life = "live" /\ x.c = [s EXCEPT !.hs = 1]
    BY <1>3, <1>6, <1>7, FreshConn
  <2> HIDE DEF s
  <2>2. QED BY <2>1 DEF Conn
<1>10. QED BY <1>3, <1>6, <1>7, <1>8, <1>9

(* The client says hello to a server that is, or is not, there yet. *)
LEMMA HelloStep ==
    ASSUME IInv, up, netc["client"] \in {Fresh("none"), Fresh("live")},
           kind = "p2p" \/ netc["client"] = Fresh("none"),
           NEW x, x = net_do_krypt(Working("client", SSL_do_handshake("client", Started))),
           Done("client", x), kind' = kind, undef' = undef, dropped' = dropped,
           wire' = [wire EXCEPT !["server"] = @ \o Units(x.tx)]
    PROVE  /\ IInv' /\ sent' = sent /\ got' = got /\ sent["client"] = <<>> /\ got["client"] = <<>>
           /\ {f \in End : netc'[f].life = "live"} = {f \in End : netc[f].life = "live"} \union {"client"}
<1>1. /\ TypeOK /\ ~undef /\ wire \in [End -> Seq(Record)] /\ undef' \in BOOLEAN /\ dropped' \in BOOLEAN
      /\ netc \in [End -> Conn] /\ sent \in [End -> Seq(Msg)] /\ got \in [End -> Seq(Msg)]
  BY DEF IInv, TypeOK, Sound
<1>2. /\ "client" \in End /\ "server" \in End /\ Other("client") = "server"
  BY Ends DEF End
<1>3. /\ View \in [End -> Side]
      /\ \A f \in End : /\ View[f].c = netc[f] /\ View[f].w = wire[f]
                        /\ View[f].sent = sent[f] /\ View[f].got = got[f]
  BY <1>1, Viewed
<1>4. ~dropped /\ Early(kind, View)
  <2>1. ~Live("client", View)
    <3>1. netc["client"].status = "NOINIT" BY FreshConn
    <3>2. QED BY <1>2, <1>3, <3>1 DEF Live, Quiet
  <2>2. QED BY <2>1 DEF IInv, Sound, Connected, Stalled
<1>5. /\ \A f \in End : wire[f] = <<>> /\ sent[f] = <<>> /\ got[f] = <<>>
      /\ netc["server"] \in {Fresh("none"), Fresh("live"), Started}
      /\ kind # "p2p" => netc["server"] = Fresh("none")
  BY <1>2, <1>3, <1>4 DEF Early
<1>6. /\ x \in Work /\ x.sent = <<>> /\ x.got = <<>> /\ x.tx = <<Flight(1)>>
      /\ x.c = [Started EXCEPT !.hs = 1] /\ x.c.life = "live"
  BY <1>1, <1>2, <1>5, Hello
<1>7. /\ wire' \in [End -> Seq(Record)] /\ wire'["client"] = <<>>
      /\ wire'["server"] = Units(<<Flight(1)>>)
  <2>1. <<Flight(1)>> \in Seq(Record) BY FlightRecord
  <2>2. Units(<<Flight(1)>>) \in Seq(Record) BY <2>1, UnitsSeq
  <2>3. <<>> \o Units(<<Flight(1)>>) = Units(<<Flight(1)>>) BY <2>2, NoTx
  <2>4. wire' = [wire EXCEPT !["server"] = Units(<<Flight(1)>>)] BY <1>2, <1>5, <1>6, <2>3
  <2>5. QED BY <1>1, <1>2, <1>5, <2>2, <2>4 DEF End
<1>8. /\ TypeOK' /\ View' \in [End -> Side]
      /\ up' = (up /\ x.c.life = "live")
      /\ View'["client"].c = x.c /\ View'["client"].w = wire'["client"]
      /\ View'["client"].sent = x.sent /\ View'["client"].got = x.got
      /\ View'["server"].c = View["server"].c /\ View'["server"].w = wire'["server"]
      /\ View'["server"].sent = View["server"].sent
      /\ View'["server"].got = View["server"].got
  BY <1>1, <1>2, <1>6, <1>7, DoneTyped, ZenonT(60)
<1>9. Connected(kind, View')
  <2>1. \A e \in End : View'[e].sent = <<>> /\ View'[e].got = <<>>
    BY <1>3, <1>5, <1>6, <1>8 DEF End
  <2>2. /\ View'["server"].c = Fresh("none")
           \/ (kind = "p2p" /\ View'["server"].c \in {Fresh("live"), Started})
        /\ View'["client"].c = [Started EXCEPT !.hs = 1]
    BY <1>2, <1>3, <1>5, <1>6, <1>8
  <2>3. View'["client"].w = <<>> /\ View'["server"].w = Units(<<Flight(1)>>) BY <1>7, <1>8
  <2>4. QED BY <2>1, <2>2, <2>3, ConnectShaking
<1>10. Sound' BY <1>1, <1>4, <1>6, <1>8, <1>9 DEF Sound
<1>11. /\ netc' = [netc EXCEPT !["client"] = x.c] /\ sent' = [sent EXCEPT !["client"] = <<>>]
       /\ got' = [got EXCEPT !["client"] = <<>>]
  BY <1>6 DEF Done
<1>12. sent' = sent /\ got' = got BY <1>1, <1>2, <1>5, <1>11
<1>13. {f \in End : netc'[f].life = "live"} = {f \in End : netc[f].life = "live"} \union {"client"}
  BY <1>1, <1>2, <1>6, <1>11
<1>14. QED BY <1>2, <1>5, <1>8, <1>10, <1>12, <1>13 DEF IInv

LEMMA ConnectStep ==
    ASSUME IInv, Connect
    PROVE  IInv' /\ TheChannel!Open("client")
<1> DEFINE x == net_do_krypt(Working("client", SSL_do_handshake("client", Started)))
<1>1. /\ undef' = undef /\ kind' = kind /\ dropped' = dropped /\ up /\ kind # "p2p"
      /\ netc["client"].life = "none" /\ Done("client", x)
      /\ wire' = [wire EXCEPT !["server"] = @ \o Units(x.tx)]
  BY DEF Connect, Defined, Undropped, Started
<1>2. "client" \in End BY DEF End
<1>3. netc["client"] = Fresh("none") BY <1>1, <1>2, Beginning
<1> HIDE DEF x
<1>4. x = net_do_krypt(Working("client", SSL_do_handshake("client", Started))) BY DEF x
<1>5. /\ IInv' /\ sent' = sent /\ got' = got /\ sent["client"] = <<>> /\ got["client"] = <<>>
      /\ {f \in End : netc'[f].life = "live"} = {f \in End : netc[f].life = "live"} \union {"client"}
  BY <1>1, <1>3, <1>4, HelloStep
<1>6. "client" \notin {f \in End : netc[f].life = "live"} BY <1>1
<1>7. QED BY <1>2, <1>5, <1>6 DEF TheChannel!Open

(* The server is there, or starts TLS. *)
LEMMA ServerMakes ==
    ASSUME NEW kd, NEW v \in [End -> Side], NEW v2 \in [End -> Side],
           v["server"].c \in {Fresh("none"), Fresh("live")}, v2["server"].c \in {Fresh("live"), Started},
           v2["server"].w = v["server"].w, v2["server"].sent = v["server"].sent,
           v2["server"].got = v["server"].got, v2["client"] = v["client"],
           kd # "p2p" => v2["server"].c = Started
    PROVE  /\ Connected(kd, v) => Connected(kd, v2)
           /\ kd = "p2p" /\ Early(kd, v) => Early(kd, v2)
           /\ Stalled(kd, v) => Stalled(kd, v2)
           /\ v["server"].c = Fresh("live") /\ Broken(kd, v) => Broken(kd, v2)
<1>1. /\ v["server"].c.hs = 0 /\ v["server"].c.bio = <<>> /\ v["server"].c.session = "NOT_AUTHED"
      /\ v["server"].c.status = "NOINIT"
      /\ v2["server"].c.hs = 0 /\ v2["server"].c.bio = <<>> /\ v2["server"].c.session = "NOT_AUTHED"
      /\ v2["server"].c.out = <<>> /\ v2["server"].c.enc = <<>> /\ v2["server"].c.life = "live"
      /\ v2["server"].c = Fresh("live") \/ v2["server"].c.status = "HANDSHAKE"
  BY FreshConn
<1>2. /\ "client" \in End /\ "server" \in End /\ Other("client") = "server"
      /\ Other("server") = "client"
  BY Ends DEF End
<1>3. \A e \in End :
        /\ v2[e].c.hs = v[e].c.hs /\ v2[e].sent = v[e].sent /\ v2[e].got = v[e].got
        /\ v2[e].c.bio = v[e].c.bio /\ v2[e].w = v[e].w
        /\ v2[e].c.session = v[e].c.session
  BY <1>1 DEF End
<1>4. \A e \in End : \A Q : OnLine(v[e].c, v[e].w, Q) => OnLine(v2[e].c, v2[e].w, Q)
  BY <1>3 DEF OnLine
<1>5. Alike(v, v2) BY <1>2, <1>3, <1>4 DEF Alike
<1>6. ASSUME Connected(kd, v) PROVE Connected(kd, v2)
  <2>1. Phase(kd, v2) /\ (Shaking(kd, 1, v) => Shaking(kd, 1, v2)) /\ (Waits(kd, v) => Waits(kd, v2))
    BY <1>5, <1>6, PhaseAlike DEF Connected
  <2>2. ~Live("server", v) BY <1>1 DEF Live, Quiet
  <2>3. Unready(kd, v) /\ Live("client", v) BY <1>6, <2>2 DEF Connected
  <2>4. Live("client", v2) BY <2>3 DEF Live
  <2>5. Live("server", v2) \/ Unready(kd, v2)
    <3>1. CASE v2["server"].c = Started
      <4>1. Len(v2["server"].c.bio) <= 1 BY <1>1
      <4>2. QED BY <1>1, <3>1, <4>1, FreshConn DEF Live, Quiet, Secured
    <3>2. CASE v2["server"].c = Fresh("live") /\ kd = "p2p"
      BY <2>1, <2>3, <3>2 DEF Unready
    <3>3. QED BY <3>1, <3>2
  <2>6. TrackedIn(v2) => TrackedIn(v) BY DEF TrackedIn
  <2>7. QED BY <1>6, <2>1, <2>4, <2>5, <2>6 DEF Connected
<1>7. ASSUME kd = "p2p", Early(kd, v) PROVE Early(kd, v2) BY <1>2, <1>7 DEF Early, End
<1>8. ASSUME Stalled(kd, v) PROVE Stalled(kd, v2)
  <2>1. Deaf(v2["server"]) BY <1>1, <1>3, <1>8 DEF Stalled, Deaf, End
  <2>2. QED BY <1>1, <1>3, <1>8, <2>1 DEF Stalled, Live
<1>9. ASSUME v["server"].c = Fresh("live"), Broken(kd, v) PROVE Broken(kd, v2)
  <2>1. v["server"].c.life = "live" BY <1>9, FreshConn
  <2>2. ASSUME NEW e \in End, Lined(v, e) PROVE Lined(v2, e)
    <3>1. PICK Q, R : /\ R \in Seq(Msg) /\ Arranged(Q, R) /\ OnLine(v[e].c, v[e].w, Q)
                      /\ IsPrefix(v[e].got \o R, v[Other(e)].sent)
      BY <2>2 DEF Lined
    <3>2. v2[e].got = v[e].got /\ v2[Other(e)].sent = v[Other(e)].sent BY <1>3, Ends
    <3>3. OnLine(v2[e].c, v2[e].w, Q) BY <1>4, <3>1
    <3>4. QED BY <3>1, <3>2, <3>3 DEF Lined
  <2>3. Deaf(v["server"]) => Deaf(v2["server"]) BY <1>1, <1>3 DEF Deaf, End
  <2>4. Hears(v2, "server") /\ NotYet(kd, v2["server"].c)
    <3>1. kd = "p2p" BY <1>1, <1>2, <1>9, <2>1 DEF Broken, NotYet
    <3>2. QED BY <1>1, <1>2, <1>9, <2>1, <2>2, <2>3, <3>1 DEF Broken, Hears, NotYet
  <2>5. v2["client"].c.life = "live" => Hears(v2, "client") /\ NotYet(kd, v2["client"].c)
    BY <1>2, <1>9, <2>2 DEF Broken, Hears
  <2>6. kd # "p2p" => Certified(v2) BY <1>3, <1>9 DEF Broken, Certified
  <2>7. QED BY <2>4, <2>5, <2>6 DEF Broken, End
<1>10. QED BY <1>6, <1>7, <1>8, <1>9

LEMMA ServerStep ==
    ASSUME IInv, netc["server"] \in {Fresh("none"), Fresh("live")}, NEW c \in {Fresh("live"), Started},
           NEW x, x = Working("server", c), Done("server", x),
           wire' = wire, kind' = kind, undef' = undef, dropped' = dropped,
           up \/ netc["server"] = Fresh("live"),
           kind # "p2p" => c = Started /\ ~Early(kind, View)
    PROVE  /\ IInv' /\ sent' = sent /\ got' = got
           /\ {f \in End : netc'[f].life = "live"} = {f \in End : netc[f].life = "live"} \union {"server"}
<1>1. /\ TypeOK /\ wire' \in [End -> Seq(Record)] /\ undef' \in BOOLEAN /\ dropped' \in BOOLEAN
      /\ netc \in [End -> Conn] /\ sent \in [End -> Seq(Msg)] /\ got \in [End -> Seq(Msg)]
  BY DEF IInv, TypeOK
<1>2. /\ "client" \in End /\ "server" \in End /\ Other("server") = "client"
  BY Ends DEF End
<1>3. /\ View \in [End -> Side]
      /\ \A f \in End : /\ View[f].c = netc[f] /\ View[f].w = wire[f]
                        /\ View[f].sent = sent[f] /\ View[f].got = got[f]
  BY <1>1, Viewed
<1>4. x \in Work /\ x.c = c /\ x.c.life = "live" /\ x.sent = sent["server"] /\ x.got = got["server"]
  <2>1. <<>> \in Seq(Record) /\ c \in Conn /\ c.life = "live" BY EmptySeq, FreshConn
  <2>2. x = [c |-> c, tx |-> <<>>, sent |-> sent["server"], got |-> got["server"]]
    BY DEF Working
  <2>3. sent["server"] \in Seq(Msg) /\ got["server"] \in Seq(Msg) BY <1>1, <1>2
  <2>4. x \in Work BY ONLY <2>1, <2>2, <2>3 DEF Work
  <2>5. QED BY <2>1, <2>2, <2>4
<1>5. /\ TypeOK' /\ View' \in [End -> Side]
      /\ up' = (up /\ x.c.life = "live")
      /\ View'["server"].c = x.c /\ View'["server"].w = wire'["server"]
      /\ View'["server"].sent = x.sent /\ View'["server"].got = x.got
      /\ View'["client"].c = View["client"].c /\ View'["client"].w = wire'["client"]
      /\ View'["client"].sent = View["client"].sent
      /\ View'["client"].got = View["client"].got
  BY <1>1, <1>2, <1>4, DoneTyped
<1>6. View'["client"] = View["client"]
  <2>1. View'["client"] \in Side /\ View["client"] \in Side /\ View'["client"].w = View["client"].w
    BY <1>2, <1>3, <1>5
  <2>2. QED BY <1>5, <2>1, SameSide
<1>7. /\ Connected(kind, View) => Connected(kind, View')
      /\ kind = "p2p" /\ Early(kind, View) => Early(kind, View')
      /\ Stalled(kind, View) => Stalled(kind, View')
      /\ netc["server"] = Fresh("live") /\ Broken(kind, View) => Broken(kind, View')
  <2>1. /\ View["server"].c \in {Fresh("none"), Fresh("live")} /\ View'["server"].c \in {Fresh("live"), Started}
        /\ View'["server"].w = View["server"].w /\ View'["server"].sent = View["server"].sent
        /\ View'["server"].got = View["server"].got
        /\ kind # "p2p" => View'["server"].c = Started
        /\ View["server"].c = netc["server"]
    BY <1>2, <1>3, <1>4, <1>5
  <2>2. QED BY <1>3, <1>5, <1>6, <2>1, ServerMakes
<1>8. Sound' BY <1>1, <1>4, <1>5, <1>7 DEF IInv, Sound
<1>9. /\ netc' = [netc EXCEPT !["server"] = x.c] /\ sent' = sent /\ got' = got
  <2>1. /\ netc' = [netc EXCEPT !["server"] = x.c] /\ sent' = [sent EXCEPT !["server"] = x.sent]
        /\ got' = [got EXCEPT !["server"] = x.got]
    BY DEF Done
  <2>2. QED BY <1>1, <1>4, <2>1
<1>10. {f \in End : netc'[f].life = "live"} = {f \in End : netc[f].life = "live"} \union {"server"}
  BY <1>1, <1>2, <1>4, <1>9
<1>11. QED BY <1>5, <1>8, <1>9, <1>10 DEF IInv

LEMMA AcceptStep ==
    ASSUME IInv, Accept
    PROVE  IInv' /\ TheChannel!Open("server")
<1>1. /\ undef' = undef /\ kind' = kind /\ dropped' = dropped /\ up /\ kind # "p2p"
      /\ netc["server"].life = "none" /\ netc["client"].life # "none"
      /\ Done("server", Working("server", Started)) /\ wire' = wire
  BY DEF Accept, Defined, Undropped, Started
<1>2. "server" \in End /\ "client" \in End BY DEF End
<1>3. netc["server"] = Fresh("none") /\ sent["server"] = <<>> /\ got["server"] = <<>>
  BY <1>1, <1>2, Beginning
<1>4. ~Early(kind, View)
  <2>1. View["client"].c # Fresh("none") BY <1>1, <1>2, Viewed, FreshConn DEF IInv
  <2>2. QED BY <1>1, <1>2, <2>1 DEF Early
<1> DEFINE x == Working("server", Started)
<1>5. x = Working("server", Started) /\ Done("server", x) BY <1>1
<1> HIDE DEF x
<1>6. /\ IInv' /\ sent' = sent /\ got' = got
      /\ {f \in End : netc'[f].life = "live"} = {f \in End : netc[f].life = "live"} \union {"server"}
  BY <1>1, <1>3, <1>4, <1>5, ServerStep
<1>7. "server" \notin {f \in End : netc[f].life = "live"} BY <1>1
<1>8. QED BY <1>2, <1>3, <1>6, <1>7 DEF TheChannel!Open

(* The loop of an agent knows a socket before TLS is started on it. *)
LEMMA RegisterStep ==
    ASSUME IInv, NEW e \in End, Register(e)
    PROVE  IInv' /\ TheChannel!Open(e)
<1> DEFINE x == Working(e, Fresh("live"))
<1>1. /\ undef' = undef /\ kind' = kind /\ dropped' = dropped /\ up /\ kind = "p2p"
      /\ netc[e].life = "none" /\ Done(e, x) /\ wire' = wire
  BY DEF Register, Defined, Undropped
<1>2. ~dropped /\ netc[e] = Fresh("none") /\ sent[e] = <<>> /\ got[e] = <<>>
  BY <1>1, Beginning
<1>3. e \notin {f \in End : netc[f].life = "live"} BY <1>1
<1>4. x = Working(e, Fresh("live")) OBVIOUS
<1> HIDE DEF x
<1>5. CASE e = "server"
  <2>1. /\ IInv' /\ sent' = sent /\ got' = got
        /\ {f \in End : netc'[f].life = "live"} = {f \in End : netc[f].life = "live"} \union {"server"}
    BY <1>1, <1>2, <1>4, <1>5, ServerStep
  <2>2. QED BY <1>2, <1>3, <1>5, <2>1 DEF TheChannel!Open
<1>6. CASE e = "client"
  <2>1. /\ TypeOK /\ wire' \in [End -> Seq(Record)] /\ undef' \in BOOLEAN /\ ~undef
        /\ netc \in [End -> Conn] /\ sent \in [End -> Seq(Msg)] /\ got \in [End -> Seq(Msg)]
        /\ dropped' \in BOOLEAN
    BY <1>1 DEF IInv, TypeOK, Sound
  <2>2. x \in Work /\ x.c = Fresh("live") /\ x.c.life = "live" /\ x.sent = sent[e] /\ x.got = got[e]
    <3>1. <<>> \in Seq(Record) /\ Fresh("live") \in Conn /\ Fresh("live").life = "live"
      BY EmptySeq, FreshConn
    <3>2. x = [c |-> Fresh("live"), tx |-> <<>>, sent |-> sent[e], got |-> got[e]]
      BY <1>4 DEF Working
    <3>3. QED BY <2>1, <3>1, <3>2 DEF Work
  <2>3. /\ TypeOK' /\ View' \in [End -> Side]
        /\ up' = (up /\ x.c.life = "live")
        /\ View'[e].c = x.c /\ View'[e].w = wire'[e]
        /\ View'[e].sent = x.sent /\ View'[e].got = x.got
        /\ View'[Other(e)].c = View[Other(e)].c /\ View'[Other(e)].w = wire'[Other(e)]
        /\ View'[Other(e)].sent = View[Other(e)].sent
        /\ View'[Other(e)].got = View[Other(e)].got
    BY <1>1, <2>1, <2>2, DoneTyped
  <2>4. \A f \in End : /\ View[f].c = netc[f] /\ View[f].w = wire[f]
                       /\ View[f].sent = sent[f] /\ View[f].got = got[f]
    BY <2>1, Viewed
  <2>5. Early(kind, View)
    <3>1. ~Live("client", View) BY <1>1, <1>6, <2>4 DEF Live
    <3>2. QED BY <1>1, <1>2, <3>1 DEF IInv, Sound, Connected
  <2>6. Early(kind, View')
    <3>1. View'["client"].c = Fresh("live") /\ View'["server"].c = View["server"].c
      BY <1>6, <2>2, <2>3, Ends
    <3>2. \A f \in End : View'[f].w = <<>> /\ View'[f].sent = <<>> /\ View'[f].got = <<>>
      BY <1>1, <1>6, <2>2, <2>3, <2>4, <2>5, Ends DEF Early, End
    <3>3. QED BY <1>1, <2>5, <3>1, <3>2 DEF Early
  <2>7. Sound' BY <1>1, <1>2, <2>1, <2>2, <2>3, <2>6 DEF Sound
  <2>8. /\ netc' = [netc EXCEPT ![e] = x.c] /\ sent' = sent /\ got' = got
    <3>1. /\ netc' = [netc EXCEPT ![e] = x.c] /\ sent' = [sent EXCEPT ![e] = x.sent]
          /\ got' = [got EXCEPT ![e] = x.got]
      BY <1>1 DEF Done
    <3>2. QED BY <2>1, <2>2, <3>1
  <2>9. {f \in End : netc'[f].life = "live"} = {f \in End : netc[f].life = "live"} \union {e}
    BY <2>1, <2>2, <2>8
  <2>10. QED BY <1>2, <1>3, <2>3, <2>7, <2>8, <2>9 DEF IInv, TheChannel!Open
<1>7. QED BY <1>5, <1>6 DEF End

(* The server's TLS object waits for the client's. *)
LEMMA ServerStarted ==
    ASSUME TypeOK
    PROVE  net_do_krypt(Working("server", SSL_do_handshake("server", Started)))
             = Working("server", Started)
<1>1. Started \in Conn /\ Started.bio = <<>> /\ Started.hs = 0 /\ Started.out = <<>>
  BY FreshConn
<1>2. ~HasFlight(Started) /\ Speaker(Started.hs + 1) # "server"
  <2>1. Len(Started.bio) < 2 BY <1>1
  <2>2. QED BY <1>1, <2>1, ShortRead DEF Speaker
<1>3. SSL_do_handshake("server", Started) = Started
  BY <1>2 DEF SSL_do_handshake, SSL_write_flight
<1> DEFINE w == Working("server", Started)
<1>4. w = [c |-> Started, tx |-> <<>>, sent |-> sent["server"], got |-> got["server"]]
  BY DEF Working
<1> HIDE DEF w
<1>5. w \in Work /\ w.c.out = <<>>
  <2>1. <<>> \in Seq(Record) /\ sent["server"] \in Seq(Msg) /\ got["server"] \in Seq(Msg)
    BY EmptySeq DEF TypeOK, End
  <2>2. w \in Work BY ONLY <1>1, <1>4, <2>1 DEF Work
  <2>3. QED BY <1>1, <1>4, <2>2
<1>6. net_do_krypt(w) = w BY <1>5, KryptNothing
<1>7. QED BY <1>3, <1>6 DEF w

LEMMA StartTlsStep ==
    ASSUME IInv, NEW e \in End, StartTls(e)
    PROVE  IInv' /\ Steps
<1> DEFINE x == net_do_krypt(Working(e, SSL_do_handshake(e, krypt_secure_connection(netc[e]))))
<1>1. /\ kind' = kind /\ dropped' = dropped /\ netc[e].life = "live" /\ netc[e].status = "NOINIT"
      /\ ~undef /\ undef' = (~up /\ x.tx # <<>>)
      /\ Done(e, IF undef' THEN Freed(x) ELSE x)
      /\ wire' = [wire EXCEPT ![Other(e)] = IF up THEN @ \o Units(x.tx) ELSE @]
  BY DEF StartTls, Undropped
<1>2. kind = "p2p" /\ netc[e] = Fresh("live") BY <1>1, Beginning
<1>3. x = net_do_krypt(Working(e, SSL_do_handshake(e, Started))) BY <1>2 DEF Started
<1> HIDE DEF x
<1>4. /\ TypeOK /\ wire \in [End -> Seq(Record)] /\ e \in {f \in End : netc[f].life = "live"}
      /\ dropped' \in BOOLEAN
  BY <1>1 DEF IInv, TypeOK
<1>5. CASE e = "server"
  <2>1. x = Working("server", Started) /\ x.tx = <<>>
    BY <1>3, <1>4, <1>5, ServerStarted DEF Working
  <2>2. wire[Other(e)] \o Units(<<>>) = wire[Other(e)]
    <3>1. Units(<<>>) = <<>> /\ wire[Other(e)] \in Seq(Record) BY <1>4, Ends DEF Units
    <3>2. QED BY <3>1, ConcatEmptySeq
  <2>3. undef' = undef /\ ~undef' /\ wire' = wire
    <3>1. undef' = FALSE /\ undef = FALSE BY <1>1, <1>4, <2>1 DEF TypeOK
    <3>2. QED BY <1>1, <1>4, <2>1, <2>2, <3>1, Ends
  <2>4. Done("server", x) BY <1>1, <1>5, <2>3
  <2>5. /\ IInv' /\ sent' = sent /\ got' = got
        /\ {f \in End : netc'[f].life = "live"} = {f \in End : netc[f].life = "live"} \union {"server"}
    <3>1. /\ netc["server"] \in {Fresh("none"), Fresh("live")} /\ Started \in {Fresh("live"), Started}
          /\ x = Working("server", Started) /\ Done("server", x)
          /\ wire' = wire /\ kind' = kind /\ undef' = undef /\ dropped' = dropped
          /\ up \/ netc["server"] = Fresh("live")
          /\ kind # "p2p" => Started = Started /\ ~Early(kind, View)
      BY <1>1, <1>2, <1>5, <2>1, <2>3, <2>4
    <3> DEFINE c == Started
    <3> HIDE DEF c
    <3>2. /\ netc["server"] \in {Fresh("none"), Fresh("live")} /\ c \in {Fresh("live"), Started}
          /\ x = Working("server", c) /\ Done("server", x)
          /\ wire' = wire /\ kind' = kind /\ undef' = undef /\ dropped' = dropped
          /\ up \/ netc["server"] = Fresh("live")
          /\ kind # "p2p" => c = Started /\ ~Early(kind, View)
      BY <3>1 DEF c
    <3>3. QED BY <3>2, ServerStep, ZenonT(60)
  <2>6. QED BY <1>4, <1>5, <2>5 DEF Steps
<1>6. CASE e = "client" /\ up
  <2>1. undef' = undef /\ Done("client", x)
    <3>1. undef' = FALSE /\ undef = FALSE BY <1>1, <1>4, <1>6 DEF TypeOK
    <3>2. QED BY <1>1, <1>6, <3>1
  <2>2. wire' = [wire EXCEPT !["server"] = @ \o Units(x.tx)] BY <1>1, <1>6, Ends
  <2>3. /\ IInv' /\ sent' = sent /\ got' = got
        /\ {f \in End : netc'[f].life = "live"} = {f \in End : netc[f].life = "live"} \union {"client"}
    BY <1>1, <1>2, <1>3, <1>6, <2>1, <2>2, HelloStep
  <2>4. QED BY <1>4, <1>6, <2>3 DEF Steps
<1>7. CASE e = "client" /\ ~up
  <2>1. x \in Work /\ x.sent = sent[e] /\ x.got = got[e] /\ x.tx = <<Flight(1)>>
    BY <1>3, <1>4, <1>7, Hello
  <2>2. undef' /\ Done(e, Freed(x)) /\ wire' = wire
    <3>1. <<Flight(1)>> # <<>> OBVIOUS
    <3>2. QED BY <1>1, <1>4, <1>7, <2>1, <3>1
  <2>3. Freed(x) \in Work /\ Freed(x).c = Fresh("freed") /\ Freed(x).sent = sent[e] /\ Freed(x).got = got[e]
    BY <2>1, FreedWork
  <2>4. IsPrefix(sent[e], sent[e]) /\ IsPrefix(got[e], got[e]) /\ IsPrefix(got[e], sent[Other(e)])
    BY <1>1, PrefixSelf, GotSent DEF IInv, TypeOK
  <2> DEFINE y == Freed(x)
  <2>5. /\ y \in Work /\ y.c = Fresh("freed") /\ Done(e, y) /\ undef' \in BOOLEAN
        /\ IsPrefix(sent[e], y.sent) /\ IsPrefix(got[e], y.got) /\ IsPrefix(y.got, sent[Other(e)])
        /\ wire' \in [End -> Seq(Record)] /\ wire'[Other(e)] = wire[Other(e)] /\ wire'[e] = wire[e]
    BY <1>4, <2>2, <2>3, <2>4
  <2> HIDE DEF y
  <2>6. IInv' /\ TheChannel!Work(e) BY <1>1, <1>4, <2>5, FreedStep
  <2>7. QED BY <2>6 DEF Steps
<1>8. QED BY <1>5, <1>6, <1>7 DEF End

-----------------------------------------------------------------------------
(* The theorems. *)

LEMMA InitInv == Init => IInv
<1> SUFFICES ASSUME Init PROVE IInv
  OBVIOUS
<1>1. Fresh("none") \in Conn /\ <<>> \in Seq(Record) /\ <<>> \in Seq(Msg)
  BY FreshConn, EmptySeq
<1>2. TypeOK BY <1>1 DEF Init, TypeOK
<1>3. Early(kind, View) BY DEF Init, Early, View, End
<1>4. QED BY <1>2, <1>3 DEF Init, IInv, Sound

LEMMA NextInv == IInv /\ [Next]_vars => IInv' /\ Steps
<1> SUFFICES ASSUME IInv, [Next]_vars PROVE IInv' /\ Steps
  OBVIOUS
<1>1. CASE Connect BY <1>1, ConnectStep DEF Steps, End
<1>2. CASE Accept BY <1>2, AcceptStep DEF Steps, End
<1>3. CASE Purge BY <1>3, PurgeStep DEF Steps
<1>4. CASE Break BY <1>4, BreakStep DEF Steps
<1>5. ASSUME NEW e \in End, Loop(e) PROVE IInv' /\ Steps
  <2>1. PICK n \in 0 .. RecvSize : (n > 0 /\ (Input(e, n) \/ HandshakeFails(e, n))) \/ LastInput(e, n)
    BY <1>5 DEF Loop
  <2>2. n \in Nat BY NetbusAssumption
  <2>3. QED BY <2>1, <2>2, InputStep, HandshakeFailsStep, LastInputStep DEF Steps
<1>6. ASSUME NEW e \in End, SendFrame(e) PROVE IInv' /\ Steps
  BY <1>6, SendFrameStep DEF Steps
<1>7. ASSUME NEW e \in End, Register(e) PROVE IInv' /\ Steps
  BY <1>7, RegisterStep DEF Steps
<1>8. ASSUME NEW e \in End, StartTls(e) PROVE IInv' /\ Steps BY <1>8, StartTlsStep
<1>9. CASE Provisioning BY <1>9, ProvisioningStep DEF Steps, End
<1>10. CASE ProvisioningFreed BY <1>10, ProvisioningFreedStep DEF Steps
<1>11. CASE UNCHANGED vars
  <2>1. /\ kind' = kind /\ netc' = netc /\ wire' = wire /\ up' = up /\ sent' = sent /\ got' = got
        /\ undef' = undef /\ dropped' = dropped
    BY <1>11 DEF vars
  <2>2. TypeOK' /\ View' = View BY <2>1 DEF IInv, TypeOK, View
  <2>3. Sound' BY <2>1, <2>2 DEF IInv, Sound
  <2>4. QED BY <2>1, <2>2, <2>3 DEF IInv, Steps
<1>12. QED BY <1>1, <1>2, <1>3, <1>4, <1>5, <1>6, <1>7, <1>8, <1>9, <1>10, <1>11 DEF Next

(* Whatever the stream was cut into: while the transport connects the two, the
   connection is in one of the phases of the two handshakes, of a provisioning
   between them and of the talk after them; what is on its way to an end is, in
   order, what it has to be given.  Where the loop of an agent read a piece of the
   hello before TLS was started, nothing follows (net_on_input, net_p2p, on_secure,
   authRequest, provisioning, net_step_up). *)
THEOREM Inductive == Spec => []IInv
BY InitInv, NextInv, PTL DEF Spec

LEMMA InvStuck == IInv => NothingStuck
<1> SUFFICES ASSUME IInv, ~undef, ~dropped, up, \A e \in End : netc[e].life = "live" /\ wire[e] = <<>>
             PROVE  \A e \in End : ~Holds(netc[e]) /\ got[Other(e)] = sent[e]
  BY DEF NothingStuck
<1>1. /\ TypeOK /\ View \in [End -> Side]
      /\ \A f \in End : /\ View[f].c = netc[f] /\ View[f].w = wire[f]
                        /\ View[f].sent = sent[f] /\ View[f].got = got[f]
  BY Viewed DEF IInv
<1>2. CASE Early(kind, View)
  <2>1. \A f \in End : View[f].c \in {Fresh("none"), Fresh("live"), Started}
    BY <1>2 DEF Early, End
  <2>2. \A f \in End : ~Holds(netc[f]) BY <1>1, <2>1, FreshConn DEF Holds
  <2>3. QED BY <1>1, <1>2, <2>2, Ends DEF Early
<1>3. ASSUME Connected(kind, View), NEW e \in End PROVE ~Holds(netc[e]) /\ sent[Other(e)] = got[e]
  <2>1. PICK Q, R : Awaits(View, e, Q, R) /\ Shape(kind, Q, R)
    BY <1>3, PhaseShape DEF Connected, Due
  <2>2. netc[e].out = <<>> /\ netc[e].enc = <<>> /\ Len(netc[e].bio) <= 1
    <3>1. CASE Live(e, View) BY <1>1, <3>1 DEF Live, Quiet
    <3>2. CASE ~Live(e, View)
      <4>1. netc[e] \in {Fresh("none"), Fresh("live")}
        BY <1>1, <1>3, <3>2 DEF Connected, Unready, End
      <4>2. netc[e].bio = <<>> /\ Len(<<>>) = 0 BY <4>1, FreshConn
      <4>3. QED BY <4>1, <4>2, FreshConn
    <3>3. QED BY <3>1, <3>2
  <2>3. netc[e] \in Conn /\ got[e] \in Seq(Msg) BY <1>1 DEF TypeOK
  <2>4. OnLine(netc[e], <<>>, Q) /\ sent[Other(e)] = got[e] \o R
    BY <1>1, <2>1, Ends DEF Awaits
  <2>5. netc[e].bio = <<>> /\ R = <<>> BY <2>1, <2>2, <2>3, <2>4, ShapeEmpty
  <2>6. got[e] \o <<>> = got[e] BY <2>3, ConcatEmptySeq
  <2>7. QED BY <2>2, <2>4, <2>5, <2>6 DEF Holds
<1>4. QED BY <1>2, <1>3, Ends DEF IInv, Sound

(* When the stream is empty nothing waits inside a connection: no flight in a
   BIO, no record that SSL_read has not answered, no message in buf_enc; every
   message given to net_send_msg was handed over, unless a piece of the hello was
   dropped (net_on_input, krypt_do_handshake, krypt_encrypt_buf). *)
THEOREM NeverStuck == Spec => []NothingStuck
BY Inductive, InvStuck, PTL

LEMMA InvCertificates == IInv => UnderCertificates
<1> SUFFICES ASSUME IInv, kind # "p2p"
             PROVE  \A e \in End : \A unit \in Range(wire[e] \o netc[e].bio) :
                      \A i \in DOMAIN unit.msgs : unit.keys = 1 <=> unit.msgs[i].op \in Anonymous
  BY DEF UnderCertificates
<1>1. \A f \in End : View[f].c = netc[f] /\ View[f].w = wire[f] BY Viewed DEF IInv
<1>2. \A e \in End : netc[e].bio \in Seq(Proper) /\ wire[e] \in Seq(Proper)
  BY <1>1, InvBroken DEF Broken, Certified
<1>3. ASSUME NEW e \in End, NEW unit \in Range(wire[e] \o netc[e].bio) PROVE unit \in Proper
  <2> DEFINE s == wire[e] \o netc[e].bio
  <2>1. s \in Seq(Proper) BY <1>2, ConcatProperties
  <2> HIDE DEF s
  <2>2. PICK i \in DOMAIN s : unit = s[i] BY <1>3 DEF Range, s
  <2>3. QED BY <2>1, <2>2
<1>4. QED BY <1>3 DEF Proper

(* Under the anonymous keys there are four messages and no others: the agent asks
   for a passport and is given it, its private key in it, and asks to be
   authenticated, and the switch answers; whatever follows waits for certificates
   (on_secure, provisioning, authRequest, net_step_up). *)
THEOREM AlwaysUnderCertificates == Spec => []UnderCertificates
BY Inductive, InvCertificates, PTL

LEMMA InitChannel == Init => TheChannel!ChannelInit
BY FreshConn DEF Init, TheChannel!ChannelInit

(* Whatever the stream was cut into and wherever it broke, each end is handed in
   order and once what the other end sent, for as long as its connection lives
   (net_on_input, net_send_msg, net_disconnect). *)
THEOREM IsChannel == Spec => ImplementsChannel
<1>1. IInv /\ [Next]_vars =>
        [\E e \in End : TheChannel!Open(e) \/ TheChannel!Work(e)]_
          <<sent, got, {e \in End : netc[e].life = "live"}>>
  BY NextInv DEF Steps
<1>2. QED
  BY <1>1, Inductive, InitChannel, PTL DEF Spec, ImplementsChannel, TheChannel!ChannelSpec

-----------------------------------------------------------------------------
(***************************************************************************)
(* What travels in a frame: the tag, the length and the members of a       *)
(* message (module Ber), of any size the 3-octet form of a length can say. *)
(***************************************************************************)

(* The pieces of a sequence. *)

LEMMA FromIs ==
    ASSUME NEW S, NEW b \in Seq(S), NEW n \in 0 .. Len(b)
    PROVE  /\ From(b, n) \in Seq(S)
           /\ Len(From(b, n)) = Len(b) - n
           /\ \A i \in 1 .. Len(b) - n : From(b, n)[i] = b[n + i]
<1>1. Len(b) \in Nat OBVIOUS
<1>2. QED BY <1>1 DEF From

LEMMA UptoIs ==
    ASSUME NEW S, NEW b \in Seq(S), NEW n \in 0 .. Len(b)
    PROVE  /\ Upto(b, n) \in Seq(S)
           /\ Len(Upto(b, n)) = n
           /\ \A i \in 1 .. n : Upto(b, n)[i] = b[i]
<1>1. Len(b) \in Nat OBVIOUS
<1>2. QED BY <1>1 DEF Upto

LEMMA SameSeq ==
    ASSUME NEW S, NEW a \in Seq(S), NEW b \in Seq(S), Len(a) = Len(b),
           \A i \in 1 .. Len(a) : a[i] = b[i]
    PROVE  a = b
BY SeqEqual

LEMMA ConcatIs ==
    ASSUME NEW S, NEW a \in Seq(S), NEW b \in Seq(S)
    PROVE  /\ a \o b \in Seq(S)
           /\ Len(a \o b) = Len(a) + Len(b)
           /\ \A i \in 1 .. Len(a) : (a \o b)[i] = a[i]
           /\ \A i \in 1 .. Len(b) : (a \o b)[Len(a) + i] = b[i]
BY ConcatProperties

LEMMA FromConcat ==
    ASSUME NEW S, NEW a \in Seq(S), NEW b \in Seq(S)
    PROVE  From(a \o b, Len(a)) = b
<1> DEFINE c == a \o b
<1>1. c \in Seq(S) /\ Len(c) = Len(a) + Len(b) /\ Len(a) \in Nat /\ Len(b) \in Nat
  BY ConcatIs
<1>2. \A i \in 1 .. Len(b) : c[Len(a) + i] = b[i] BY ConcatIs
<1> HIDE DEF c
<1>3. /\ From(c, Len(a)) \in Seq(S)
      /\ Len(From(c, Len(a))) = Len(b)
      /\ \A i \in 1 .. Len(b) : From(c, Len(a))[i] = c[Len(a) + i]
  <2>1. Len(a) \in 0 .. Len(c) /\ Len(c) - Len(a) = Len(b) BY <1>1
  <2>2. /\ From(c, Len(a)) \in Seq(S)
        /\ Len(From(c, Len(a))) = Len(c) - Len(a)
        /\ \A i \in 1 .. Len(c) - Len(a) : From(c, Len(a))[i] = c[Len(a) + i]
    BY <1>1, <2>1, FromIs
  <2>3. QED BY <2>1, <2>2
<1>4. From(c, Len(a)) = b BY <1>1, <1>2, <1>3, SameSeq
<1>5. QED BY <1>4 DEF c

LEMMA FromOf ==
    ASSUME NEW S, NEW a \in Seq(S), NEW b \in Seq(S), NEW k \in 0 .. Len(a)
    PROVE  From(a \o b, k) = From(a, k) \o b
<1> PICK c : c = a \o b
  OBVIOUS
<1> PICK f : f = From(a, k)
  OBVIOUS
<1>1. /\ c \in Seq(S) /\ Len(c) = Len(a) + Len(b)
      /\ \A i \in 1 .. Len(a) : c[i] = a[i]
      /\ \A i \in 1 .. Len(b) : c[Len(a) + i] = b[i]
  BY ConcatIs
<1>2. /\ f \in Seq(S) /\ Len(f) = Len(a) - k
      /\ \A i \in 1 .. Len(a) - k : f[i] = a[k + i]
  BY FromIs
<1> PICK g : g = f \o b
  OBVIOUS
<1>3. /\ g \in Seq(S) /\ Len(g) = Len(f) + Len(b)
      /\ \A i \in 1 .. Len(f) : g[i] = f[i]
      /\ \A i \in 1 .. Len(b) : g[Len(f) + i] = b[i]
  <2>1. f \in Seq(S) /\ b \in Seq(S) BY <1>2
  <2>2. QED BY <2>1, ConcatIs
<1>4. k \in 0 .. Len(c) /\ Len(a) \in Nat /\ Len(b) \in Nat BY <1>1
<1> PICK r : r = From(c, k)
  OBVIOUS
<1>5. /\ r \in Seq(S) /\ Len(r) = Len(c) - k
      /\ \A i \in 1 .. Len(c) - k : r[i] = c[k + i]
  BY <1>1, <1>4, FromIs, ZenonT(60)
<1>6. Len(r) = Len(g) BY <1>1, <1>2, <1>3, <1>4, <1>5
<1>7. ASSUME NEW i \in 1 .. Len(r)
      PROVE  r[i] = g[i]
  <2>1. r[i] = c[k + i] BY <1>5
  <2>2. CASE i <= Len(f) BY <1>1, <1>2, <1>3, <1>4, <2>1, <2>2
  <2>3. CASE ~(i <= Len(f))
    <3> PICK q : q = i - Len(f)
      OBVIOUS
    <3>1. q \in 1 .. Len(b) /\ Len(f) + q = i /\ Len(a) + q = k + i
      <4>1. Len(a) \in Nat /\ Len(b) \in Nat /\ k \in 0 .. Len(a) BY <1>4
      <4>2. Len(f) = Len(a) - k /\ Len(r) = Len(f) + Len(b) BY <1>2, <1>3, <1>6
      <4>3. i \in 1 .. Len(f) + Len(b) /\ ~(i <= Len(f)) /\ q = i - Len(f) BY <4>2, <2>3
      <4>4. QED BY <4>1, <4>2, <4>3
    <3>2. QED BY <1>1, <1>3, <2>1, <3>1, SMTT(40)
  <2>4. QED BY <2>2, <2>3
<1>8. r = g BY <1>3, <1>5, <1>6, <1>7, SameSeq
<1>9. QED BY <1>8

LEMMA UptoConcat ==
    ASSUME NEW S, NEW a \in Seq(S), NEW b \in Seq(S), NEW k \in 0 .. Len(a)
    PROVE  Upto(a \o b, k) = Upto(a, k)
<1> DEFINE c == a \o b
<1>1. c \in Seq(S) /\ Len(c) = Len(a) + Len(b) /\ Len(a) \in Nat /\ Len(b) \in Nat
  BY ConcatIs
<1>2. \A i \in 1 .. Len(a) : c[i] = a[i] BY ConcatIs
<1> HIDE DEF c
<1>3. /\ Upto(c, k) \in Seq(S)
      /\ Len(Upto(c, k)) = k
      /\ \A i \in 1 .. k : Upto(c, k)[i] = c[i]
  <2>1. c \in Seq(S) /\ k \in 0 .. Len(c) BY <1>1
  <2>2. QED BY <2>1, UptoIs, ZenonT(60)
<1>4. /\ Upto(a, k) \in Seq(S)
      /\ Len(Upto(a, k)) = k
      /\ \A i \in 1 .. k : Upto(a, k)[i] = a[i]
  BY UptoIs
<1>5. Upto(c, k) = Upto(a, k) BY <1>1, <1>2, <1>3, <1>4, SameSeq, SMTT(40)
<1>6. QED BY <1>5 DEF c

LEMMA UptoAll ==
    ASSUME NEW S, NEW a \in Seq(S)
    PROVE  Upto(a, Len(a)) = a
BY UptoIs, SameSeq

(* What follows within what follows. *)
LEMMA FromFrom ==
    ASSUME NEW S, NEW b \in Seq(S), NEW k \in 0 .. Len(b), NEW n \in 0 .. Len(b) - k
    PROVE  From(From(b, k), n) = From(b, k + n)
<1> DEFINE p == From(b, k)
<1>1. p \in Seq(S) /\ Len(p) = Len(b) - k
      /\ \A i \in 1 .. Len(b) - k : p[i] = b[k + i]
  BY FromIs
<1>2. k + n \in 0 .. Len(b) OBVIOUS
<1> HIDE DEF p
<1>3. From(p, n) \in Seq(S) /\ Len(From(p, n)) = Len(b) - (k + n)
      /\ \A i \in 1 .. Len(b) - (k + n) : From(p, n)[i] = p[n + i]
  <2>1. n \in 0 .. Len(p) /\ Len(p) - n = Len(b) - (k + n) BY <1>1
  <2>2. /\ From(p, n) \in Seq(S)
        /\ Len(From(p, n)) = Len(p) - n
        /\ \A i \in 1 .. Len(p) - n : From(p, n)[i] = p[n + i]
    BY <1>1, <2>1, FromIs
  <2>3. QED BY <2>1, <2>2
<1>4. From(b, k + n) \in Seq(S) /\ Len(From(b, k + n)) = Len(b) - (k + n)
      /\ \A i \in 1 .. Len(b) - (k + n) : From(b, k + n)[i] = b[k + n + i]
  BY <1>2, FromIs
<1>5. \A i \in 1 .. Len(b) - (k + n) : p[n + i] = b[k + n + i] BY <1>1
<1>6. From(p, n) = From(b, k + n) BY <1>3, <1>4, <1>5, SameSeq
<1>7. QED BY <1>6 DEF p

LEMMA Rejoined ==
    ASSUME NEW S, NEW b \in Seq(S), NEW k \in 0 .. Len(b), NEW n \in k .. Len(b)
    PROVE  /\ Upto(b, k) \o Upto(From(b, k), n - k) = Upto(b, n)
           /\ From(Upto(b, n), k) = Upto(From(b, k), n - k)
<1> DEFINE p == Upto(b, k)
           q == From(b, k)
           u == Upto(b, n)
<1>1. p \in Seq(S) /\ Len(p) = k /\ \A i \in 1 .. k : p[i] = b[i] BY UptoIs
<1>2. q \in Seq(S) /\ Len(q) = Len(b) - k /\ \A i \in 1 .. Len(b) - k : q[i] = b[k + i]
  BY FromIs
<1>3. u \in Seq(S) /\ Len(u) = n /\ \A i \in 1 .. n : u[i] = b[i] BY UptoIs
<1> HIDE DEF p, q, u
<1> DEFINE r == Upto(q, n - k)
           f == From(u, k)
<1>4. r \in Seq(S) /\ Len(r) = n - k /\ \A i \in 1 .. n - k : r[i] = q[i]
  <2>1. n - k \in 0 .. Len(q) BY <1>2
  <2>2. QED BY <2>1, <1>2, UptoIs
<1>5. f \in Seq(S) /\ Len(f) = n - k /\ \A i \in 1 .. n - k : f[i] = u[k + i]
  <2>1. k \in 0 .. Len(u) BY <1>3
  <2>2. QED BY <2>1, <1>3, FromIs
<1> HIDE DEF r, f
<1> DEFINE s == p \o r
<1>6. /\ s \in Seq(S) /\ Len(s) = n
      /\ \A i \in 1 .. k : s[i] = p[i]
      /\ \A i \in 1 .. n - k : s[k + i] = r[i]
  <2>1. /\ p \o r \in Seq(S)
        /\ Len(p \o r) = Len(p) + Len(r)
        /\ \A i \in 1 .. Len(p) : (p \o r)[i] = p[i]
        /\ \A i \in 1 .. Len(r) : (p \o r)[Len(p) + i] = r[i]
    <3>1. p \in Seq(S) /\ r \in Seq(S) BY <1>1, <1>4
    <3>2. QED BY <3>1, ConcatIs
  <2>2. Len(p) = k /\ Len(r) = n - k BY <1>1, <1>4
  <2>3. QED BY <2>1, <2>2
<1> HIDE DEF s
<1>7. \A i \in 1 .. n : s[i] = u[i]
  <2> TAKE i \in 1 .. n
  <2>1. CASE i <= k BY <2>1, <1>1, <1>3, <1>6
  <2>2. CASE i > k
    <3>1. i - k \in 1 .. n - k /\ i = k + (i - k) BY <2>2
    <3>2. s[i] = r[i - k] /\ r[i - k] = q[i - k] /\ q[i - k] = b[i]
      <4>1. s[k + (i - k)] = r[i - k] BY <3>1, <1>6
      <4>2. r[i - k] = q[i - k] BY <3>1, <1>4
      <4>3. q[i - k] = b[k + (i - k)] BY <3>1, <1>2
      <4>4. QED BY <4>1, <4>2, <4>3, <3>1
    <3>3. QED BY <3>2, <1>3
  <2>3. QED BY <2>1, <2>2
<1>8. s = u
  <2>1. s \in Seq(S) /\ u \in Seq(S) /\ Len(s) = Len(u) /\ \A i \in 1 .. Len(s) : s[i] = u[i]
    BY <1>3, <1>6, <1>7
  <2>2. QED BY <2>1, SameSeq
<1>9. \A i \in 1 .. n - k : f[i] = r[i]
  <2> TAKE i \in 1 .. n - k
  <2>1. f[i] = u[k + i] /\ r[i] = q[i] BY <1>4, <1>5
  <2>2. u[k + i] = b[k + i]
    <3>1. k + i \in 1 .. n OBVIOUS
    <3>2. QED BY <3>1, <1>3
  <2>3. q[i] = b[k + i]
    <3>1. i \in 1 .. Len(b) - k OBVIOUS
    <3>2. QED BY <3>1, <1>2
  <2>4. QED BY <2>1, <2>2, <2>3
<1>10. f = r BY <1>4, <1>5, <1>9, SameSeq
<1>11. QED BY <1>8, <1>10 DEF p, q, u, r, f, s

-----------------------------------------------------------------------------
Octet == 0 .. 255

LEMMA OctetsAre ==
    ASSUME NEW o \in Seq(Octet)
    PROVE  /\ Len(o) \in Nat
           /\ \A i \in 1 .. Len(o) : o[i] \in Nat /\ o[i] < 256
           /\ o = <<>> <=> Len(o) = 0
<1>1. \A i \in 1 .. Len(o) : o[i] \in Octet BY ElementOfSeq
<1>2. o = <<>> <=> Len(o) = 0 BY EmptySeq, SeqEqual
<1>3. \A e \in Octet : e \in Nat /\ e < 256 BY DEF Octet
<1>4. QED BY <1>1, <1>2, <1>3

(* Numbers of one, two and three octets. *)
LEMMA NumberIs ==
    ASSUME NEW o \in Seq(Octet)
    PROVE  /\ Len(o) = 1 => Number(o, 256) = o[1]
           /\ Len(o) = 2 => Number(o, 256) = 256 * o[1] + o[2]
           /\ Len(o) = 3 => Number(o, 256) = 256 * (256 * o[1] + o[2]) + o[3]
<1>1. \A i \in 1 .. Len(o) : o[i] \in Nat /\ o[i] % 256 = o[i]
  <2>1. \A i \in 1 .. Len(o) : o[i] \in Nat /\ o[i] < 256 BY OctetsAre
  <2>2. \A e \in Nat : e < 256 => e % 256 = e OBVIOUS
  <2>3. QED BY <2>1, <2>2
<1>2. ASSUME Len(o) = 1
      PROVE  Number(o, 256) = o[1]
  <2>1. o[1] \in Nat /\ o[1] % 256 = o[1] BY <1>1, <1>2
  <2>2. QED BY <2>1, <1>2 DEF Number
<1>3. ASSUME Len(o) = 2
      PROVE  Number(o, 256) = 256 * o[1] + o[2]
  <2>1. /\ o[1] \in Nat /\ o[1] % 256 = o[1]
        /\ o[2] \in Nat /\ o[2] % 256 = o[2]
    BY <1>1, <1>3
  <2>2. QED BY <2>1, <1>3 DEF Number
<1>4. ASSUME Len(o) = 3
      PROVE  Number(o, 256) = 256 * (256 * o[1] + o[2]) + o[3]
  <2>1. /\ o[1] \in Nat /\ o[1] % 256 = o[1]
        /\ o[2] \in Nat /\ o[2] % 256 = o[2]
        /\ o[3] \in Nat /\ o[3] % 256 = o[3]
    BY <1>1, <1>4
  <2>2. Number(o, 256) = (o[3] % 256) + 256 * ((o[2] % 256) + 256 * ((o[1] % 256) + 256 * 0))
    BY <1>4 DEF Number
  <2>3. QED BY <2>1, <2>2, SMTT(40)
<1>5. QED BY <1>2, <1>3, <1>4

(* The short form, the long form, and what is not all there. *)
LEMMA FetchLength ==
    ASSUME NEW b \in Seq(Octet), NEW con \in {0, 1}, NEW m \in 1 .. 3
    PROVE  /\ b = <<>> => ber_fetch_length(con, b) = WantMore
           /\ b # <<>> /\ b[1] < 128 => ber_fetch_length(con, b) = [len |-> 1, val |-> b[1]]
           /\ b # <<>> /\ b[1] = 128 + m /\ Len(b) <= m => ber_fetch_length(con, b) = WantMore
           /\ b # <<>> /\ b[1] = 128 + m /\ Len(b) > m =>
                 ber_fetch_length(con, b) =
                   [len |-> 1 + m, val |-> Number(SubSeq(b, 2, 1 + m), 256)]
<1>1. Len(b) \in Nat OBVIOUS
<1>2. b = <<>> => ber_fetch_length(con, b) = WantMore BY DEF ber_fetch_length
<1>3. b # <<>> /\ b[1] < 128 => ber_fetch_length(con, b) = [len |-> 1, val |-> b[1]]
  BY DEF ber_fetch_length
<1>4. ASSUME b # <<>>, b[1] = 128 + m
      PROVE  /\ Len(b) <= m => ber_fetch_length(con, b) = WantMore
             /\ Len(b) > m => ber_fetch_length(con, b) =
                   [len |-> 1 + m, val |-> Number(SubSeq(b, 2, 1 + m), 256)]
  <2>1. b[1] % 128 = m /\ ~(b[1] < 128) /\ b[1] # 255 BY <1>4
  <2>2. CASE Len(b) <= m BY <2>1, <2>2, <1>4 DEF ber_fetch_length
  <2>3. CASE Len(b) > m
    <3>1. ~(Len(b) =< m) BY <2>3, <1>1
    <3>2. QED BY <2>1, <3>1, <1>4 DEF ber_fetch_length
  <2>4. QED BY <2>2, <2>3, <1>1
<1>5. QED BY <1>2, <1>3, <1>4

(* Lengths of three octets at most: less than 2 ^ 24. *)
Size == {n \in Nat : (n \div 256) \div 256 < 256}

LEMMA PairIs ==
    ASSUME NEW S, NEW x \in S, NEW y \in S
    PROVE  <<x, y>> \in Seq(S) /\ <<x, y>> = <<x>> \o <<y>>
<1>1. <<x, y>> \in Seq(S) /\ <<x>> \in Seq(S) /\ <<y>> \in Seq(S) OBVIOUS
<1>2. /\ <<x>> \o <<y>> \in Seq(S)
      /\ Len(<<x>> \o <<y>>) = 2
      /\ \A i \in 1 .. 1 : (<<x>> \o <<y>>)[i] = <<x>>[i]
      /\ \A i \in 1 .. 1 : (<<x>> \o <<y>>)[1 + i] = <<y>>[i]
  BY <1>1, ConcatIs
<1> DEFINE c == <<x>> \o <<y>>
<1>3. c \in Seq(S) /\ Len(c) = 2 /\ c[1] = x /\ c[2] = y BY <1>2
<1> HIDE DEF c
<1>4. <<x, y>> = c BY <1>1, <1>3
<1>5. QED BY <1>1, <1>4 DEF c

LEMMA TripleIs ==
    ASSUME NEW S, NEW x \in S, NEW y \in S, NEW z \in S
    PROVE  <<x, y, z>> \in Seq(S) /\ <<x, y, z>> = <<x>> \o <<y, z>>
OBVIOUS

LEMMA QuadrupleIs ==
    ASSUME NEW S, NEW x \in S, NEW y \in S, NEW z \in S, NEW w \in S
    PROVE  <<x, y, z, w>> \in Seq(S) /\ <<x, y, z, w>> = <<x>> \o <<y, z, w>>
OBVIOUS

LEMMA DivMod ==
    ASSUME NEW n \in Nat
    PROVE  /\ n \div 256 \in Nat /\ n % 256 \in Octet
           /\ n = 256 * (n \div 256) + (n % 256)
<1>1. n \div 256 \in Nat /\ n % 256 \in Nat /\ n % 256 < 256 OBVIOUS
<1>2. n = 256 * (n \div 256) + (n % 256) OBVIOUS
<1>3. QED BY <1>1, <1>2 DEF Octet

(* The long form of a length: how many octets it has, and they. *)
LEMMA LongForm ==
    ASSUME NEW n \in Size, 127 < n
    PROVE  \E o \in Seq(Octet) :
              /\ Len(o) \in 1 .. 3 /\ Number(o, 256) = n
              /\ der_tlv_length_serialize(n) = <<128 + Len(o)>> \o o
<1> DEFINE h == n \div 256
           l == n % 256
           hh == h \div 256
           hl == h % 256
           s == der_tlv_length_serialize(n)
<1>1. n \in Nat /\ hh < 256 BY DEF Size
<1>2. h \in Nat /\ l \in Octet /\ n = 256 * h + l BY <1>1, DivMod
<1> HIDE DEF h, l
<1>3. hh \in Nat /\ hl \in Octet /\ h = 256 * hh + hl BY <1>2, DivMod
<1>4. s = IF n =< 255 THEN <<129, n>> ELSE IF h =< 255 THEN <<130, h, l>>
          ELSE <<131, hh, hl, l>>
  BY <1>1 DEF der_tlv_length_serialize, h, l
<1> HIDE DEF hh, hl, s
<1>5. 129 \in Octet /\ 130 \in Octet /\ 131 \in Octet BY DEF Octet
<1>6. CASE n =< 255
  <2> DEFINE o == <<n>>
  <2>1. n \in Octet BY <1>1, <1>6 DEF Octet
  <2>2. o \in Seq(Octet) /\ Len(o) = 1 /\ o[1] = n BY <2>1
  <2>3. <<129, n>> = <<129>> \o o BY <1>5, <2>1, PairIs
  <2> HIDE DEF o
  <2>4. Number(o, 256) = n BY <2>2, NumberIs
  <2>5. s = <<128 + Len(o)>> \o o BY <1>4, <1>6, <2>2, <2>3
  <2> USE <2>2
  <2> WITNESS o \in Seq(Octet)
  <2>6. QED BY <2>2, <2>4, <2>5 DEF s
<1>7. CASE ~(n =< 255) /\ h =< 255
  <2> DEFINE o == <<h, l>>
  <2>1. h \in Octet BY <1>2, <1>7 DEF Octet
  <2>2. o \in Seq(Octet) /\ Len(o) = 2 /\ o[1] = h /\ o[2] = l BY <2>1, <1>2
  <2>3. <<130, h, l>> = <<130>> \o o BY <1>2, <1>5, <2>1, TripleIs, SMTT(40)
  <2> HIDE DEF o
  <2>4. Number(o, 256) = n BY <2>2, <1>2, NumberIs
  <2>5. s = <<128 + Len(o)>> \o o BY <1>4, <1>7, <2>2, <2>3
  <2> USE <2>2
  <2> WITNESS o \in Seq(Octet)
  <2>6. QED BY <2>2, <2>4, <2>5 DEF s
<1>8. CASE ~(n =< 255) /\ ~(h =< 255)
  <2> DEFINE o == <<hh, hl, l>>
  <2>1. hh \in Octet BY <1>1, <1>3 DEF Octet
  <2>2. o \in Seq(Octet) /\ Len(o) = 3 /\ o[1] = hh /\ o[2] = hl /\ o[3] = l
    BY <2>1, <1>2, <1>3
  <2>3. <<131, hh, hl, l>> = <<131>> \o o
    <3>1. hh \in Octet /\ hl \in Octet /\ l \in Octet /\ 131 \in Octet
      BY <1>2, <1>3, <1>5, <2>1
    <3>2. QED BY <3>1, QuadrupleIs, SMTT(40)
  <2> HIDE DEF o
  <2>4. Number(o, 256) = 256 * (256 * o[1] + o[2]) + o[3] BY <2>2, NumberIs
  <2>5. Number(o, 256) = n BY <2>4, <2>2, <1>2, <1>3
  <2>6. s = <<128 + Len(o)>> \o o BY <1>4, <1>8, <2>2, <2>3
  <2> USE <2>2
  <2> WITNESS o \in Seq(Octet)
  <2>7. QED BY <2>2, <2>5, <2>6 DEF s
<1>9. QED BY <1>6, <1>7, <1>8

LEMMA MiddleIs ==
    ASSUME NEW S, NEW p \in Seq(S), NEW o \in Seq(S), NEW r \in Seq(S)
    PROVE  SubSeq((p \o o) \o r, Len(p) + 1, Len(p) + Len(o)) = o
<1> DEFINE po == p \o o
           b == po \o r
           u == SubSeq(b, Len(p) + 1, Len(p) + Len(o))
<1>1. /\ po \in Seq(S) /\ Len(po) = Len(p) + Len(o)
      /\ \A i \in 1 .. Len(o) : po[Len(p) + i] = o[i]
  BY ConcatIs
<1> HIDE DEF po
<1>2. /\ b \in Seq(S) /\ Len(b) = Len(po) + Len(r)
      /\ \A i \in 1 .. Len(po) : b[i] = po[i]
  <2>1. po \in Seq(S) BY <1>1
  <2>2. QED BY <2>1, ConcatIs
<1> HIDE DEF b
<1>3. Len(p) \in Nat /\ Len(o) \in Nat /\ Len(r) \in Nat OBVIOUS
<1>4. /\ u \in Seq(S) /\ Len(u) = Len(o)
      /\ \A i \in 1 .. Len(o) : u[i] = b[Len(p) + i]
  BY <1>1, <1>2, <1>3, SMTT(40)
<1> HIDE DEF u
<1>5. \A i \in 1 .. Len(o) : u[i] = o[i]
  <2> TAKE i \in 1 .. Len(o)
  <2>1. Len(p) + i \in 1 .. Len(po) BY <1>1, <1>3
  <2>2. QED BY <2>1, <1>1, <1>2, <1>4
<1>6. u = o BY <1>4, <1>5, SameSeq
<1>7. QED BY <1>6 DEF u, b, po

(* The length of some contents, up to 2^24 - 1 octets, is read back as it was
   written, whatever follows it; and not before its last octet is there
   (der_tlv_length_serialize, ber_fetch_length). *)
THEOREM LengthReadBack ==
    ASSUME NEW n \in Size, NEW rest \in Seq(Octet), NEW con \in {0, 1}
    PROVE  LET s == der_tlv_length_serialize(n)
           IN  /\ s \in Seq(Octet) /\ s # <<>>
               /\ ber_fetch_length(con, s \o rest) = [len |-> Len(s), val |-> n]
               /\ \A k \in 0 .. Len(s) - 1 : ber_fetch_length(con, Upto(s, k)) = WantMore
<1> DEFINE s == der_tlv_length_serialize(n)
           b == s \o rest
<1>1. CASE n <= 127
  <2>1. n \in Nat /\ n \in Octet /\ n < 128 BY <1>1 DEF Size, Octet
  <2>2. s = <<n>> BY <1>1 DEF der_tlv_length_serialize
  <2> HIDE DEF s
  <2>3. s \in Seq(Octet) /\ Len(s) = 1 /\ s[1] = n /\ s # <<>> BY <2>1, <2>2
  <2>4. b \in Seq(Octet) /\ Len(b) = 1 + Len(rest) /\ b[1] = n
    <3>1. /\ b \in Seq(Octet) /\ Len(b) = Len(s) + Len(rest)
          /\ \A i \in 1 .. Len(s) : b[i] = s[i]
      BY <2>3, ConcatIs
    <3>2. QED BY <3>1, <2>3
  <2> HIDE DEF b
  <2>5. b # <<>> BY <2>4, OctetsAre
  <2>6. ber_fetch_length(con, b) = [len |-> Len(s), val |-> n]
    BY <2>1, <2>3, <2>4, <2>5, FetchLength
  <2>7. Upto(s, 0) = <<>> BY <2>3, UptoIs, OctetsAre
  <2>8. ber_fetch_length(con, Upto(s, 0)) = WantMore BY <2>7 DEF ber_fetch_length
  <2>9. \A k \in 0 .. Len(s) - 1 : k = 0 BY <2>3
  <2>10. QED BY <2>3, <2>6, <2>8, <2>9 DEF s, b
<1>2. CASE ~(n <= 127)
  <2>1. n \in Nat /\ 127 < n BY <1>2 DEF Size
  <2>2. PICK o \in Seq(Octet) : /\ Len(o) \in 1 .. 3 /\ Number(o, 256) = n
                                /\ s = <<128 + Len(o)>> \o o
    BY <2>1, LongForm
  <2> DEFINE m == Len(o)
             p == <<128 + m>>
  <2>3. p \in Seq(Octet) /\ Len(p) = 1 /\ p[1] = 128 + m /\ m \in 1 .. 3
    <3>1. m \in 1 .. 3 BY <2>2
    <3> HIDE DEF m
    <3>2. 128 + m \in Octet BY <3>1 DEF Octet
    <3>3. QED BY <3>1, <3>2
  <2> HIDE DEF s, p
  <2>4. s \in Seq(Octet) /\ Len(s) = 1 + m /\ s[1] = 128 + m
    <3>1. s = p \o o BY <2>2 DEF p
    <3>2. /\ p \o o \in Seq(Octet) /\ Len(p \o o) = Len(p) + Len(o)
          /\ \A i \in 1 .. Len(p) : (p \o o)[i] = p[i]
      BY <2>3, ConcatIs, ZenonT(60)
    <3>3. QED BY <3>1, <3>2, <2>3
  <2>5. b \in Seq(Octet) /\ Len(b) = 1 + m + Len(rest) /\ b[1] = 128 + m
    <3>1. /\ b \in Seq(Octet) /\ Len(b) = Len(s) + Len(rest)
          /\ \A i \in 1 .. Len(s) : b[i] = s[i]
      <4>1. s \in Seq(Octet) BY <2>4
      <4>2. QED BY <4>1, ConcatIs
    <3>2. QED BY <3>1, <2>3, <2>4
  <2>6. SubSeq(b, 2, 1 + m) = o
    <3>1. SubSeq((p \o o) \o rest, Len(p) + 1, Len(p) + Len(o)) = o BY <2>3, MiddleIs
    <3>2. b = (p \o o) \o rest /\ Len(p) + 1 = 2 BY <2>2, <2>3 DEF p
    <3>3. QED BY <3>1, <3>2, <2>3
  <2> HIDE DEF b, m
  <2>7. b # <<>> /\ Len(b) > m BY <2>3, <2>5, OctetsAre
  <2>8. ber_fetch_length(con, b) = [len |-> 1 + m, val |-> Number(SubSeq(b, 2, 1 + m), 256)]
    <3>1. b \in Seq(Octet) /\ m \in 1 .. 3 BY <2>3, <2>5
    <3>2. b[1] = 128 + m BY <2>5
    <3>3. b # <<>> /\ b[1] = 128 + m /\ Len(b) > m =>
            ber_fetch_length(con, b) =
              [len |-> 1 + m, val |-> Number(SubSeq(b, 2, 1 + m), 256)]
      BY <3>1, FetchLength
    <3>4. QED BY <2>7, <3>2, <3>3
  <2>9. ber_fetch_length(con, b) = [len |-> Len(s), val |-> n] BY <2>2, <2>4, <2>6, <2>8
  <2>10. ASSUME NEW k \in 0 .. Len(s) - 1
         PROVE  ber_fetch_length(con, Upto(s, k)) = WantMore
    <3> DEFINE u == Upto(s, k)
    <3>1. k \in 0 .. Len(s) /\ k <= m /\ k \in Nat BY <2>3, <2>4
    <3>2. u \in Seq(Octet) /\ Len(u) = k /\ \A i \in 1 .. k : u[i] = s[i]
      BY <3>1, <2>4, UptoIs
    <3> HIDE DEF u
    <3>3. u = <<>> \/ (u # <<>> /\ u[1] = 128 + m)
      <4>1. u # <<>> => 1 \in 1 .. k BY <3>1, <3>2, OctetsAre
      <4>2. QED BY <4>1, <3>2, <2>4
    <3>4. ber_fetch_length(con, u) = WantMore BY <3>1, <3>2, <3>3, <2>3, FetchLength
    <3>5. QED BY <3>4 DEF u
  <2>11. s # <<>> BY <2>3, <2>4, OctetsAre
  <2>12. QED BY <2>4, <2>9, <2>10, <2>11 DEF s, b
<1>3. QED BY <1>1, <1>2

-----------------------------------------------------------------------------
(* Tags. *)

(* Tags of one octet, as all those of the protocol are. *)
Tag == 0 .. 123

FirstOctet(tag, con) == 64 * (tag % 4) + tag \div 4 + 32 * con

LEMMA FirstOctetIs ==
    ASSUME NEW tag \in Tag, NEW con \in {0, 1}
    PROVE  /\ FirstOctet(tag, con) \in Octet
           /\ FirstOctet(tag, con) % 32 < 31
           /\ 4 * (FirstOctet(tag, con) % 32) + FirstOctet(tag, con) \div 64 = tag
           /\ (FirstOctet(tag, con) \div 32) % 2 = con
<1> DEFINE x == FirstOctet(tag, con)
           c == tag % 4
           d == tag \div 4
<1>1. c \in 0 .. 3 /\ d \in 0 .. 30 /\ tag = 4 * d + c BY DEF Tag
<1>2. x = 64 * c + d + 32 * con BY DEF FirstOctet
<1> HIDE DEF x, c, d
<1>3. x \div 64 = c BY <1>1, <1>2
<1>4. x % 32 = d BY <1>1, <1>2
<1>5. (x \div 32) % 2 = con
  <2>1. x \div 32 = 2 * c + con BY <1>1, <1>2
  <2>2. QED BY <2>1, <1>1
<1>6. x \in Octet BY <1>1, <1>2 DEF Octet
<1>7. QED BY <1>1, <1>3, <1>4, <1>5, <1>6 DEF x

LEMMA FetchTag ==
    ASSUME NEW b \in Seq(Octet)
    PROVE  /\ b = <<>> => ber_fetch_tag(b) = WantMore
           /\ b # <<>> /\ b[1] % 32 < 31 =>
                ber_fetch_tag(b) = [len |-> 1, val |-> 4 * (b[1] % 32) + b[1] \div 64]
BY DEF ber_fetch_tag

(* A chain of one tag: every type of the protocol, in every tagging mode its
   tables give it, has one. *)
OneTag(td, mode) ==
    \/ mode \in {0, -1} /\ Len(td.tags) = 1
    \/ mode = 1 /\ Len(td.tags) = 0

Outer(td, mode, tag) == IF mode = 0 THEN td.tags[1] ELSE tag

LEMMA WriteOne ==
    ASSUME NEW td, td.tags \in Seq(Tag), NEW mode, OneTag(td, mode),
           NEW tag \in Tag, NEW size \in Nat, NEW form \in {0, 1}
    PROVE  der_write_tags(td, size, mode, form, tag) =
             der_write_TL(Outer(td, mode, tag), size, form) \o <<>>
<1> DEFINE tags == CASE mode = 0  -> td.tags
                     [] mode = 1  -> <<tag>> \o td.tags
                     [] mode = -1 -> <<tag>> \o From(td.tags, 1)
<1>1. tags = <<Outer(td, mode, tag)>>
  <2>1. CASE mode = 0
    <3>1. Len(td.tags) = 1 BY <2>1 DEF OneTag
    <3>2. td.tags = <<td.tags[1]>> BY <3>1
    <3>3. QED BY <2>1, <3>2 DEF Outer
  <2>2. CASE mode = 1
    <3>1. td.tags = <<>> BY <2>2, EmptySeq, SeqEqual DEF OneTag
    <3>2. <<tag>> \o <<>> = <<tag>> OBVIOUS
    <3>3. QED BY <2>2, <3>1, <3>2 DEF Outer
  <2>3. CASE mode = -1
    <3>1. Len(td.tags) = 1 BY <2>3 DEF OneTag
    <3>2. From(td.tags, 1) = <<>> BY <3>1 DEF From
    <3>3. <<tag>> \o <<>> = <<tag>> OBVIOUS
    <3>4. tags = <<tag>> \o From(td.tags, 1) BY <2>3
    <3>5. Outer(td, mode, tag) = tag BY <2>3 DEF Outer
    <3>6. QED BY <3>2, <3>3, <3>4, <3>5
  <2>4. QED BY <2>1, <2>2, <2>3 DEF OneTag
<1>2. Len(tags) = 1 /\ tags[1] = Outer(td, mode, tag)
  <2> HIDE DEF tags
  <2>1. QED BY <1>1
<1> DEFINE n == Len(tags)
           TL(i, inner) ==
             der_write_TL(tags[i], size + Len(inner), IF i < n THEN 1 ELSE form) \o inner
           Header[i \in 1..(n + 1)] == IF i > n THEN <<>> ELSE TL(i, Header[i + 1])
<1>3. der_write_tags(td, size, mode, form, tag) = Header[1] BY DEF der_write_tags
<1> HIDE DEF tags, n, TL
<1>4. Header = [i \in 1..(n + 1) |-> IF i > n THEN <<>> ELSE TL(i, Header[i + 1])]
  <2> DEFINE h == [i \in 1 .. 2 |-> IF i > 1 THEN <<>> ELSE TL(1, <<>>)]
  <2>0. n = 1 BY <1>2 DEF n
  <2>1. h = [i \in 1..(n + 1) |-> IF i > n THEN <<>> ELSE TL(i, h[i + 1])] BY <2>0
  <2> HIDE DEF h
  <2>2. QED BY <2>1
<1> HIDE DEF Header
<1>5. Header[1] = TL(1, <<>>)
  <2>1. n = 1 BY <1>2 DEF n
  <2>2. Header[1] = IF 1 > n THEN <<>> ELSE TL(1, Header[1 + 1]) BY <1>4, <2>1
  <2>3. Header[1 + 1] = <<>> BY <1>4, <2>1
  <2>4. QED BY <2>1, <2>2, <2>3
<1>6. QED BY <1>2, <1>3, <1>5 DEF TL, n

LEMMA FromNone ==
    ASSUME NEW S, NEW b \in Seq(S)
    PROVE  From(b, 0) = b
<1>1. /\ From(b, 0) \in Seq(S) /\ Len(From(b, 0)) = Len(b)
      /\ \A i \in 1 .. Len(b) : From(b, 0)[i] = b[i]
  BY FromIs
<1>2. QED BY <1>1, SameSeq

(* The one turn of the loop. *)
Turn(td, b, mode, form) ==
  LET t   == ber_fetch_tag(b)
      con == Constructed(b)
      l   == ber_fetch_length(con, From(b, t.len))
  IN  IF t.len = 0 THEN TagCheck(RC_WMORE, 0, 0, -1, -1)
      ELSE IF \/ t.len = -1
              \/ mode = 0 /\ t.val # td.tags[1]
              \/ form \notin {-1, con}
           THEN TagCheck(RC_FAIL, 0, 0, -1, -1)
      ELSE IF l.len = 0 THEN TagCheck(RC_WMORE, 0, 0, -1, -1)
      ELSE IF l.len = -1 THEN TagCheck(RC_FAIL, 0, 0, -1, -1)
      ELSE TagCheck(RC_OK, 0 + (t.len + l.len), 1, l.val, con)

LEMMA CheckOne ==
    ASSUME NEW td, td.tags \in Seq(Tag), NEW mode, OneTag(td, mode),
           NEW b \in Seq(Octet), NEW form
    PROVE  ber_check_tags(td, 0, b, mode, form) = Turn(td, b, mode, form)
<1> DEFINE first == 0 + IF mode = 1 THEN 0 ELSE 1
           start == TagCheck(RC_OK, 0, 0, -1, -1)
           n == Len(td.tags)
           Checked[no \in (first - 1)..n] ==
             IF no < first THEN start
             ELSE CheckTag(td, no, b, mode, form, Checked[no - 1])
<1>1. n = first /\ first \in {0, 1} /\ (first = 1 <=> mode # 1)
  <2> HIDE DEF Checked, start
  <2>1. CASE mode = 1 /\ n = 0 BY <2>1
  <2>2. CASE mode \in {0, -1} /\ n = 1 BY <2>2
  <2>3. QED BY <2>1, <2>2 DEF OneTag
<1>2. ber_check_tags(td, 0, b, mode, form) = Checked[n] BY DEF ber_check_tags
<1> HIDE DEF start
<1>3. Checked = [no \in (first - 1)..n |->
                   IF no < first THEN start
                   ELSE CheckTag(td, no, b, mode, form, Checked[no - 1])]
  <2> DEFINE f == [no \in (first - 1)..n |->
                     IF no < first THEN start ELSE CheckTag(td, no, b, mode, form, start)]
  <2> HIDE DEF n, first
  <2>1. f = [no \in (first - 1)..n |->
               IF no < first THEN start
               ELSE CheckTag(td, no, b, mode, form, f[no - 1])]
    <3>1. ASSUME NEW no \in (first - 1)..n, ~(no < first)
          PROVE  f[no - 1] = start
      <4>1. no - 1 \in (first - 1)..n /\ no - 1 < first BY <1>1, <3>1
      <4>2. QED BY <4>1
    <3>2. ASSUME NEW no \in (first - 1)..n
          PROVE  (IF no < first THEN start ELSE CheckTag(td, no, b, mode, form, start))
                 = (IF no < first THEN start
                    ELSE CheckTag(td, no, b, mode, form, f[no - 1]))
      BY <3>1
    <3> QED
      BY <3>2
  <2> HIDE DEF f
  <2>2. QED BY <2>1
<1> HIDE DEF Checked, n, first
<1>4. Checked[n] = CheckTag(td, n, b, mode, form, start)
  <2>1. n - 1 \in (first - 1)..n /\ n \in (first - 1)..n /\ n - 1 < first /\ ~(n < first)
    BY <1>1
  <2>2. Checked[n - 1] = start BY <2>1, <1>3
  <2>3. Checked[n] = CheckTag(td, n, b, mode, form, Checked[n - 1]) BY <2>1, <1>3
  <2>4. QED BY <2>2, <2>3
<1>5. CheckTag(td, n, b, mode, form, start) = Turn(td, b, mode, form)
  <2>1. /\ start.code = RC_OK /\ start.used = 0 /\ start.step = 0 /\ start.left = -1
    BY DEF start, TagCheck
  <2>2. From(b, 0) = b BY FromNone
  <2>3. n = Len(td.tags) BY DEF n
  <2>4. mode = 0 => n = 1 BY <1>1
  <2>5. QED BY <2>1, <2>2, <2>3, <2>4 DEF CheckTag, Turn
<1>6. QED BY <1>2, <1>4, <1>5

(* The header of a value, its tag and the length of its contents, is read back as it
   was written, whatever follows it, and nothing is concluded before its last octet
   is there (der_write_tags, ber_check_tags). *)
THEOREM HeaderReadBack ==
    ASSUME NEW td, td.tags \in Seq(Tag), NEW mode, OneTag(td, mode), NEW tag \in Tag,
           NEW size \in Size, NEW form \in {0, 1}, NEW asked \in {-1, form},
           NEW rest \in Seq(Octet)
    PROVE  LET h == der_write_tags(td, size, mode, form, tag)
           IN  /\ h \in Seq(Octet) /\ Len(h) > 0
               /\ ber_check_tags(td, 0, h \o rest, mode, asked) =
                     TagCheck(RC_OK, Len(h), 1, size, form)
               /\ \A k \in 0 .. Len(h) - 1 :
                     ber_check_tags(td, 0, Upto(h, k), mode, asked) =
                       TagCheck(RC_WMORE, 0, 0, -1, -1)
<1> DEFINE h == der_write_tags(td, size, mode, form, tag)
           out == Outer(td, mode, tag)
           x == FirstOctet(out, form)
           s == der_tlv_length_serialize(size)
           b == h \o rest
<1>1. out \in Tag
  <2>1. mode = 0 => td.tags[1] \in Tag
    <3>1. mode = 0 => Len(td.tags) = 1 BY DEF OneTag
    <3>2. Len(td.tags) = 1 => td.tags[1] \in Tag BY ElementOfSeq
    <3>3. QED BY <3>1, <3>2
  <2>2. QED BY <2>1 DEF Outer
<1>2. /\ s \in Seq(Octet) /\ s # <<>>
      /\ ber_fetch_length(form, s \o rest) = [len |-> Len(s), val |-> size]
      /\ \A k \in 0 .. Len(s) - 1 : ber_fetch_length(form, Upto(s, k)) = WantMore
  BY LengthReadBack
<1>3. h = <<x>> \o s
  <2>1. size \in Nat BY DEF Size
  <2>2. h = der_write_TL(out, size, form) \o <<>> BY <2>1, WriteOne
  <2>3. der_write_TL(out, size, form) = <<x>> \o s
    BY DEF der_write_TL, ber_tlv_tag_serialize, FirstOctet
  <2>4. <<x>> \o s \in Seq(Octet) BY <1>1, <1>2, FirstOctetIs
  <2> HIDE DEF h, s, x
  <2>5. QED BY <2>2, <2>3, <2>4, ConcatEmptySeq
<1> HIDE DEF h, s, b
<1>4. /\ x \in Octet /\ x % 32 < 31 /\ 4 * (x % 32) + x \div 64 = out
      /\ (x \div 32) % 2 = form
  BY <1>1, FirstOctetIs
<1> HIDE DEF x
<1>5. h \in Seq(Octet) /\ Len(h) = 1 + Len(s) /\ h[1] = x /\ From(h, 1) = s
  <2>1. <<x>> \in Seq(Octet) /\ Len(<<x>>) = 1 /\ <<x>>[1] = x BY <1>4
  <2>2. /\ <<x>> \o s \in Seq(Octet) /\ Len(<<x>> \o s) = Len(<<x>>) + Len(s)
        /\ \A i \in 1 .. Len(<<x>>) : (<<x>> \o s)[i] = <<x>>[i]
    BY <1>2, <2>1, ConcatIs
  <2>3. From(<<x>> \o s, Len(<<x>>)) = s BY <1>2, <2>1, FromConcat
  <2>4. QED BY <1>3, <2>1, <2>2, <2>3
<1>6. b \in Seq(Octet) /\ b # <<>> /\ b[1] = x /\ From(b, 1) = s \o rest
  <2>1. <<x>> \in Seq(Octet) /\ Len(<<x>>) = 1 /\ <<x>>[1] = x BY <1>4
  <2>2. b = <<x>> \o (s \o rest) BY <1>2, <1>3, <2>1, ConcatAssociative DEF b
  <2> DEFINE sr == s \o rest
  <2>3. sr \in Seq(Octet) BY <1>2, ConcatIs
  <2> HIDE DEF sr
  <2>4. /\ <<x>> \o sr \in Seq(Octet) /\ Len(<<x>> \o sr) = Len(<<x>>) + Len(sr)
        /\ \A i \in 1 .. Len(<<x>>) : (<<x>> \o sr)[i] = <<x>>[i]
    BY <2>1, <2>3, ConcatIs
  <2>5. From(<<x>> \o sr, Len(<<x>>)) = sr BY <2>1, <2>3, FromConcat
  <2>6. b = <<x>> \o sr BY <2>2 DEF sr
  <2>7. b \in Seq(Octet) /\ Len(b) = 1 + Len(sr) /\ b[1] = x BY <2>1, <2>4, <2>6
  <2>8. b # <<>> BY <2>3, <2>7, OctetsAre
  <2>9. From(b, 1) = sr BY <2>1, <2>5, <2>6
  <2>10. QED BY <2>7, <2>8, <2>9 DEF sr
<1>7. mode = 0 => td.tags[1] = out BY DEF Outer
<1> HIDE DEF out
(* What one turn finds on octets that begin with x. *)
<1>8. ASSUME NEW u \in Seq(Octet), u # <<>>, u[1] = x
      PROVE  /\ ber_fetch_tag(u) = [len |-> 1, val |-> out]
             /\ Constructed(u) = form
  <2>1. ber_fetch_tag(u) = [len |-> 1, val |-> 4 * (u[1] % 32) + u[1] \div 64]
    BY <1>4, <1>8, FetchTag
  <2>2. Constructed(u) = (u[1] \div 32) % 2 BY DEF Constructed
  <2>3. QED BY <1>4, <1>8, <2>1, <2>2
<1>9. ber_check_tags(td, 0, b, mode, asked) = TagCheck(RC_OK, Len(h), 1, size, form)
  <2>1. ber_fetch_tag(b) = [len |-> 1, val |-> out] /\ Constructed(b) = form BY <1>6, <1>8
  <2>2. ber_fetch_length(form, From(b, 1)) = [len |-> Len(s), val |-> size] BY <1>2, <1>6
  <2>3. Len(s) \in Nat /\ Len(s) # 0 /\ Len(s) # -1 /\ 0 + (1 + Len(s)) = Len(h)
    BY <1>2, <1>5, OctetsAre
  <2>4. Turn(td, b, mode, asked) = TagCheck(RC_OK, Len(h), 1, size, form)
    BY <2>1, <2>2, <2>3, <1>7 DEF Turn
  <2>5. QED BY <1>6, <2>4, CheckOne
<1>10. ASSUME NEW k \in 0 .. Len(h) - 1
       PROVE  ber_check_tags(td, 0, Upto(h, k), mode, asked) =
                TagCheck(RC_WMORE, 0, 0, -1, -1)
  <2> DEFINE u == Upto(h, k)
  <2>0. k \in 0 .. Len(h) /\ Len(h) \in Nat BY <1>5
  <2>1. u \in Seq(Octet) /\ Len(u) = k /\ \A i \in 1 .. k : u[i] = h[i]
    <3>1. h \in Seq(Octet) BY <1>5
    <3>2. QED BY <2>0, <3>1, UptoIs
  <2>2. k > 0 => From(u, 1) = Upto(s, k - 1)
    <3>1. ASSUME k > 0
          PROVE  From(Upto(h, k), 1) = Upto(From(h, 1), k - 1)
      <4>1. h \in Seq(Octet) /\ 1 \in 0 .. Len(h) /\ k \in 1 .. Len(h) BY <3>1, <2>0, <1>5
      <4>2. QED BY <4>1, Rejoined
    <3>2. QED BY <3>1, <1>5
  <2> HIDE DEF u
  <2>3. CASE k = 0
    <3>1. u = <<>> BY <2>1, <2>3, OctetsAre
    <3>2. ber_fetch_tag(u) = WantMore BY <3>1, <2>1, FetchTag
    <3>3. Turn(td, u, mode, asked) = TagCheck(RC_WMORE, 0, 0, -1, -1)
      BY <3>2 DEF Turn, WantMore
    <3>4. QED BY <2>1, <3>3, CheckOne DEF u
  <2>4. CASE k > 0
    <3>1. u # <<>> /\ u[1] = x BY <2>0, <2>1, <2>4, <1>5, OctetsAre
    <3>2. ber_fetch_tag(u) = [len |-> 1, val |-> out] /\ Constructed(u) = form
      BY <2>1, <3>1, <1>8
    <3>3. ber_fetch_length(form, From(u, 1)) = WantMore
      <4>1. k - 1 \in 0 .. Len(s) - 1 BY <2>0, <2>4, <1>5
      <4>2. QED BY <4>1, <2>2, <2>4, <1>2
    <3>4. Turn(td, u, mode, asked) = TagCheck(RC_WMORE, 0, 0, -1, -1)
      BY <3>2, <3>3, <1>7 DEF Turn, WantMore
    <3>5. QED BY <2>1, <3>4, CheckOne DEF u
  <2>5. QED BY <2>3, <2>4, <2>0
<1>11. Len(h) > 0 BY <1>2, <1>5, OctetsAre
<1>12. QED BY <1>5, <1>9, <1>10, <1>11 DEF h, b

-----------------------------------------------------------------------------
(* Numbers. *)

(* A long: eight octets. *)
LongValue == {o \in Seq(Octet) : Len(o) = 8}

(* INTEGER_encode_der drops the superfluous octets and keeps one at least. *)
LEMMA Dropped ==
    ASSUME NEW o \in LongValue
    PROVE  \E i \in 0 .. 7 : /\ INTEGER_encode_der(o) = From(o, i)
                            /\ Superfluous(o, i)
<1> DEFINE Kept(i) == Superfluous(o, i) /\ ~Superfluous(o, i + 1)
           Bad == {i \in 1 .. 8 : ~Superfluous(o, i)}
<1>1. Len(o) = 8 BY DEF LongValue
<1>2. Superfluous(o, 0) BY DEF Superfluous
<1>3. ~Superfluous(o, 8) BY <1>1 DEF Superfluous
<1>4. PICK m \in Bad : \A c \in Bad : m <= c
  <2>1. Bad \in SUBSET Nat /\ Bad # {} BY <1>3
  <2> HIDE DEF Bad
  <2>2. QED BY <2>1, LeastExists
<1>5. \E i \in 0 .. 7 : Kept(i)
  <2>1. m \in 1 .. 8 /\ ~Superfluous(o, m) /\ m - 1 \in 0 .. 7 /\ (m - 1) + 1 = m OBVIOUS
  <2>2. Superfluous(o, m - 1)
    <3>1. CASE m = 1 BY <3>1, <1>2
    <3>2. CASE m # 1
      <4>1. m - 1 \in 1 .. 8 /\ ~(m <= m - 1) BY <2>1, <3>2
      <4>2. QED BY <4>1, <1>4
    <3>3. QED BY <3>1, <3>2
  <2>3. Kept(m - 1) BY <2>1, <2>2
  <2>4. QED BY <2>1, <2>3
<1> DEFINE i == CHOOSE j \in 0 .. 7 : Kept(j)
<1>6. i \in 0 .. 7 /\ Kept(i)
  <2> HIDE DEF Kept
  <2>1. QED BY <1>5
<1>7. INTEGER_encode_der(o) = From(o, i)
  <2>1. Len(o) - 1 = 7 BY <1>1
  <2>2. QED BY <2>1 DEF INTEGER_encode_der
<1> HIDE DEF i
<1>8. QED BY <1>6, <1>7

(* Every octet that is dropped is the sign of what is left. *)
LEMMA DroppedAreSign ==
    ASSUME NEW o \in LongValue, NEW i \in 0 .. 7, Superfluous(o, i)
    PROVE  \A j \in 1 .. i : o[j] = IF o[i + 1] >= 128 THEN 255 ELSE 0
<1> DEFINE sign == IF o[i + 1] >= 128 THEN 255 ELSE 0
           Bad == {k \in 1 .. i : o[(i + 1) - k] # sign}
<1>1. \A j \in 1 .. 8 : o[j] \in Nat /\ o[j] < 256
  <2>1. o \in Seq(Octet) /\ Len(o) = 8 BY DEF LongValue
  <2>2. QED BY <2>1, OctetsAre
<1>2. \A j \in 1 .. i : \/ o[j] = 0 /\ o[j + 1] < 128
                        \/ o[j] = 255 /\ o[j + 1] >= 128
  BY DEF Superfluous
<1>3. ASSUME Bad # {}
      PROVE  FALSE
  <2>1. PICK k \in Bad : \A c \in Bad : k <= c
    <3>1. Bad \in SUBSET Nat OBVIOUS
    <3> HIDE DEF Bad
    <3>2. QED BY <1>3, <3>1, LeastExists
  <2> DEFINE j == (i + 1) - k
  <2>2. k \in 1 .. i /\ j \in 1 .. i /\ o[j] # sign /\ j + 1 = (i + 1) - (k - 1) OBVIOUS
  <2> HIDE DEF j
  <2>3. \/ o[j] = 0 /\ o[j + 1] < 128
        \/ o[j] = 255 /\ o[j + 1] >= 128
    BY <2>2, <1>2
  <2>4. CASE k = 1
    <3>1. j + 1 = i + 1 BY <2>2, <2>4
    <3>2. o[j + 1] \in Nat BY <3>1, <1>1
    <3>3. QED BY <2>2, <2>3, <3>1, <3>2
  <2>5. CASE k # 1
    <3>1. k - 1 \in 1 .. i /\ ~(k <= k - 1) BY <2>2, <2>5
    <3>2. o[(i + 1) - (k - 1)] = sign BY <3>1, <2>1
    <3>3. o[j + 1] = sign BY <3>2, <2>2
    <3>4. QED BY <2>2, <2>3, <3>3
  <2>6. QED BY <2>4, <2>5
<1>4. ASSUME NEW j \in 1 .. i
      PROVE  o[j] = sign
  <2>1. (i + 1) - j \in 1 .. i /\ (i + 1) - ((i + 1) - j) = j OBVIOUS
  <2>2. (i + 1) - j \notin Bad BY <1>3
  <2>3. QED BY <2>1, <2>2
<1>5. QED BY <1>4

(* Sign octets before what was kept give the number back. *)
LEMMA SignExtended ==
    ASSUME NEW o \in LongValue, NEW i \in 0 .. 7, NEW x \in Octet,
           \A j \in 1 .. i : o[j] = x
    PROVE  [j \in 1 .. i |-> x] \o From(o, i) = o
<1> DEFINE p == [j \in 1 .. i |-> x]
           f == From(o, i)
           c == p \o f
<1>1. o \in Seq(Octet) /\ Len(o) = 8 /\ i \in 0 .. Len(o)
  <2> HIDE DEF p, f, c
  <2>1. o \in Seq(Octet) /\ Len(o) = 8 BY DEF LongValue
  <2>2. QED BY <2>1
<1>2. p \in Seq(Octet) /\ Len(p) = i /\ \A j \in 1 .. i : p[j] = x OBVIOUS
<1>3. f \in Seq(Octet) /\ Len(f) = 8 - i /\ \A j \in 1 .. 8 - i : f[j] = o[i + j]
  BY <1>1, FromIs, ZenonT(60)
<1> HIDE DEF p, f
<1>4. /\ c \in Seq(Octet) /\ Len(c) = Len(p) + Len(f)
      /\ \A j \in 1 .. Len(p) : c[j] = p[j]
      /\ \A j \in 1 .. Len(f) : c[Len(p) + j] = f[j]
  <2>1. p \in Seq(Octet) /\ f \in Seq(Octet) BY <1>2, <1>3
  <2>2. QED BY <2>1, ConcatIs
<1> HIDE DEF c
<1>5. \A j \in 1 .. 8 : c[j] = o[j]
  <2> TAKE j \in 1 .. 8
  <2>1. CASE j <= i BY <2>1, <1>2, <1>4
  <2>2. CASE ~(j <= i)
    <3>1. j - i \in 1 .. 8 - i /\ i + (j - i) = j BY <2>2
    <3>2. c[i + (j - i)] = f[j - i] BY <3>1, <1>2, <1>3, <1>4
    <3>3. f[j - i] = o[i + (j - i)] BY <3>1, <1>3
    <3>4. QED BY <3>1, <3>2, <3>3
  <2>3. QED BY <2>1, <2>2
<1>6. Len(c) = 8 BY <1>2, <1>3, <1>4
<1>7. c = o BY <1>1, <1>4, <1>5, <1>6, SameSeq
<1>8. QED BY <1>7 DEF c, p, f

(* A long is read back as it was written, whatever its sign and however many of its
   octets are superfluous; an unsigned one if it is less than 2^63, and those of the
   program are of 32 bits (INTEGER_encode_der, asn_INTEGER2long, asn_INTEGER2ulong). *)
THEOREM LongReadBack ==
    ASSUME NEW o \in LongValue
    PROVE  LET e == INTEGER_encode_der(o)
           IN  /\ e \in Seq(Octet) /\ Len(e) \in 1 .. 8
               /\ asn_INTEGER2long(e) = o
               /\ o[1] < 128 => asn_INTEGER2ulong(e) = o
<1> DEFINE e == INTEGER_encode_der(o)
           sign == IF o[1] >= 128 THEN 255 ELSE 0
<1>1. PICK i \in 0 .. 7 : e = From(o, i) /\ Superfluous(o, i) BY Dropped
<1>2. o \in Seq(Octet) /\ Len(o) = 8 BY DEF LongValue
<1>3. e \in Seq(Octet) /\ Len(e) = 8 - i /\ e[1] = o[i + 1]
  <2>1. i \in 0 .. Len(o) BY <1>2
  <2>2. /\ From(o, i) \in Seq(Octet) /\ Len(From(o, i)) = 8 - i
        /\ \A j \in 1 .. 8 - i : From(o, i)[j] = o[i + j]
    <3>1. /\ From(o, i) \in Seq(Octet) /\ Len(From(o, i)) = Len(o) - i
          /\ \A j \in 1 .. Len(o) - i : From(o, i)[j] = o[i + j]
      BY <2>1, <1>2, FromIs
    <3>2. QED BY <3>1, <1>2
  <2>3. QED BY <2>2, <1>1
<1> HIDE DEF e
<1> DEFINE x == IF o[i + 1] >= 128 THEN 255 ELSE 0
<1>4. \A j \in 1 .. i : o[j] = x BY <1>1, DroppedAreSign
<1>5. x \in Octet BY DEF Octet
<1> HIDE DEF x
<1>6. [j \in 1 .. i |-> x] \o e = o BY <1>1, <1>4, <1>5, SignExtended
<1>7. e # <<>> /\ Len(e) \in 1 .. 8 /\ ~(Len(e) > 8) /\ 8 - Len(e) = i /\ Len(e) =< 8
  BY <1>3, OctetsAre
<1>8. asn_INTEGER2long(e) = [j \in 1 .. i |-> x] \o e
  BY <1>3, <1>7 DEF asn_INTEGER2long, x
<1>9. ASSUME o[1] < 128
      PROVE  asn_INTEGER2ulong(e) = o
  <2>1. [j \in 1 .. i |-> 0] = [j \in 1 .. i |-> x]
    <3>1. CASE i = 0 BY <3>1
    <3>2. CASE i # 0
      <4>1. o[1] = x BY <3>2, <1>4
      <4>2. x = 0 BY <4>1, <1>9 DEF x
      <4>3. QED BY <4>2
    <3>3. QED BY <3>1, <3>2
  <2>2. asn_INTEGER2ulong(e) = [j \in 1 .. i |-> 0] \o e BY <1>7 DEF asn_INTEGER2ulong
  <2>3. QED BY <2>1, <2>2, <1>6
<1>10. QED BY <1>3, <1>6, <1>7, <1>8, <1>9 DEF e

-----------------------------------------------------------------------------
(* A value with its header: h the header, c the contents. *)

LEMMA Enclosure ==
    ASSUME NEW td, td.tags \in Seq(Tag), NEW mode, OneTag(td, mode), NEW tag \in Tag,
           NEW c \in Seq(Octet), Len(c) \in Size, NEW form \in {0, 1},
           NEW asked \in {-1, form}, NEW rest \in Seq(Octet)
    PROVE  LET h == der_write_tags(td, Len(c), mode, form, tag)
               v == h \o c
               ok == TagCheck(RC_OK, Len(h), 1, Len(c), form)
               Check(b) == ber_check_tags(td, 0, b, mode, asked)
           IN  /\ h \in Seq(Octet) /\ Len(h) > 0
               /\ v \in Seq(Octet) /\ Len(v) = Len(h) + Len(c)
               /\ Check(v \o rest) = ok
               /\ v \o rest \in Seq(Octet) /\ Len(v \o rest) = Len(v) + Len(rest)
               /\ From(v \o rest, Len(h)) = c \o rest
               /\ \A k \in 0 .. Len(h) - 1 :
                     Check(Upto(v, k)) = TagCheck(RC_WMORE, 0, 0, -1, -1)
               /\ \A k \in Len(h) .. Len(v) :
                     /\ Check(Upto(v, k)) = ok
                     /\ From(Upto(v, k), Len(h)) = Upto(c, k - Len(h))
<1> DEFINE h == der_write_tags(td, Len(c), mode, form, tag)
           v == h \o c
           ok == TagCheck(RC_OK, Len(h), 1, Len(c), form)
           Check(b) == ber_check_tags(td, 0, b, mode, asked)
           cr == c \o rest
<1>1. /\ h \in Seq(Octet) /\ Len(h) > 0
      /\ \A r \in Seq(Octet) : Check(h \o r) = ok
      /\ \A k \in 0 .. Len(h) - 1 : Check(Upto(h, k)) = TagCheck(RC_WMORE, 0, 0, -1, -1)
  BY HeaderReadBack
<1> HIDE DEF h, Check, ok, cr
<1>2. v \in Seq(Octet) /\ Len(v) = Len(h) + Len(c) /\ cr \in Seq(Octet)
  <2>1. h \in Seq(Octet) BY <1>1
  <2>2. QED BY <2>1, ConcatIs DEF cr
<1>3. v \o rest = h \o cr
  <2>1. h \in Seq(Octet) BY <1>1
  <2>2. QED BY <2>1, ConcatAssociative DEF cr
<1>4. Check(v \o rest) = ok BY <1>1, <1>2, <1>3
<1>5. From(v \o rest, Len(h)) = cr
  <2>1. h \in Seq(Octet) /\ cr \in Seq(Octet) BY <1>1, <1>2
  <2>2. From(h \o cr, Len(h)) = cr BY <2>1, FromConcat
  <2>3. QED BY <2>2, <1>3
<1>6. v \o rest \in Seq(Octet) /\ Len(v \o rest) = Len(v) + Len(rest)
  <2>1. v \in Seq(Octet) BY <1>2
  <2> HIDE DEF v
  <2>2. QED BY <2>1, ConcatIs
<1>7. ASSUME NEW k \in 0 .. Len(h) - 1
      PROVE  Check(Upto(v, k)) = TagCheck(RC_WMORE, 0, 0, -1, -1)
  <2>1. h \in Seq(Octet) /\ k \in 0 .. Len(h) BY <1>1
  <2>2. Upto(v, k) = Upto(h, k) BY <2>1, UptoConcat
  <2>3. QED BY <2>2, <1>1
<1>8. ASSUME NEW k \in Len(h) .. Len(v)
      PROVE  /\ Check(Upto(v, k)) = ok
             /\ From(Upto(v, k), Len(h)) = Upto(c, k - Len(h))
  <2> DEFINE n == Len(h)
             r == Upto(c, k - n)
  <2>1. /\ n \in Nat /\ n \in 0 .. Len(v) /\ k \in n .. Len(v)
        /\ k - n \in 0 .. Len(c) /\ n \in 0 .. n
    BY <1>1, <1>2
  <2>2. Upto(v, n) = h
    <3>1. h \in Seq(Octet) /\ n \in 0 .. Len(h) BY <1>1, <2>1
    <3>2. Upto(v, n) = Upto(h, n) BY <3>1, UptoConcat
    <3>3. Upto(h, Len(h)) = h BY <3>1, UptoAll
    <3>4. QED BY <3>2, <3>3
  <2>3. From(v, n) = c
    <3>1. h \in Seq(Octet) BY <1>1
    <3>2. QED BY <3>1, FromConcat
  <2>4. r \in Seq(Octet) BY <2>1, UptoIs
  <2>5. /\ Upto(v, n) \o Upto(From(v, n), k - n) = Upto(v, k)
        /\ From(Upto(v, k), n) = Upto(From(v, n), k - n)
    <3>1. v \in Seq(Octet) BY <1>2
    <3> HIDE DEF v, n
    <3>2. QED BY <3>1, <2>1, Rejoined
  <2>6. Upto(v, k) = h \o r BY <2>2, <2>3, <2>5
  <2>7. QED BY <2>3, <2>4, <2>5, <2>6, <1>1
<1>9. QED BY <1>1, <1>2, <1>4, <1>5, <1>6, <1>7, <1>8 DEF h, ok, Check, cr

LEMMA SmallSize == 1 .. 8 \in SUBSET Size
BY DEF Size

(* A number is decoded from its last octet on, as it was encoded and whatever follows;
   until then nothing is used and the member keeps the value it had, so that the
   decoder is called again with the same octets and more (NativeInteger_encode_der,
   NativeInteger_decode_ber). *)
THEOREM NumberReadBack ==
    ASSUME NEW td, td.tags \in Seq(Tag), NEW mode, OneTag(td, mode), NEW tag \in Tag,
           NEW o \in LongValue, td.unsigned => o[1] < 128,
           NEW st, NEW rest \in Seq(Octet)
    PROVE  \E v \in Seq(Octet) :
              /\ Contents(td, INTEGER_encode_der(o), mode, tag) = <<v>>
              /\ NativeInteger_decode_ber(td, st, v \o rest, mode) =
                    Answer(RC_OK, Len(v), o)
              /\ \A k \in 0 .. Len(v) - 1 :
                    NativeInteger_decode_ber(td, st, Upto(v, k), mode) =
                      Answer(RC_WMORE, 0, st)
<1> DEFINE c == INTEGER_encode_der(o)
           h == der_write_tags(td, Len(c), mode, 0, tag)
           v == h \o c
           ok == TagCheck(RC_OK, Len(h), 1, Len(c), 0)
           Check(b) == ber_check_tags(td, 0, b, mode, 0)
           Value(e) == IF td.unsigned THEN asn_INTEGER2ulong(e) ELSE asn_INTEGER2long(e)
           Octets(b, t) == Upto(From(b, t.used), t.left)
           Read(b, t, val) ==
             IF t.code # RC_OK THEN Answer(t.code, 0, st)
             ELSE IF t.left > Len(b) - t.used THEN Answer(RC_WMORE, 0, st)
             ELSE IF val = <<>> THEN Answer(RC_FAIL, 0, st)
             ELSE Answer(RC_OK, t.used + t.left, val)
           b0 == v \o rest
<1>1. c \in Seq(Octet) /\ Len(c) \in 1 .. 8 /\ Value(c) = o BY LongReadBack
<1>2. Len(c) \in Size /\ 0 \in {0, 1} /\ 0 \in {-1, 0} BY <1>1, SmallSize
<1>3. Contents(td, c, mode, tag) = <<v>> BY DEF Contents, Enclosed
<1>4. \A b : NativeInteger_decode_ber(td, st, b, mode) =
               Read(b, Check(b), Value(Octets(b, Check(b))))
  BY DEF NativeInteger_decode_ber, DecodeWhole
<1> HIDE DEF c, Value
<1>5. /\ h \in Seq(Octet) /\ v \in Seq(Octet) /\ Len(v) = Len(h) + Len(c)
      /\ Check(b0) = ok
      /\ b0 \in Seq(Octet) /\ Len(b0) = Len(v) + Len(rest)
      /\ From(b0, Len(h)) = c \o rest
      /\ \A k \in 0 .. Len(h) - 1 : Check(Upto(v, k)) = TagCheck(RC_WMORE, 0, 0, -1, -1)
      /\ \A k \in Len(h) .. Len(v) : Check(Upto(v, k)) = ok
  BY <1>1, <1>2, Enclosure
<1>6. /\ ok.code = RC_OK /\ ok.used = Len(h) /\ ok.left = Len(c)
  BY DEF ok, TagCheck
<1> HIDE DEF h, v, ok, Check, b0
<1>7. NativeInteger_decode_ber(td, st, b0, mode) = Answer(RC_OK, Len(v), o)
  <2>1. Octets(b0, ok) = c
    <3>1. Upto(c \o rest, Len(c)) = Upto(c, Len(c)) BY <1>1, UptoConcat
    <3>2. Upto(c, Len(c)) = c BY <1>1, UptoAll
    <3>3. QED BY <1>5, <1>6, <3>1, <3>2
  <2>2. ~(Len(c) > Len(b0) - Len(h)) /\ Len(h) + Len(c) = Len(v) BY <1>1, <1>5
  <2>3. o # <<>> BY DEF LongValue
  <2>4. Read(b0, ok, o) = Answer(RC_OK, Len(v), o) BY <1>6, <2>2, <2>3
  <2> HIDE DEF Octets, Read
  <2>5. QED BY <1>1, <1>4, <1>5, <2>1, <2>4
<1>8. ASSUME NEW k \in 0 .. Len(v) - 1
      PROVE  NativeInteger_decode_ber(td, st, Upto(v, k), mode) = Answer(RC_WMORE, 0, st)
  <2> DEFINE u == Upto(v, k)
  <2>1. k \in Nat /\ Len(h) \in Nat /\ Len(v) \in Nat /\ Len(c) \in Nat BY <1>1, <1>5
  <2>2. Len(u) = k
    <3>1. v \in Seq(Octet) /\ k \in 0 .. Len(v) BY <1>5, <2>1
    <3>2. QED BY <3>1, UptoIs
  <2>3. Check(u) = TagCheck(RC_WMORE, 0, 0, -1, -1) \/ (k >= Len(h) /\ Check(u) = ok)
    <3>1. k \in 0 .. Len(h) - 1 \/ k \in Len(h) .. Len(v) BY <2>1
    <3>2. QED BY <3>1, <1>5
  <2> HIDE DEF u
  <2>4. CASE Check(u) = TagCheck(RC_WMORE, 0, 0, -1, -1)
    <3>1. \A val : Read(u, TagCheck(RC_WMORE, 0, 0, -1, -1), val) = Answer(RC_WMORE, 0, st)
      BY DEF TagCheck, RC_OK, RC_WMORE
    <3> HIDE DEF Read, Octets
    <3>2. QED BY <1>4, <2>4, <3>1 DEF u
  <2>5. CASE k >= Len(h) /\ Check(u) = ok
    <3>1. Len(c) > Len(u) - Len(h) BY <2>1, <2>2, <1>5
    <3>2. \A val : Read(u, ok, val) = Answer(RC_WMORE, 0, st) BY <3>1, <1>6
    <3> HIDE DEF Read, Octets
    <3>3. QED BY <1>4, <2>5, <3>2 DEF u
  <2>6. QED BY <2>3, <2>4, <2>5
<1>9. QED
  <2>1. v \in Seq(Octet) BY <1>5
  <2> USE <2>1
  <2> WITNESS v \in Seq(Octet)
  <2>2. QED BY <1>3, <1>7, <1>8 DEF c, b0

-----------------------------------------------------------------------------
(* Strings. *)

(* An OCTET STRING of contents c that has been decoded as far as its j-th octet. *)
Begun(phase, left, buf) ==
  [phase |-> phase, step |-> 0, left |-> left, buf |-> buf, unused |-> 0]
Held(c, j) == Begun(3, Len(c) - j, IF j = 0 THEN <<>> ELSE <<Upto(c, j)>>)
Complete(c)    == Begun(4, 0, <<c>>)

Decoder(st, b, used) == [st |-> st, b |-> b, used |-> used]
Joined(buf, chunk)   == IF buf = <<>> THEN chunk ELSE buf[1] \o chunk

LEMMA SetPhase ==
    ASSUME NEW phase, NEW left, NEW buf, NEW x
    PROVE  [Begun(phase, left, buf) EXCEPT !.phase = x] = Begun(x, left, buf)
BY DEF Begun

LEMMA SetStep ==
    ASSUME NEW phase, NEW left, NEW buf
    PROVE  [Begun(phase, left, buf) EXCEPT !.step = 0] = Begun(phase, left, buf)
BY DEF Begun

LEMMA BegunFields ==
    ASSUME NEW phase, NEW left, NEW buf
    PROVE  LET s == Begun(phase, left, buf)
           IN  /\ s.phase = phase /\ s.left = left /\ s.buf = buf
               /\ s.step = 0 /\ s.unused = 0
BY DEF Begun

LEMMA DecoderFields ==
    ASSUME NEW st, NEW b, NEW used
    PROVE  LET d == Decoder(st, b, used) IN d.st = st /\ d.b = b /\ d.used = used
BY DEF Decoder

(* What the decoder does with the next octets b of the contents. *)
NextOctets(left, used, buf, b) ==
  IF Len(b) >= left
  THEN Answer(RC_OK, used + left, Begun(4, 0, <<Joined(buf, Upto(b, left))>>))
  ELSE IF b # <<>>
  THEN Answer(RC_WMORE, used + Len(b), Begun(3, left - Len(b), <<Joined(buf, b)>>))
  ELSE Answer(RC_WMORE, used, Begun(3, left, buf))

LEMMA ChunkIs ==
    ASSUME NEW td, td.kind = "OCTET_STRING", NEW phase, NEW left \in Nat,
           NEW used \in Nat, NEW buf, NEW b \in Seq(Octet)
    PROVE  StringChunk(td, Decoder(Begun(phase, left, buf), b, used))
             = NextOctets(left, used, buf, b)
<1> PICK s : s = Begun(phase, left, buf)
  OBVIOUS
<1> PICK d : d = Decoder(s, b, used)
  OBVIOUS
<1>1. d.st = s /\ d.b = b /\ d.used = used BY DecoderFields
<1>2. s.left = left /\ s.buf = buf /\ s.step = 0 /\ s.unused = 0 BY BegunFields
<1>3. From(b, 0) = b BY FromNone
<1>4. [s EXCEPT !.phase = 3] = Begun(3, left, buf) BY SetPhase
<1>5. APPEND(s, b) = Joined(buf, b) /\ APPEND(s, Upto(b, left)) = Joined(buf, Upto(b, left))
  BY <1>2 DEF APPEND, Joined
<1>6. Len(b) \in Nat OBVIOUS
<1>7. CASE Len(b) >= left
  <2>1. left \in 0 .. Len(b) /\ ~(Len(b) < left) BY <1>6, <1>7
  <2>2. Len(Upto(b, left)) = left BY <2>1, UptoIs
  <2>3. QED BY <1>1, <1>2, <1>3, <1>5, <2>1, <2>2 DEF NextOctets, StringChunk, Begun
<1>8. CASE Len(b) < left /\ b # <<>>
  BY <1>1, <1>2, <1>3, <1>5, <1>6, <1>8 DEF NextOctets, StringChunk, Begun
<1>9. CASE Len(b) < left /\ b = <<>>
  BY <1>1, <1>2, <1>3, <1>4, <1>6, <1>9 DEF NextOctets, StringChunk
<1>10. QED BY <1>6, <1>7, <1>8, <1>9

(* How much of the contents has been joined. *)
LEMMA JoinedIs ==
    ASSUME NEW c \in Seq(Octet), NEW j \in 0 .. Len(c), NEW n \in 0 .. Len(c) - j
    PROVE  Joined(IF j = 0 THEN <<>> ELSE <<Upto(c, j)>>, Upto(From(c, j), n))
             = Upto(c, j + n)
<1>1. CASE j = 0
  <2>1. From(c, 0) = c BY FromNone
  <2>2. j + n = n BY <1>1
  <2>3. QED BY <1>1, <2>1, <2>2 DEF Joined
<1>2. CASE j # 0
  <2>1. j + n \in j .. Len(c) /\ (j + n) - j = n OBVIOUS
  <2>2. Upto(c, j) \o Upto(From(c, j), (j + n) - j) = Upto(c, j + n) BY <2>1, Rejoined
  <2>3. QED BY <1>2, <2>1, <2>2 DEF Joined
<1>3. QED BY <1>1, <1>2

(* A string that is decoded from its j-th octet on. *)
Decodes(td, c, j, st, used) ==
  /\ \A n \in 0 .. (Len(c) - j) - 1 :
       StringChunk(td, Decoder(st, Upto(From(c, j), n), used))
         = Answer(RC_WMORE, used + n, Held(c, j + n))
  /\ \A rest \in Seq(Octet) :
       StringChunk(td, Decoder(st, From(c, j) \o rest, used))
         = Answer(RC_OK, used + (Len(c) - j), Complete(c))

LEMMA ChunkOf ==
    ASSUME NEW td, td.kind = "OCTET_STRING", NEW c \in Seq(Octet),
           NEW j \in 0 .. Len(c), NEW phase, NEW used \in Nat,
           NEW st, st = Begun(phase, Len(c) - j, IF j = 0 THEN <<>> ELSE <<Upto(c, j)>>)
    PROVE  Decodes(td, c, j, st, used)
<1> PICK buf : buf = IF j = 0 THEN <<>> ELSE <<Upto(c, j)>>
  OBVIOUS
<1> PICK left : left = Len(c) - j
  OBVIOUS
<1>0. left \in Nat /\ st = Begun(phase, left, buf) OBVIOUS
<1>1. Len(c) \in Nat /\ Len(c) - j \in Nat OBVIOUS
<1>2. From(c, j) \in Seq(Octet) /\ Len(From(c, j)) = Len(c) - j BY FromIs
<1>3. ASSUME NEW b \in Seq(Octet)
      PROVE  StringChunk(td, Decoder(st, b, used)) = NextOctets(left, used, buf, b)
  <2>1. StringChunk(td, Decoder(Begun(phase, left, buf), b, used))
          = NextOctets(left, used, buf, b)
    BY <1>0, ChunkIs
  <2>2. QED BY <1>0, <2>1
<1>4. ASSUME NEW n \in 0 .. (Len(c) - j) - 1
      PROVE  StringChunk(td, Decoder(st, Upto(From(c, j), n), used))
               = Answer(RC_WMORE, used + n, Held(c, j + n))
  <2> PICK b : b = Upto(From(c, j), n)
    OBVIOUS
  <2>1. n \in 0 .. Len(c) - j /\ n \in 0 .. Len(From(c, j)) BY <1>1, <1>2
  <2>2. b \in Seq(Octet) /\ Len(b) = n BY <1>2, <2>1, UptoIs
  <2>3. Joined(buf, b) = Upto(c, j + n) BY <2>1, JoinedIs
  <2>4. StringChunk(td, Decoder(st, b, used)) =
          IF b # <<>>
          THEN Answer(RC_WMORE, used + n,
                      Begun(3, (Len(c) - j) - n, <<Upto(c, j + n)>>))
          ELSE Answer(RC_WMORE, used, Begun(3, Len(c) - j, buf))
    <3>1. ~(Len(b) >= left) BY <1>1, <2>2
    <3>2. StringChunk(td, Decoder(st, b, used)) = NextOctets(left, used, buf, b)
      BY <2>2, <1>3
    <3>3. QED BY <2>2, <2>3, <3>1, <3>2 DEF NextOctets
  <2>5. CASE b # <<>>
    <3>1. n # 0 /\ j + n # 0 /\ Len(c) - (j + n) = (Len(c) - j) - n
      BY <1>1, <2>2, <2>5, OctetsAre
    <3>2. QED BY <2>4, <2>5, <3>1 DEF Held
  <2>6. CASE b = <<>>
    <3>1. n = 0 /\ j + n = j /\ used + n = used BY <2>2, <2>6
    <3>2. QED BY <2>4, <2>6, <3>1 DEF Held
  <2>7. QED BY <2>5, <2>6
<1>5. ASSUME NEW rest \in Seq(Octet)
      PROVE  StringChunk(td, Decoder(st, From(c, j) \o rest, used))
               = Answer(RC_OK, used + (Len(c) - j), Complete(c))
  <2> PICK f : f = From(c, j)
    OBVIOUS
  <2> PICK b : b = f \o rest
    OBVIOUS
  <2>1. f \in Seq(Octet) /\ Len(f) = Len(c) - j BY <1>2
  <2>2. b \in Seq(Octet) /\ Len(b) = (Len(c) - j) + Len(rest) /\ Len(rest) \in Nat
    <3>1. f \in Seq(Octet) /\ rest \in Seq(Octet) BY <2>1
    <3>2. f \o rest \in Seq(Octet) /\ Len(f \o rest) = Len(f) + Len(rest)
      BY <3>1, ConcatIs
    <3>3. QED BY <2>1, <3>2
  <2>3. Upto(b, Len(f)) = f
    <3>1. Len(f) \in 0 .. Len(f) BY <2>1
    <3>2. Upto(f \o rest, Len(f)) = Upto(f, Len(f)) BY <2>1, <3>1, UptoConcat
    <3>3. Upto(f, Len(f)) = f BY <2>1, UptoAll
    <3>4. QED BY <3>2, <3>3
  <2>4. Joined(buf, f) = c
    <3>1. Len(c) - j \in 0 .. Len(c) - j /\ j + (Len(c) - j) = Len(c) BY <1>1
    <3>2. Joined(buf, Upto(From(c, j), Len(c) - j)) = Upto(c, j + (Len(c) - j))
      BY <3>1, JoinedIs
    <3>3. Upto(From(c, j), Len(c) - j) = f BY <2>1, UptoAll
    <3>4. Upto(c, Len(c)) = c BY UptoAll
    <3>5. QED BY <3>1, <3>2, <3>3, <3>4
  <2>5. StringChunk(td, Decoder(st, b, used)) =
          Answer(RC_OK, used + (Len(c) - j), Begun(4, 0, <<Joined(buf, Upto(b, Len(c) - j))>>))
    <3>1. Len(b) >= left BY <1>1, <2>2
    <3>2. StringChunk(td, Decoder(st, b, used)) = NextOctets(left, used, buf, b)
      BY <2>2, <1>3
    <3>3. QED BY <3>1, <3>2 DEF NextOctets
  <2>6. QED BY <2>1, <2>3, <2>4, <2>5 DEF Complete
<1>6. QED BY <1>4, <1>5 DEF Decodes

LEMMA ChunkFirst ==
    ASSUME NEW td, td.kind = "OCTET_STRING", NEW c \in Seq(Octet), NEW used \in Nat
    PROVE  /\ \A n \in 0 .. Len(c) - 1 :
                StringChunk(td, Decoder(Begun(1, Len(c), <<>>), Upto(c, n), used))
                  = Answer(RC_WMORE, used + n, Held(c, n))
           /\ \A rest \in Seq(Octet) :
                StringChunk(td, Decoder(Begun(1, Len(c), <<>>), c \o rest, used))
                  = Answer(RC_OK, used + Len(c), Complete(c))
<1> PICK j : j = 0
  OBVIOUS
<1> PICK st : st = Begun(1, Len(c), <<>>)
  OBVIOUS
<1>1. From(c, j) = c BY FromNone
<1>2. j \in 0 .. Len(c) /\ Len(c) - j = Len(c) /\ \A n \in Nat : j + n = n OBVIOUS
<1>3. st = Begun(1, Len(c) - j, IF j = 0 THEN <<>> ELSE <<Upto(c, j)>>) BY <1>2
<1>4. Decodes(td, c, j, st, used) BY <1>2, <1>3, ChunkOf
<1>5. ASSUME NEW n \in 0 .. Len(c) - 1
      PROVE  StringChunk(td, Decoder(st, Upto(c, n), used))
               = Answer(RC_WMORE, used + n, Held(c, n))
  <2>1. n \in 0 .. (Len(c) - j) - 1 /\ j + n = n BY <1>2
  <2>2. QED BY <1>1, <1>4, <2>1 DEF Decodes
<1>6. QED BY <1>1, <1>2, <1>4, <1>5 DEF Decodes

LEMMA ChunkLater ==
    ASSUME NEW td, td.kind = "OCTET_STRING", NEW c \in Seq(Octet), NEW j \in 0 .. Len(c)
    PROVE  /\ \A n \in 0 .. (Len(c) - j) - 1 :
                StringChunk(td, Decoder(Held(c, j), Upto(From(c, j), n), 0))
                  = Answer(RC_WMORE, 0 + n, Held(c, j + n))
           /\ \A rest \in Seq(Octet) :
                StringChunk(td, Decoder(Held(c, j), From(c, j) \o rest, 0))
                  = Answer(RC_OK, 0 + (Len(c) - j), Complete(c))
<1> PICK st : st = Held(c, j)
  OBVIOUS
<1> PICK zero : zero = 0
  OBVIOUS
<1>1. st = Begun(3, Len(c) - j, IF j = 0 THEN <<>> ELSE <<Upto(c, j)>>) /\ zero \in Nat
  BY DEF Held
<1>2. Decodes(td, c, j, st, zero) BY <1>1, ChunkOf
<1>3. QED BY <1>2 DEF Decodes

LEMMA CallocIs ==
    ASSUME NEW td, td.kind = "OCTET_STRING"
    PROVE  calloc(td) = Begun(0, 0, <<>>)
BY DEF calloc, Begun

LEMMA SetAll ==
    ASSUME NEW left
    PROVE  [Begun(0, 0, <<>>) EXCEPT !.phase = 1, !.step = 0, !.left = left]
             = Begun(1, left, <<>>)
<1>1. [Begun(0, 0, <<>>) EXCEPT !.phase = 1] = Begun(1, 0, <<>>) BY DEF Begun
<1>2. [Begun(1, 0, <<>>) EXCEPT !.step = 0] = Begun(1, 0, <<>>) BY SetStep, Zenon
<1>3. [Begun(1, 0, <<>>) EXCEPT !.left = left] = Begun(1, left, <<>>) BY DEF Begun
<1>4. [Begun(0, 0, <<>>) EXCEPT !.phase = 1, !.step = 0, !.left = left]
        = [[[Begun(0, 0, <<>>) EXCEPT !.phase = 1] EXCEPT !.step = 0] EXCEPT !.left = left]
  BY Zenon
<1>5. QED BY <1>1, <1>2, <1>3, <1>4, Zenon

LEMMA DecodeBegins ==
    ASSUME NEW td, td.kind = "OCTET_STRING", NEW b, NEW mode,
           NEW c, c = ber_check_tags(td, 0, b, mode, -1)
    PROVE  /\ c.code # RC_OK /\ c.step = 0 =>
                OCTET_STRING_decode_ber(td, calloc(td), b, mode)
                  = Answer(c.code, c.used, calloc(td))
           /\ c.code = RC_OK /\ c.constr = 0 =>
                OCTET_STRING_decode_ber(td, calloc(td), b, mode)
                  = StringChunk(td, Decoder(Begun(1, c.left, <<>>), From(b, c.used), c.used))
<1> PICK st : st = Begun(0, 0, <<>>)
  OBVIOUS
<1>1. calloc(td) = st /\ st.phase = 0 /\ st.step = 0 BY CallocIs DEF Begun
<1>2. ber_check_tags(td, st.step, b, mode, -1) = c BY <1>1
<1>3. [st EXCEPT !.step = 0] = st BY SetStep
<1>4. [st EXCEPT !.phase = 1, !.step = 0, !.left = c.left] = Begun(1, c.left, <<>>)
  BY SetAll
<1>5. CASE c.code # RC_OK /\ c.step = 0
  <2>1. OCTET_STRING_decode_ber(td, st, b, mode)
          = Answer(c.code, c.used, [st EXCEPT !.step = c.step])
    BY <1>1, <1>2, <1>5 DEF OCTET_STRING_decode_ber, Tagged
  <2>2. QED BY <1>1, <1>3, <1>5, <2>1
<1>6. CASE c.code = RC_OK /\ c.constr = 0
  <2> DEFINE k == ber_check_tags(td, st.step, b, mode, -1)
  <2>1. OCTET_STRING_decode_ber(td, st, b, mode)
          = StringChunk(td, [st |-> [st EXCEPT !.phase = 1, !.step = 0, !.left = k.left],
                             b |-> From(b, k.used), used |-> k.used])
    BY <1>1, <1>2, <1>6 DEF OCTET_STRING_decode_ber, Tagged
  <2>2. k = c BY <1>2
  <2> HIDE DEF k
  <2>3. [st EXCEPT !.phase = 1, !.step = 0, !.left = k.left] = Begun(1, c.left, <<>>)
    BY <1>4, <2>2
  <2>4. QED BY <1>1, <1>6, <2>1, <2>2, <2>3 DEF Decoder
<1>7. QED BY <1>5, <1>6

LEMMA DecodeResumes ==
    ASSUME NEW td, td.kind = "OCTET_STRING", NEW b, NEW mode, NEW left, NEW buf
    PROVE  OCTET_STRING_decode_ber(td, Begun(3, left, buf), b, mode)
             = StringChunk(td, Decoder(Begun(3, left, buf), b, 0))
<1>1. Begun(3, left, buf).phase = 3 BY DEF Begun
<1>2. QED BY <1>1 DEF OCTET_STRING_decode_ber, At, Decoder

(* A string comes back as it was encoded, in however many pieces its octets come and
   wherever they are cut: a decoder that was given the first k octets and used some of
   them has the value Value(k), and on those it has not used and more it goes on to
   Value(m), or to the end and no octet further.  Nothing of the header is used before
   it is all there (OCTET_STRING_encode_der, OCTET_STRING_decode_ber). *)
THEOREM StringInPieces ==
    ASSUME NEW td, td.kind = "OCTET_STRING", td.tags \in Seq(Tag),
           NEW mode, OneTag(td, mode), NEW tag \in Tag,
           NEW c \in Seq(Octet), Len(c) \in Size, NEW rest \in Seq(Octet)
    PROVE  \E v \in Seq(Octet) : \E head \in 1 .. Len(v) :
             LET Value(k) == IF k < head THEN calloc(td) ELSE Held(c, k - head)
                 Used(k)  == IF k < head THEN 0 ELSE k
                 Decode(k, b) == OCTET_STRING_decode_ber(td, Value(k), b, mode)
             IN  /\ OCTET_STRING_encode_der(td, Complete(c), mode, tag) = <<v>>
                 /\ \A k \in 0 .. Len(v) - 1 :
                      /\ \A m \in k .. Len(v) - 1 :
                           Decode(k, From(Upto(v, m), Used(k)))
                             = Answer(RC_WMORE, Used(m) - Used(k), Value(m))
                      /\ Decode(k, From(v \o rest, Used(k)))
                           = Answer(RC_OK, Len(v) - Used(k), Complete(c))
<1> DEFINE h == der_write_tags(td, Len(c), mode, 0, tag)
           v == h \o c
           head == Len(h)
           ok == TagCheck(RC_OK, Len(h), 1, Len(c), 0)
           Check(b) == ber_check_tags(td, 0, b, mode, -1)
           Value(k) == IF k < head THEN calloc(td) ELSE Held(c, k - head)
           Used(k)  == IF k < head THEN 0 ELSE k
           Decode(k, b) == OCTET_STRING_decode_ber(td, Value(k), b, mode)
<1>1. OCTET_STRING_encode_der(td, Complete(c), mode, tag) = <<v>>
  <2>1. Complete(c).buf = <<c>> BY DEF Complete, Begun
  <2> HIDE DEF v, h
  <2>2. OCTET_STRING_encode_der(td, Complete(c), mode, tag) = Contents(td, c, mode, tag)
    BY <2>1 DEF OCTET_STRING_encode_der
  <2>3. QED BY <2>2 DEF Contents, Enclosed, v, h
<1> HIDE DEF ok, Check, Value, Used, Decode
<1>2. /\ h \in Seq(Octet) /\ Len(h) > 0
      /\ v \in Seq(Octet) /\ Len(v) = Len(h) + Len(c)
      /\ Check(v \o rest) = ok
      /\ v \o rest \in Seq(Octet) /\ Len(v \o rest) = Len(v) + Len(rest)
      /\ From(v \o rest, Len(h)) = c \o rest
      /\ \A k \in 0 .. Len(h) - 1 : Check(Upto(v, k)) = TagCheck(RC_WMORE, 0, 0, -1, -1)
      /\ \A k \in Len(h) .. Len(v) : /\ Check(Upto(v, k)) = ok
                                     /\ From(Upto(v, k), Len(h)) = Upto(c, k - Len(h))
  <2>1. 0 \in {0, 1} /\ -1 \in {-1, 0} OBVIOUS
  <2>2. QED BY <2>1, Enclosure DEF Check, ok
<1>3. /\ head \in Nat /\ head > 0 /\ Len(v) \in Nat /\ Len(c) \in Nat
      /\ Len(v) = head + Len(c)
  BY <1>2
<1>4. /\ ok.code = RC_OK /\ ok.used = head /\ ok.left = Len(c) /\ ok.constr = 0
  BY DEF ok, TagCheck
<1> HIDE DEF h, v, head
(* On octets that begin with the whole header. *)
<1>5. ASSUME NEW b, Check(b) = ok
      PROVE  OCTET_STRING_decode_ber(td, calloc(td), b, mode)
               = StringChunk(td, Decoder(Begun(1, Len(c), <<>>), From(b, head), head))
  BY <1>4, <1>5, DecodeBegins DEF Check
(* From the k-th octet of the value on, the j-th of the contents. *)
<1>6. ASSUME NEW k \in 0 .. Len(v) - 1, NEW m \in k .. Len(v) - 1
      PROVE  Decode(k, From(Upto(v, m), Used(k)))
               = Answer(RC_WMORE, Used(m) - Used(k), Value(m))
  <2>0. k \in Nat /\ m \in Nat /\ k <= m /\ m < Len(v) /\ m \in 0 .. Len(v) BY <1>3
  <2>1. Upto(v, m) \in Seq(Octet) BY <1>2, <2>0, UptoIs
  <2>2. CASE m < head
    <3>1. Check(Upto(v, m)) = TagCheck(RC_WMORE, 0, 0, -1, -1)
      BY <1>2, <1>3, <2>0, <2>2 DEF head
    <3>2. From(Upto(v, m), 0) = Upto(v, m) BY <2>1, FromNone
    <3>3. OCTET_STRING_decode_ber(td, calloc(td), Upto(v, m), mode)
            = Answer(RC_WMORE, 0, calloc(td))
      <4> PICK t : t = Check(Upto(v, m))
        OBVIOUS
      <4>1. t.code = RC_WMORE /\ t.code # RC_OK /\ t.used = 0 /\ t.step = 0
        BY <3>1 DEF TagCheck, RC_OK, RC_WMORE
      <4>2. QED BY <4>1, DecodeBegins DEF Check
    <3>4. k < head BY <1>3, <2>0, <2>2
    <3>5. QED BY <2>2, <3>2, <3>3, <3>4 DEF Decode, Value, Used
  <2>3. CASE ~(m < head) /\ k < head
    <3> PICK n : n = m - head
      OBVIOUS
    <3>1. n \in 0 .. Len(c) - 1 /\ head + n = m /\ m - 0 = m BY <1>3, <2>0, <2>3
    <3>2. Check(Upto(v, m)) = ok /\ From(Upto(v, m), head) = Upto(c, n)
      BY <1>2, <1>3, <2>0, <2>3 DEF head
    <3>3. OCTET_STRING_decode_ber(td, calloc(td), Upto(v, m), mode)
            = StringChunk(td, Decoder(Begun(1, Len(c), <<>>), Upto(c, n), head))
      BY <1>5, <3>2
    <3>4. StringChunk(td, Decoder(Begun(1, Len(c), <<>>), Upto(c, n), head))
            = Answer(RC_WMORE, m, Held(c, n))
      <4>1. head \in Nat BY <1>3
      <4>2. \A i \in 0 .. Len(c) - 1 :
              StringChunk(td, Decoder(Begun(1, Len(c), <<>>), Upto(c, i), head))
                = Answer(RC_WMORE, head + i, Held(c, i))
        BY <4>1, ChunkFirst
      <4>3. QED BY <3>1, <4>2
    <3>5. From(Upto(v, m), 0) = Upto(v, m) BY <2>1, FromNone
    <3>6. QED BY <2>3, <3>1, <3>3, <3>4, <3>5 DEF Decode, Value, Used
  <2>4. CASE ~(k < head)
    <3> PICK j : j = k - head
      OBVIOUS
    <3> PICK n : n = m - k
      OBVIOUS
    <3>1. /\ j \in 0 .. Len(c) /\ n \in 0 .. (Len(c) - j) - 1
          /\ j + n = m - head /\ ~(m < head) /\ 0 + n = n
      BY <1>3, <2>0, <2>4
    <3>2. From(Upto(v, m), k) = Upto(From(c, j), n)
      <4>1. From(v, head) = c BY <1>2, FromConcat DEF v, head
      <4>2. head \in 0 .. Len(v) /\ j \in 0 .. Len(v) - head /\ head + j = k
            /\ k \in 0 .. Len(v) /\ m \in k .. Len(v)
        BY <1>3, <2>0, <2>4, <3>1
      <4>3. From(From(v, head), j) = From(v, head + j) BY <1>2, <4>2, FromFrom
      <4>4. From(Upto(v, m), k) = Upto(From(v, k), m - k) BY <1>2, <4>2, Rejoined
      <4>5. QED BY <4>1, <4>2, <4>3, <4>4
    <3>3. Held(c, j) = Begun(3, Len(c) - j, IF j = 0 THEN <<>> ELSE <<Upto(c, j)>>)
      BY DEF Held
    <3>4. StringChunk(td, Decoder(Held(c, j), Upto(From(c, j), n), 0))
            = Answer(RC_WMORE, 0 + n, Held(c, j + n))
      <4>1. j \in 0 .. Len(c) BY <3>1
      <4>2. \A i \in 0 .. (Len(c) - j) - 1 :
              StringChunk(td, Decoder(Held(c, j), Upto(From(c, j), i), 0))
                = Answer(RC_WMORE, 0 + i, Held(c, j + i))
        BY <4>1, ChunkLater
      <4>3. QED BY <3>1, <4>2
    <3>5. \A b : OCTET_STRING_decode_ber(td, Held(c, j), b, mode)
                   = StringChunk(td, Decoder(Held(c, j), b, 0))
      BY <3>3, DecodeResumes
    <3>6. QED BY <2>4, <3>1, <3>2, <3>4, <3>5 DEF Decode, Value, Used
  <2>5. QED BY <2>2, <2>3, <2>4
<1>7. ASSUME NEW k \in 0 .. Len(v) - 1
      PROVE  Decode(k, From(v \o rest, Used(k))) = Answer(RC_OK, Len(v) - Used(k), Complete(c))
  <2>0. k \in Nat /\ k < Len(v) BY <1>3
  <2>1. CASE k < head
    <3>1. From(v \o rest, 0) = v \o rest BY <1>2, FromNone
    <3>2. OCTET_STRING_decode_ber(td, calloc(td), v \o rest, mode)
            = StringChunk(td, Decoder(Begun(1, Len(c), <<>>), c \o rest, head))
      BY <1>2, <1>5 DEF head
    <3>3. StringChunk(td, Decoder(Begun(1, Len(c), <<>>), c \o rest, head))
            = Answer(RC_OK, Len(v), Complete(c))
      <4>1. head \in Nat BY <1>3
      <4>2. StringChunk(td, Decoder(Begun(1, Len(c), <<>>), c \o rest, head))
              = Answer(RC_OK, head + Len(c), Complete(c))
        BY <4>1, ChunkFirst
      <4>3. QED BY <1>3, <4>2
    <3>4. Len(v) - 0 = Len(v) BY <1>3
    <3>5. QED BY <2>1, <3>1, <3>2, <3>3, <3>4 DEF Decode, Value, Used
  <2>2. CASE ~(k < head)
    <3> PICK j : j = k - head
      OBVIOUS
    <3>1. j \in 0 .. Len(c) /\ 0 + (Len(c) - j) = Len(v) - k BY <1>3, <2>0, <2>2
    <3>2. From(v \o rest, k) = From(c, j) \o rest
      <4>1. /\ head \in 0 .. Len(v \o rest) /\ j \in 0 .. Len(v \o rest) - head
            /\ head + j = k
        BY <1>2, <1>3, <2>0, <2>2, <3>1
      <4>2. From(From(v \o rest, head), j) = From(v \o rest, head + j)
        BY <1>2, <4>1, FromFrom
      <4>3. From(c \o rest, j) = From(c, j) \o rest BY <3>1, FromOf
      <4>4. QED BY <1>2, <4>1, <4>2, <4>3 DEF head
    <3>3. Held(c, j) = Begun(3, Len(c) - j, IF j = 0 THEN <<>> ELSE <<Upto(c, j)>>)
      BY DEF Held
    <3>4. StringChunk(td, Decoder(Held(c, j), From(c, j) \o rest, 0))
            = Answer(RC_OK, 0 + (Len(c) - j), Complete(c))
      <4>1. j \in 0 .. Len(c) BY <3>1
      <4>2. QED BY <4>1, ChunkLater
    <3>5. \A b : OCTET_STRING_decode_ber(td, Held(c, j), b, mode)
                   = StringChunk(td, Decoder(Held(c, j), b, 0))
      BY <3>3, DecodeResumes
    <3>6. QED BY <2>2, <3>1, <3>2, <3>4, <3>5 DEF Decode, Value, Used
  <2>3. QED BY <2>1, <2>2
<1>8. QED
  <2>1. v \in Seq(Octet) /\ head \in 1 .. Len(v) BY <1>2, <1>3
  <2> USE <2>1
  <2> WITNESS v \in Seq(Octet)
  <2> WITNESS head \in 1 .. Len(v)
  <2>2. QED BY <1>1, <1>6, <1>7 DEF Decode, Value, Used
=============================================================================
