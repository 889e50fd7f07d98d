----------------------------- MODULE CopyProofs -----------------------------
(***************************************************************************)
(* The copy between a stream and a socket is faithful, for any data, cut   *)
(* into frames and chunks in any way.                                      *)
(*                                                                         *)
(* What has been read from a queue is a whole number of the chunks that    *)
(* were sent, and what is still to come is the rest of them (Carries).     *)
(* The theorem is about the data of all the chunks, which a recursive      *)
(* function gives; its law is proved first, by induction over the set of   *)
(* the numbers for which it holds.                                         *)
(***************************************************************************)
EXTENDS CopyBidirectional, SequenceTheorems, WellFoundedInduction, TLAPS

(* A set of numbers has a smallest one. *)
LEMMA LeastNat == ASSUME NEW T, T \subseteq Nat, T # {} PROVE \E m \in T : \A n \in T : m <= n
<1>1. PICK m \in T : \A y \in T : ~ (<<y, m>> \in OpToRel(<, Nat))
  BY WFMin, NatLessThanWellFounded
<1>2. \A y \in T : ~(y < m)
  BY <1>1, ZenonT(30) DEF OpToRel
<1> QED
  BY <1>2

(* Induction, for the set of the numbers that have a property. *)
LEMMA SetInduction ==
    ASSUME NEW S, 0 \in S, \A n \in Nat : n \in S => n + 1 \in S
    PROVE  Nat \subseteq S
<1> DEFINE T == Nat \ S
<1> SUFFICES ASSUME T # {} PROVE FALSE
  OBVIOUS
<1>1. PICK m \in T : \A n \in T : m <= n
  BY LeastNat, ZenonT(30)
<1>2. m # 0 /\ m \in Nat /\ m - 1 \in Nat
  BY <1>1
<1>3. m - 1 \in S
  BY <1>1, <1>2
<1> QED
  BY <1>1, <1>2, <1>3

-----------------------------------------------------------------------------
(* The data of a sequence of chunks. *)

LEMMA Associative ==
    ASSUME NEW s \in Seq(Nat), NEW t \in Seq(Nat), NEW u \in Seq(Nat)
    PROVE  (s \o t) \o u = s \o (t \o u)
<1>1. /\ s \o t \in Seq(Nat) /\ t \o u \in Seq(Nat)
      /\ Len(s \o t) = Len(s) + Len(t) /\ Len(t \o u) = Len(t) + Len(u)
  BY ConcatProperties
<1>2. /\ (s \o t) \o u \in Seq(Nat) /\ s \o (t \o u) \in Seq(Nat)
      /\ Len((s \o t) \o u) = Len(s) + Len(t) + Len(u)
      /\ Len(s \o (t \o u)) = Len(s) + Len(t) + Len(u)
  BY <1>1
<1> DEFINE x == (s \o t) \o u
           y == s \o (t \o u)
<1>3. \A i \in 1..Len(x) : x[i] = y[i]
  BY <1>1, <1>2
<1> HIDE DEF x, y
<1>4. x = y
  BY <1>2, <1>3, SeqEqual, ZenonT(30) DEF x, y
<1> QED
  BY <1>4 DEF x, y

(* The data of its first i chunks, for each i. *)
Flat(c) == CHOOSE g : g = [i \in 1..Len(c) |-> IF i = 1 THEN c[i] ELSE g[i - 1] \o c[i]]
Upto(c, i) == IF i = 0 THEN << >> ELSE Flat(c)[i]

LEMMA FlatLaw ==
    ASSUME NEW c \in Seq(Seq(Nat))
    PROVE  Flat(c) = [i \in 1..Len(c) |-> IF i = 1 THEN c[i] ELSE Flat(c)[i - 1] \o c[i]]
<1> DEFINE First(n, g) == g = [i \in 1..n |-> IF i = 1 THEN c[i] ELSE g[i - 1] \o c[i]]
           S == {n \in Nat : \E g : First(n, g)}
<1>1. Nat \subseteq S
  <2>1. 0 \in S
    <3>1. First(0, [i \in 1..0 |-> 0])
      OBVIOUS
    <3> QED
      BY <3>1, ZenonT(30)
  <2>2. ASSUME NEW n \in Nat, n \in S PROVE n + 1 \in S
    <3>1. PICK g : First(n, g)
      BY <2>2, ZenonT(30)
    <3> DEFINE v == IF n = 0 THEN c[n + 1] ELSE g[n] \o c[n + 1]
               h == [i \in 1..(n + 1) |-> IF i = n + 1 THEN v ELSE g[i]]
    <3>2. First(n + 1, h)
      <4>1. \A i \in 1..(n + 1) : h[i] = IF i = 1 THEN c[i] ELSE h[i - 1] \o c[i]
        <5> SUFFICES ASSUME NEW i \in 1..(n + 1)
                     PROVE  h[i] = IF i = 1 THEN c[i] ELSE h[i - 1] \o c[i]
          BY ZenonT(30)
        <5>1. CASE i = n + 1
          BY <5>1
        <5>2. CASE i # n + 1
          <6>1. i \in 1..n /\ h[i] = g[i] /\ (i # 1 => h[i - 1] = g[i - 1])
            BY <5>2
          <6>2. g[i] = IF i = 1 THEN c[i] ELSE g[i - 1] \o c[i]
            BY <3>1, <6>1, ZenonT(30)
          <6> QED
            BY <6>1, <6>2, ZenonT(30)
        <5> QED
          BY <5>1, <5>2, ZenonT(30)
      <4> QED
        BY <4>1, ZenonT(30)
    <3> HIDE DEF h, First
    <3> QED
      BY <3>2
  <2> QED
    <3> HIDE DEF S
    <3> QED BY <2>1, <2>2, SetInduction, ZenonT(30)
<1>2. \E g : First(Len(c), g)
  <2>1. Len(c) \in Nat
    OBVIOUS
  <2> HIDE DEF First
  <2> QED
    BY <1>1, <2>1
<1> QED
  BY <1>2, Zenon DEF Flat

LEMMA UptoStep ==
    ASSUME NEW c \in Seq(Seq(Nat))
    PROVE  \A i \in 0..(Len(c) - 1) :
             Upto(c, i) \in Seq(Nat) => Upto(c, i + 1) = Upto(c, i) \o c[i + 1]
<1> SUFFICES ASSUME NEW i \in 0..(Len(c) - 1), Upto(c, i) \in Seq(Nat)
             PROVE  Upto(c, i + 1) = Upto(c, i) \o c[i + 1]
  BY ZenonT(30)
<1>1. Len(c) \in Nat /\ i + 1 \in 1..Len(c) /\ c[i + 1] \in Seq(Nat)
  OBVIOUS
<1>2. Upto(c, i + 1) = IF i = 0 THEN c[i + 1] ELSE Flat(c)[i] \o c[i + 1]
  <2> DEFINE g == Flat(c)
  <2>1. g = [j \in 1..Len(c) |-> IF j = 1 THEN c[j] ELSE g[j - 1] \o c[j]]
    BY FlatLaw, ZenonT(30)
  <2> HIDE DEF g
  <2>2. \A j \in 1..Len(c) : g[j] = IF j = 1 THEN c[j] ELSE g[j - 1] \o c[j]
    BY <2>1, Zenon
  <2>3. i + 1 # 0 /\ i + 1 - 1 = i /\ (i + 1 = 1 <=> i = 0)
    OBVIOUS
  <2> QED
    BY <1>1, <2>2, <2>3 DEF Upto, g
<1>3. << >> \o c[i + 1] = c[i + 1]
  BY <1>1, ConcatEmptySeq
<1> QED
  BY <1>2, <1>3, ZenonT(30) DEF Upto

LEMMA UptoType ==
    ASSUME NEW c \in Seq(Seq(Nat))
    PROVE  \A i \in 0..Len(c) : Upto(c, i) \in Seq(Nat)
<1> DEFINE S == {n \in Nat : n \in 0..Len(c) => Upto(c, n) \in Seq(Nat)}
<1>1. 0 \in S
  BY DEF Upto
<1>2. ASSUME NEW n \in Nat, n \in S PROVE n + 1 \in S
  <2> SUFFICES ASSUME n + 1 \in 0..Len(c) PROVE Upto(c, n + 1) \in Seq(Nat)
    OBVIOUS
  <2>1. n \in 0..Len(c) /\ n \in 0..(Len(c) - 1) /\ c[n + 1] \in Seq(Nat)
    OBVIOUS
  <2>2. Upto(c, n) \in Seq(Nat)
    BY <1>2, <2>1
  <2> QED
    BY <2>1, <2>2, UptoStep, ConcatProperties, ZenonT(30)
<1>3. Nat \subseteq S
  <2> HIDE DEF S
  <2> QED BY <1>1, <1>2, SetInduction, ZenonT(30)
<1> QED
  BY <1>3

(* The data of the first chunks comes first. *)
LEMMA UptoPrefix ==
    ASSUME NEW c \in Seq(Seq(Nat))
    PROVE  \A i \in 0..Len(c) : \E t \in Seq(Nat) : Upto(c, Len(c)) = Upto(c, i) \o t
<1> DEFINE n == Len(c)
           Rest(i) == \E t \in Seq(Nat) : Upto(c, n) = Upto(c, i) \o t
           S == {k \in Nat : k <= n => Rest(n - k)}
<1>1. n \in Nat /\ \A i \in 0..n : Upto(c, i) \in Seq(Nat)
  BY UptoType
<1>2. \A i \in 0..(n - 1) : Upto(c, i + 1) = Upto(c, i) \o c[i + 1] /\ c[i + 1] \in Seq(Nat)
  <2>1. \A i \in 0..(n - 1) : i \in 0..n /\ i + 1 \in 1..n
    BY <1>1, SMTT(30)
  <2>2. \A i \in 1..n : c[i] \in Seq(Nat)
    BY ElementOfSeq
  <2>3. \A i \in 0..(n - 1) : c[i + 1] \in Seq(Nat)
    BY <2>1, <2>2, ZenonT(30)
  <2> QED
    BY <1>1, <2>1, <2>3, UptoStep, ZenonT(30)
<1> HIDE DEF n
<1>3. 0 \in S
  <2>1. Upto(c, n) \in Seq(Nat) /\ << >> \in Seq(Nat)
    BY <1>1
  <2>2. Upto(c, n) = Upto(c, n) \o << >>
    BY <2>1, ConcatEmptySeq, SMTT(30)
  <2>3. Rest(n)
    BY <2>1, <2>2, ZenonT(30)
  <2> HIDE DEF Rest
  <2> QED
    BY <1>1, <2>3, SMTT(30)
<1>4. ASSUME NEW k \in Nat, k \in S PROVE k + 1 \in S
  <2> SUFFICES ASSUME k + 1 <= n PROVE Rest(n - (k + 1))
    <3> HIDE DEF Rest
    <3> QED
      OBVIOUS
  <2> DEFINE i == n - (k + 1)
  <2>1. i \in 0..(n - 1) /\ i \in 0..n /\ i + 1 = n - k /\ k <= n
    BY <1>1
  <2>2. PICK t \in Seq(Nat) : Upto(c, n) = Upto(c, i + 1) \o t
    BY <1>4, <2>1, ZenonT(30)
  <2> HIDE DEF i
  <2>3. /\ Upto(c, i) \in Seq(Nat) /\ c[i + 1] \in Seq(Nat)
        /\ Upto(c, i + 1) = Upto(c, i) \o c[i + 1]
    BY <1>1, <1>2, <2>1, ZenonT(30)
  <2>4. Upto(c, n) = Upto(c, i) \o (c[i + 1] \o t)
    <3>1. (Upto(c, i) \o c[i + 1]) \o t = Upto(c, i) \o (c[i + 1] \o t)
      BY <2>3, Associative, ZenonT(30)
    <3> QED
      BY <2>2, <2>3, <3>1, Zenon
  <2>5. c[i + 1] \o t \in Seq(Nat)
    BY <2>3, ConcatProperties, ZenonT(30)
  <2>6. Rest(i)
    BY <2>4, <2>5, ZenonT(30)
  <2> QED
    BY <2>6, ZenonT(30) DEF i
<1>5. Nat \subseteq S
  <2> HIDE DEF S
  <2> QED BY <1>3, <1>4, SetInduction, ZenonT(30)
<1>6. ASSUME NEW i \in 0..n PROVE Rest(i)
  <2>1. n - i \in Nat /\ n - i <= n /\ n - (n - i) = i
    BY <1>1
  <2> HIDE DEF Rest
  <2> QED
    BY <1>5, <2>1
<1> QED
  BY <1>6, ZenonT(30) DEF n

LEMMA DataIsUpto ==
    ASSUME NEW c \in Seq(Seq(Nat))
    PROVE  Data(c) = Upto(c, Len(c))
<1>1. CASE Len(c) = 0
  BY <1>1 DEF Data, FlattenSeq, Upto
<1>2. CASE Len(c) # 0
  BY <1>2 DEF Data, FlattenSeq, Upto, Flat
<1> QED
  BY <1>1, <1>2, SMTT(30)

LEMMA PrefixOfConcat ==
    ASSUME NEW s \in Seq(Nat), NEW t \in Seq(Nat)
    PROVE  IsPrefix(s, s \o t)
<1>1. s \o t \in Seq(Nat) /\ Len(s \o t) = Len(s) + Len(t) /\ Len(s) \in Nat /\ Len(t) \in Nat
  BY ConcatProperties
<1>2. \A i \in 1..Len(s) : (s \o t)[i] = s[i] /\ s[i] \in Nat
  BY <1>1, ConcatProperties, SMTT(30)
<1>3. SubSeq(s, 1, Len(s)) = SubSeq(s \o t, 1, Len(s))
  BY <1>1, <1>2, SubSeqProperties, SeqEqual, SMTT(30)
<1> QED
  BY <1>1, <1>3, SMTT(30) DEF IsPrefix

-----------------------------------------------------------------------------
(* Queues of chunks. *)

(* What has been read is the data of the first chunks, and what is to come *)
(* is the other chunks.                                                    *)
Carries(c, q, done) == \E k \in 0..Len(c) : q = SubSeq(c, k + 1, Len(c)) /\ done = Upto(c, k)

LEMMA ChunksAreData == \A c \in Seq(Chunk) : c \in Seq(Seq(Nat)) /\ Len(c) \in Nat
<1>1. Chunk \subseteq Seq(Nat)
  BY DEF Chunk
<1> QED
  BY <1>1, SeqMonotonic, SMTT(30)

LEMMA CarriesAll ==
    ASSUME NEW c \in Seq(Chunk)
    PROVE  Carries(c, c, << >>)
<1>1. Len(c) \in Nat /\ SubSeq(c, 0 + 1, Len(c)) = c /\ Upto(c, 0) = << >>
  BY SubSeqFull DEF Upto
<1>2. 0 \in 0..Len(c)
  BY <1>1
<1> QED
  BY <1>1, <1>2, ZenonT(30) DEF Carries

(* The next chunk is taken. *)
LEMMA CarriesNext ==
    ASSUME NEW c \in Seq(Chunk), NEW q, NEW done, Carries(c, q, done), q # << >>
    PROVE  Carries(c, Tail(q), done \o Head(q))
<1>1. PICK k \in 0..Len(c) : q = SubSeq(c, k + 1, Len(c)) /\ done = Upto(c, k)
  BY DEF Carries
<1>2. Len(c) \in Nat /\ c \in Seq(Seq(Nat))
  BY ChunksAreData
<1>3. k < Len(c)
  <2>1. k = Len(c) => SubSeq(c, k + 1, Len(c)) = << >>
    BY <1>2, SubSeqEmpty, SMTT(30)
  <2> QED
    BY <1>1, <1>2, <2>1, SMTT(30)
<1>4. /\ k \in 0..(Len(c) - 1) /\ k + 1 \in 1..Len(c) /\ k + 1 \in 0..Len(c)
      /\ Len(c) \in (k + 1)..Len(c)
  BY <1>2, <1>3, SMTT(30)
<1>5. Head(q) = c[k + 1] /\ Tail(q) = SubSeq(c, (k + 1) + 1, Len(c))
  BY <1>1, <1>4, HeadTailOfSubSeq, ZenonT(30)
<1>6. Upto(c, k + 1) = done \o Head(q)
  BY <1>1, <1>2, <1>4, <1>5, UptoStep, UptoType, ZenonT(30)
<1> QED
  BY <1>4, <1>5, <1>6, ZenonT(30) DEF Carries

LEMMA Taken ==
    ASSUME NEW x \in Seq(Chunk), NEW y \in Seq(Chunk), x # << >>
    PROVE  /\ x \o y # << >> /\ Head(x \o y) = Head(x) /\ Tail(x \o y) = Tail(x) \o y
           /\ Head(x) \in Seq(Nat) /\ Tail(x) \in Seq(Chunk)
<1>1. /\ Head(x) \in Chunk /\ Tail(x) \in Seq(Chunk) /\ Len(x) \in Nat \ {0} /\ Len(y) \in Nat
      /\ Len(Tail(x)) = Len(x) - 1 /\ \A i \in 1..Len(Tail(x)) : Tail(x)[i] = x[i + 1]
  BY HeadTailProperties, EmptySeq
<1> DEFINE z == x \o y
           t == Tail(x)
<1>2. z \in Seq(Chunk) /\ Len(z) = Len(x) + Len(y)
      /\ \A i \in 1..(Len(x) + Len(y)) : z[i] = IF i <= Len(x) THEN x[i] ELSE y[i - Len(x)]
  BY ConcatProperties, SMTT(30)
<1>3. z # << >>
  BY <1>1, <1>2, SMTT(30)
<1>4. Head(z) = Head(x)
  BY <1>1, <1>2, SMTT(30)
<1> HIDE DEF z, t
<1>5. Tail(z) \in Seq(Chunk) /\ Len(Tail(z)) = Len(z) - 1 /\ \A i \in 1..(Len(z) - 1) : Tail(z)[i] = z[i + 1]
  BY <1>2, <1>3, HeadTailProperties, ZenonT(30)
<1>6. /\ t \o y \in Seq(Chunk) /\ Len(t \o y) = Len(t) + Len(y)
      /\ \A i \in 1..(Len(t) + Len(y)) : (t \o y)[i] = IF i <= Len(t) THEN t[i] ELSE y[i - Len(t)]
  <2>1. t \in Seq(Chunk)
    BY <1>1, ZenonT(30) DEF t
  <2> QED
    BY <2>1, ConcatProperties, SMTT(30)
<1>7. Len(t) = Len(x) - 1 /\ \A i \in 1..Len(t) : t[i] = x[i + 1]
  BY <1>1, ZenonT(30) DEF t
<1>8. \A i \in 1..Len(Tail(z)) : Tail(z)[i] = (t \o y)[i]
  <2> SUFFICES ASSUME NEW i \in 1..Len(Tail(z)) PROVE Tail(z)[i] = (t \o y)[i]
    BY ZenonT(30)
  <2>1. i \in 1..(Len(z) - 1) /\ i + 1 \in 1..(Len(x) + Len(y)) /\ i \in 1..(Len(t) + Len(y))
    BY <1>1, <1>2, <1>5, <1>7
  <2>2. Tail(z)[i] = IF i + 1 <= Len(x) THEN x[i + 1] ELSE y[i + 1 - Len(x)]
    BY <1>2, <1>5, <2>1
  <2>3. (t \o y)[i] = IF i <= Len(x) - 1 THEN x[i + 1] ELSE y[i - (Len(x) - 1)]
    BY <1>1, <1>6, <1>7, <2>1, SMTT(30)
  <2>4. (i + 1 <= Len(x) <=> i <= Len(x) - 1) /\ i + 1 - Len(x) = i - (Len(x) - 1)
    BY <1>1, SMTT(30)
  <2> QED
    BY <2>2, <2>3, <2>4, SMTT(30)
<1>9. Tail(z) = t \o y
  <2> DEFINE u == Tail(z)
             v == t \o y
  <2>1. /\ u \in Seq(Chunk) /\ v \in Seq(Chunk) /\ Len(u) = Len(v)
        /\ \A i \in 1..Len(u) : u[i] = v[i]
    BY <1>1, <1>2, <1>5, <1>6, <1>7, <1>8, SMTT(30)
  <2> HIDE DEF u, v
  <2>2. u = v
    BY <2>1, SeqEqual, ZenonT(30)
  <2> QED
    BY <2>2, ZenonT(30) DEF u, v
<1> QED
  BY <1>1, <1>3, <1>4, <1>9, ZenonT(30) DEF z, t, Chunk

LEMMA Moved ==
    ASSUME NEW x \in Seq(Chunk), NEW y \in Seq(Chunk), y # << >>
    PROVE  /\ Append(x, Head(y)) \o Tail(y) = x \o y
           /\ Append(x, Head(y)) \in Seq(Chunk) /\ Tail(y) \in Seq(Chunk)
<1>1. /\ Head(y) \in Chunk /\ Tail(y) \in Seq(Chunk) /\ Len(y) \in Nat \ {0} /\ Len(x) \in Nat
      /\ Len(Tail(y)) = Len(y) - 1 /\ \A i \in 1..Len(Tail(y)) : Tail(y)[i] = y[i + 1]
      /\ Head(y) = y[1]
  BY HeadTailProperties, EmptySeq, SMTT(30)
<1> DEFINE a == Append(x, Head(y))
           t == Tail(y)
<1>2. /\ a \in Seq(Chunk) /\ Len(a) = Len(x) + 1 /\ a[Len(x) + 1] = y[1]
      /\ \A i \in 1..Len(x) : a[i] = x[i]
  BY <1>1, SMTT(30)
<1>3. t \in Seq(Chunk) /\ Len(t) = Len(y) - 1 /\ \A i \in 1..Len(t) : t[i] = y[i + 1]
  BY <1>1, ZenonT(30)
<1> HIDE DEF a, t
<1>4. /\ a \o t \in Seq(Chunk) /\ Len(a \o t) = Len(x) + Len(y)
      /\ x \o y \in Seq(Chunk) /\ Len(x \o y) = Len(x) + Len(y)
  <2>1. a \o t \in Seq(Chunk) /\ Len(a \o t) = Len(a) + Len(t)
    BY <1>2, <1>3, ConcatProperties, ZenonT(30)
  <2>2. x \o y \in Seq(Chunk) /\ Len(x \o y) = Len(x) + Len(y)
    BY ConcatProperties
  <2> QED
    BY <1>1, <1>2, <1>3, <2>1, <2>2, SMTT(30)
<1>5. \A i \in 1..(Len(x) + Len(y)) : (a \o t)[i] = (x \o y)[i]
  <2> SUFFICES ASSUME NEW i \in 1..(Len(x) + Len(y)) PROVE (a \o t)[i] = (x \o y)[i]
    BY ZenonT(30)
  <2>1. (a \o t)[i] = IF i <= Len(x) + 1 THEN a[i] ELSE t[i - (Len(x) + 1)]
    BY <1>1, <1>2, <1>3
  <2>2. (x \o y)[i] = IF i <= Len(x) THEN x[i] ELSE y[i - Len(x)]
    OBVIOUS
  <2>3. CASE i <= Len(x)
    BY <1>1, <1>2, <2>1, <2>2, <2>3
  <2>4. CASE i = Len(x) + 1
    <3>1. i - Len(x) = 1
      BY <1>1, <2>4, SMTT(30)
    <3> QED
      BY <1>1, <1>2, <2>1, <2>2, <2>4, <3>1, SMTT(30)
  <2>5. CASE i > Len(x) + 1
    <3> DEFINE j == i - (Len(x) + 1)
    <3>1. j \in 1..Len(t) /\ j + 1 = i - Len(x)
      BY <1>1, <1>3, <2>5, SMTT(30)
    <3> HIDE DEF j
    <3>2. (a \o t)[i] = t[j] /\ (x \o y)[i] = y[j + 1]
      BY <1>1, <2>1, <2>2, <2>5, <3>1, SMTT(30) DEF j
    <3> QED
      BY <1>3, <3>1, <3>2, SMTT(30)
  <2>6. i <= Len(x) \/ i = Len(x) + 1 \/ i > Len(x) + 1
    BY <1>1, SMTT(30)
  <2> QED
    BY <2>3, <2>4, <2>5, <2>6, ZenonT(30)
<1>6. a \o t = x \o y
  BY <1>4, <1>5, SeqEqual, ZenonT(30)
<1> QED
  BY <1>2, <1>3, <1>6, ZenonT(30) DEF a, t

(* A part of the buffer is written. *)
LEMMA Parts ==
    ASSUME NEW d \in Seq(Nat), NEW b \in Seq(Nat), NEW n \in 1..Len(b)
    PROVE  /\ SubSeq(b, 1, n) \in Seq(Nat) /\ SubSeq(b, n + 1, Len(b)) \in Seq(Nat)
           /\ d \o SubSeq(b, 1, n) \in Seq(Nat)
           /\ (d \o SubSeq(b, 1, n)) \o SubSeq(b, n + 1, Len(b)) = d \o b
<1> DEFINE x == SubSeq(b, 1, n)
           y == SubSeq(b, n + 1, Len(b))
<1>1. Len(b) \in Nat /\ n \in Nat /\ x \in Seq(Nat) /\ y \in Seq(Nat)
  <2>1. /\ Len(b) \in Nat /\ n \in Int /\ n + 1 \in Int /\ 1 \in Int
        /\ \A i \in 1..n : b[i] \in Nat
        /\ \A i \in (n + 1)..Len(b) : b[i] \in Nat
    OBVIOUS
  <2> QED
    BY <2>1, SubSeqProperties
<1>2. x \o y = b
  <2>1. 1 \in 1..(Len(b) + 1) /\ n \in (1 - 1)..Len(b) /\ Len(b) \in n..Len(b)
    BY <1>1, SMTT(30)
  <2>2. SubSeq(b, 1, n) \o SubSeq(b, n + 1, Len(b)) = SubSeq(b, 1, Len(b))
    BY <2>1, ConcatAdjacentSubSeq, ZenonT(30)
  <2> QED
    BY <2>2, SubSeqFull, ZenonT(30)
<1> HIDE DEF x, y
<1>3. d \o x \in Seq(Nat)
  BY <1>1, ConcatProperties, SMTT(30)
<1>4. (d \o x) \o y = d \o (x \o y)
  BY <1>1, Associative, ZenonT(30)
<1> QED
  BY <1>1, <1>2, <1>3, <1>4, ZenonT(30) DEF x, y

LEMMA CarriesPrefix ==
    ASSUME NEW c \in Seq(Chunk), NEW q, NEW a \in Seq(Nat), NEW b \in Seq(Nat),
           Carries(c, q, a \o b)
    PROVE  IsPrefix(a, Data(c))
<1>1. PICK k \in 0..Len(c) : a \o b = Upto(c, k)
  BY ZenonT(30) DEF Carries
<1>2. c \in Seq(Seq(Nat))
  BY ChunksAreData, SMTT(30)
<1>3. PICK t \in Seq(Nat) : Upto(c, Len(c)) = (a \o b) \o t
  BY <1>1, <1>2, UptoPrefix, ZenonT(30)
<1>4. Data(c) = a \o (b \o t)
  <2>1. (a \o b) \o t = a \o (b \o t)
    BY Associative, ZenonT(30)
  <2> QED
    BY <1>2, <1>3, <2>1, DataIsUpto, Zenon
<1>5. b \o t \in Seq(Nat)
  BY ConcatProperties
<1> QED
  BY <1>4, <1>5, PrefixOfConcat, ZenonT(30)


-----------------------------------------------------------------------------
(* The invariant. *)

Results == {"pending", "ok", "err"}
Ups == [left : Seq(Chunk), rx : Seq(Chunk), eof : BOOLEAN, fin : BOOLEAN, credit : Nat, late : BOOLEAN]
Socks == [left : Seq(Chunk), rx : Seq(Chunk), eof : BOOLEAN, reset : BOOLEAN, dead : BOOLEAN]

Types ==
    /\ us \in Ups /\ sock \in Socks
    /\ buf \in Seq(Nat) /\ toOther \in Seq(Nat) /\ toPeer \in Seq(Nat)
    /\ r \in Results /\ w \in Results
    /\ read_state \in {"Transferring", "ShuttingDown", "Done"}
    /\ write_state \in {"Transferring", "Done"}

Reading == Carries(UsFrames, us.rx \o us.left, toOther \o buf)
Writing == Carries(OtherChunks, sock.rx \o sock.left, toPeer)

(* A direction that has ended has ended for good, and everything that had  *)
(* arrived has been moved.                                                 *)
Ending ==
    /\ read_state # "Transferring" => us.rx = << >> /\ buf = << >> /\ us.eof
    /\ otherShut => read_state = "Done"
    /\ read_state = "Done" => otherShut
    /\ r = "ok" => read_state = "Done"
    /\ write_state = "Done" => us.fin /\ sock.rx = << >> /\ sock.eof
    /\ w = "ok" => write_state = "Done"
    /\ res = "ok" => read_state = "Done" /\ write_state = "Done"

CopyInv == Types /\ Reading /\ Writing /\ Ending

LEMMA CopyInit == Init => CopyInv
<1> SUFFICES ASSUME Init PROVE CopyInv
  BY ZenonT(30)
<1>1. << >> \in Seq(Nat) /\ << >> \in Seq(Chunk) /\ << >> \o << >> = << >>
  OBVIOUS
<1>2. us \in Ups /\ us.rx = << >> /\ us.left = UsFrames
  BY <1>1, CopyAssumption, ZenonT(30) DEF Init, Ups
<1>3. sock \in Socks /\ sock.rx = << >> /\ sock.left = OtherChunks
  BY <1>1, CopyAssumption, SMTT(30) DEF Init, Socks
<1>4. << >> \o UsFrames = UsFrames /\ << >> \o OtherChunks = OtherChunks
  BY CopyAssumption, ConcatEmptySeq, SMTT(30)
<1>5. buf = << >> /\ toOther = << >> /\ toPeer = << >>
  BY ZenonT(30) DEF Init
<1>6. Reading /\ Writing
  BY <1>1, <1>2, <1>3, <1>4, <1>5, CarriesAll, CopyAssumption, ZenonT(30) DEF Reading, Writing
<1>7. Types
  BY <1>1, <1>2, <1>3, ZenonT(30) DEF Init, Types, Results
<1>8. Ending
  BY ZenonT(30) DEF Init, Ending
<1> QED
  BY <1>6, <1>7, <1>8 DEF CopyInv

-----------------------------------------------------------------------------
(* The future. *)

(* What only moves the control does not touch the data. *)
LEMMA DataSame ==
    ASSUME CopyInv, UNCHANGED <<us, sock, buf, toOther, toPeer>>
    PROVE  Reading' /\ Writing'
BY DEF CopyInv, Reading, Writing

LEMMA Controls ==
    ASSUME CopyInv,
           \/ Connect \/ PollStart \/ RegisterWriter \/ PollWriteDone \/ PollEnd \/ SocketWritable
           \/ UNCHANGED vars
    PROVE  CopyInv'
<1>1. UNCHANGED <<us, sock, buf, toOther, toPeer, otherShut, read_state, write_state>>
  BY ZenonT(30) DEF Connect, PollStart, RegisterWriter, PollWriteDone, PollEnd, SocketWritable, Wake, vars
<1>2. /\ r' = r /\ (w' \in {w, "pending"} \/ (w' = "ok" /\ write_state = "Done"))
      /\ res' = "ok" => res = "ok" \/ (r = "ok" /\ w = "ok")
  <2>1. CASE PollEnd
    BY <2>1, SMTT(30) DEF PollEnd, CopyInv, Types, Results
  <2>2. CASE PollWriteDone
    BY <2>2, ZenonT(30) DEF PollWriteDone, WriteReturns
  <2>3. CASE RegisterWriter
    BY <2>3, ZenonT(30) DEF RegisterWriter, WriteReturns
  <2> QED
    BY <2>1, <2>2, <2>3, ZenonT(30) DEF Connect, PollStart, SocketWritable, Wake, vars
<1>3. Types'
  BY <1>1, <1>2, ZenonT(30) DEF CopyInv, Types, Results
<1>4. Ending'
  BY <1>1, <1>2, ZenonT(30) DEF CopyInv, Ending
<1> QED
  BY <1>1, <1>3, <1>4, DataSame, ZenonT(30) DEF CopyInv

LEMMA ReadIteration ==
    ASSUME CopyInv, PollReadUs
    PROVE  CopyInv'
<1>1. /\ UNCHANGED <<w, res, write_state, toPeer, otherShut>> /\ read_state = "Transferring"
      /\ sock' \in Socks /\ sock'.rx = sock.rx /\ sock'.left = sock.left /\ (sock.eof => sock'.eof)
  BY ZenonT(30) DEF PollReadUs, Reported, CopyInv, Types, Socks
<1>t. /\ us \in Ups /\ buf \in Seq(Nat) /\ toOther \in Seq(Nat) /\ toPeer \in Seq(Nat)
      /\ us.rx \in Seq(Chunk) /\ us.left \in Seq(Chunk)
  BY DEF CopyInv, Types, Ups
<1>2. Writing'
  BY <1>1, ZenonT(30) DEF CopyInv, Writing
<1>3. CASE /\ buf = << >> /\ us.rx # << >> /\ buf' = Head(us.rx) /\ us' = [us EXCEPT !.rx = Tail(@)]
           /\ UNCHANGED <<r, read_state, toOther>>
  <2>1. /\ us.rx \o us.left # << >> /\ Head(us.rx \o us.left) = Head(us.rx)
        /\ Tail(us.rx \o us.left) = Tail(us.rx) \o us.left
        /\ Head(us.rx) \in Seq(Nat) /\ Tail(us.rx) \in Seq(Chunk)
    BY <1>t, <1>3, Taken, ZenonT(30)
  <2>2. us' \in Ups /\ us'.rx = Tail(us.rx) /\ us'.left = us.left /\ us'.fin = us.fin
    BY <1>t, <1>3, <2>1, ZenonT(30) DEF Ups
  <2>3. toOther \o buf = toOther /\ toOther' \o buf' = (toOther \o buf) \o Head(us.rx)
    BY <1>t, <1>3, ConcatEmptySeq
  <2>4. Carries(UsFrames, Tail(us.rx \o us.left), (toOther \o buf) \o Head(us.rx \o us.left))
    BY <2>1, CarriesNext, CopyAssumption, ZenonT(30) DEF CopyInv, Reading
  <2>5. Reading'
    BY <2>1, <2>2, <2>3, <2>4, Zenon DEF Reading
  <2>6. Types'
    BY <1>1, <1>3, <2>1, <2>2, ZenonT(30) DEF CopyInv, Types
  <2>7. Ending'
    BY <1>1, <1>3, <2>2, ZenonT(30) DEF CopyInv, Ending
  <2> QED
    BY <1>2, <2>5, <2>6, <2>7, ZenonT(30) DEF CopyInv
<1>4. CASE /\ UNCHANGED <<buf, us, toOther>>
           /\ \/ r' \in {"pending", "err"} /\ read_state' = read_state
              \/ r' = r /\ buf = << >> /\ us.rx = << >> /\ us.eof /\ read_state' = "ShuttingDown"
  <2>1. Reading'
    BY <1>4, SMTT(30) DEF CopyInv, Reading
  <2>2. Types'
    BY <1>1, <1>4, SMTT(30) DEF CopyInv, Types, Results
  <2>3. Ending'
    BY <1>1, <1>4, SMTT(30) DEF CopyInv, Ending
  <2> QED
    BY <1>2, <2>1, <2>2, <2>3, ZenonT(30) DEF CopyInv
<1>5. CASE \E n \in 1..Len(buf) : ReadUs(n) /\ UNCHANGED <<r, read_state, us>>
  <2>1. PICK n \in 1..Len(buf) : ReadUs(n) /\ UNCHANGED <<r, read_state, us>>
    BY <1>5, SMTT(30)
  <2>2. toOther' = toOther \o SubSeq(buf, 1, n) /\ buf' = SubSeq(buf, n + 1, Len(buf))
    BY <2>1, ZenonT(30) DEF ReadUs
  <2>3. toOther' \in Seq(Nat) /\ buf' \in Seq(Nat) /\ toOther' \o buf' = toOther \o buf
    BY <1>t, <2>2, Parts, ZenonT(30)
  <2>4. Reading'
    BY <2>1, <2>3, ZenonT(30) DEF CopyInv, Reading
  <2>5. Types'
    BY <1>1, <2>1, <2>3, ZenonT(30) DEF CopyInv, Types
  <2>6. Ending'
    BY <1>1, <2>1, ZenonT(30) DEF CopyInv, Ending
  <2> QED
    BY <1>2, <2>4, <2>5, <2>6, ZenonT(30) DEF CopyInv
<1> QED
  BY <1>3, <1>4, <1>5, ZenonT(30) DEF PollReadUs, ReadReturns

LEMMA Shutdown ==
    ASSUME CopyInv, PollShutdown
    PROVE  CopyInv'
<1>1. /\ UNCHANGED <<w, res, write_state, buf, us, sock, toOther, toPeer>>
      /\ read_state # "Transferring"
      /\ \/ r' = "ok" /\ read_state' = "Done" /\ otherShut' = TRUE
         \/ r' \in {"pending", "err"} /\ UNCHANGED <<otherShut, read_state>>
  BY ZenonT(30) DEF PollShutdown, ReadReturns
<1>2. Types'
  BY <1>1, ZenonT(30) DEF CopyInv, Types, Results
<1>3. Ending'
  BY <1>1, SMTT(30) DEF CopyInv, Ending
<1> QED
  BY <1>1, <1>2, <1>3, DataSame, ZenonT(30) DEF CopyInv

LEMMA WriteIteration ==
    ASSUME CopyInv, PollWriteUs
    PROVE  CopyInv'
<1>1. UNCHANGED <<r, res, read_state, buf, toOther, otherShut>> /\ write_state = "Transferring"
  BY ZenonT(30) DEF PollWriteUs
<1>t. /\ us \in Ups /\ sock \in Socks /\ toPeer \in Seq(Nat)
      /\ sock.rx \in Seq(Chunk) /\ sock.left \in Seq(Chunk)
  BY DEF CopyInv, Types, Socks
<1>2. CASE w' \in {w, "pending", "err"} /\ sock' \in {sock, Reported} /\ UNCHANGED <<write_state, us, toPeer>>
  <2>1. sock' \in Socks /\ sock'.rx = sock.rx /\ sock'.left = sock.left
    BY <1>t, <1>2, ZenonT(30) DEF Reported, Socks
  <2>2. Reading' /\ Writing'
    BY <1>1, <1>2, <2>1 DEF CopyInv, Reading, Writing
  <2>3. Types'
    BY <1>1, <1>2, <2>1, ZenonT(30) DEF CopyInv, Types, Results
  <2>4. Ending'
    BY <1>1, <1>2, ZenonT(30) DEF CopyInv, Ending
  <2> QED
    BY <2>2, <2>3, <2>4, ZenonT(30) DEF CopyInv
<1>3. CASE /\ sock.rx = << >> /\ sock.eof /\ w' = "ok" /\ write_state' = "Done"
           /\ us' = [us EXCEPT !.fin = TRUE] /\ UNCHANGED <<sock, toPeer>>
  <2>1. us' \in Ups /\ us'.rx = us.rx /\ us'.left = us.left /\ us'.fin = TRUE /\ us'.eof = us.eof
    BY <1>t, <1>3, ZenonT(30) DEF Ups
  <2>2. Reading' /\ Writing'
    BY <1>1, <1>3, <2>1, ZenonT(30) DEF CopyInv, Reading, Writing
  <2>3. Types'
    BY <1>1, <1>3, <2>1, ZenonT(30) DEF CopyInv, Types, Results
  <2>4. Ending'
    BY <1>1, <1>3, <2>1, ZenonT(30) DEF CopyInv, Ending
  <2> QED
    BY <2>2, <2>3, <2>4, ZenonT(30) DEF CopyInv
<1>4. CASE /\ sock.rx # << >> /\ us.credit > 0 /\ us' = [us EXCEPT !.credit = @ - 1]
           /\ toPeer' = toPeer \o Head(sock.rx) /\ sock' = [sock EXCEPT !.rx = Tail(@)]
           /\ UNCHANGED <<w, write_state>>
  <2>1. /\ sock.rx \o sock.left # << >> /\ Head(sock.rx \o sock.left) = Head(sock.rx)
        /\ Tail(sock.rx \o sock.left) = Tail(sock.rx) \o sock.left
        /\ Head(sock.rx) \in Seq(Nat) /\ Tail(sock.rx) \in Seq(Chunk)
    BY <1>t, <1>4, Taken, ZenonT(30)
  <2>2. sock' \in Socks /\ sock'.rx = Tail(sock.rx) /\ sock'.left = sock.left
    BY <1>t, <1>4, <2>1, ZenonT(30) DEF Socks
  <2>3. us' \in Ups /\ us'.rx = us.rx /\ us'.left = us.left /\ us'.eof = us.eof
    <3>1. us.credit - 1 \in Nat
      BY <1>t, <1>4, SMTT(30) DEF Ups
    <3> QED
      BY <1>t, <1>4, <3>1, ZenonT(30) DEF Ups
  <2>4. Carries(OtherChunks, Tail(sock.rx \o sock.left), toPeer \o Head(sock.rx \o sock.left))
    BY <2>1, CarriesNext, CopyAssumption, ZenonT(30) DEF CopyInv, Writing
  <2>5. Writing'
    BY <1>4, <2>1, <2>2, <2>4, Zenon DEF Writing
  <2>6. Reading'
    BY <1>1, <2>3, ZenonT(30) DEF CopyInv, Reading
  <2>7. toPeer' \in Seq(Nat)
    BY <1>t, <1>4, <2>1, ConcatProperties, ZenonT(30)
  <2>8. Types'
    BY <1>1, <1>4, <2>2, <2>3, <2>7, ZenonT(30) DEF CopyInv, Types
  <2>9. Ending'
    BY <1>1, <1>4, <2>3, ZenonT(30) DEF CopyInv, Ending
  <2> QED
    BY <2>5, <2>6, <2>8, <2>9, ZenonT(30) DEF CopyInv
<1> QED
  BY <1>2, <1>3, <1>4, ZenonT(30) DEF PollWriteUs, WriteReturns


-----------------------------------------------------------------------------
(* The stream and the socket. *)

LEMMA StreamMoves ==
    ASSUME CopyInv, FrameArrives \/ StreamEnds \/ CreditReturns
    PROVE  CopyInv'
<1>1. UNCHANGED <<r, w, res, read_state, write_state, buf, sock, toOther, toPeer, otherShut>>
  BY ZenonT(30) DEF FrameArrives, StreamEnds, CreditReturns, Wake
<1>t. us \in Ups /\ us.rx \in Seq(Chunk) /\ us.left \in Seq(Chunk)
  BY ZenonT(30) DEF CopyInv, Types, Ups
<1>2. /\ us' \in Ups /\ us'.rx \o us'.left = us.rx \o us.left
      /\ (us.eof => us'.eof /\ us'.rx = us.rx) /\ (us.fin => us'.fin)
  <2>1. CASE FrameArrives
    <3>1. us.left # << >> /\ ~us.eof /\ us' = [us EXCEPT !.left = Tail(@), !.rx = Append(@, Head(us.left))]
      BY <2>1, ZenonT(30) DEF FrameArrives
    <3> DEFINE x == Append(us.rx, Head(us.left))
               y == Tail(us.left)
    <3>2. x \in Seq(Chunk) /\ y \in Seq(Chunk) /\ x \o y = us.rx \o us.left
      BY <1>t, <3>1, Moved, ZenonT(30)
    <3>3. us' = [us EXCEPT !.left = y, !.rx = x]
      BY <3>1
    <3> HIDE DEF x, y
    <3>4. us' \in Ups /\ us'.rx = x /\ us'.left = y /\ us'.fin = us.fin
      BY <1>t, <3>2, <3>3, ZenonT(30) DEF Ups
    <3> QED
      BY <3>1, <3>2, <3>4, ZenonT(30)
  <2>2. CASE StreamEnds
    BY <1>t, <2>2, ZenonT(30) DEF StreamEnds, Ups
  <2>3. CASE CreditReturns
    <3>1. /\ us' = [us EXCEPT !.credit = us.credit + 1, !.late = (pc = "register")]
          /\ us.credit + 1 \in Nat /\ (pc = "register") \in BOOLEAN
      BY <1>t, <2>3, SMTT(30) DEF CreditReturns, Ups
    <3> QED
      BY <1>t, <3>1, ZenonT(30) DEF Ups
  <2> QED
    BY <2>1, <2>2, <2>3, ZenonT(30)
<1>3. Reading' /\ Writing'
  BY <1>1, <1>2, ZenonT(30) DEF CopyInv, Reading, Writing
<1>4. Types'
  BY <1>1, <1>2, ZenonT(30) DEF CopyInv, Types
<1>5. Ending'
  BY <1>1, <1>2, ZenonT(30) DEF CopyInv, Ending
<1> QED
  BY <1>3, <1>4, <1>5, SMTT(30) DEF CopyInv

LEMMA SocketMoves ==
    ASSUME CopyInv, DataArrives \/ SocketEnds
    PROVE  CopyInv'
<1>1. UNCHANGED <<r, w, res, read_state, write_state, buf, us, toOther, toPeer, otherShut>>
  BY SMTT(30) DEF DataArrives, SocketEnds, Wake
<1>t. sock \in Socks /\ sock.rx \in Seq(Chunk) /\ sock.left \in Seq(Chunk)
  BY SMTT(30) DEF CopyInv, Types, Socks
<1>2. /\ sock' \in Socks /\ sock'.rx \o sock'.left = sock.rx \o sock.left
      /\ (sock.eof => sock'.eof /\ sock'.rx = sock.rx)
  <2>1. CASE DataArrives
    <3>1. /\ sock.left # << >> /\ ~sock.eof
          /\ sock' = [sock EXCEPT !.left = Tail(@), !.rx = Append(@, Head(sock.left))]
      BY <2>1 DEF DataArrives
    <3> DEFINE x == Append(sock.rx, Head(sock.left))
               y == Tail(sock.left)
    <3>2. x \in Seq(Chunk) /\ y \in Seq(Chunk) /\ x \o y = sock.rx \o sock.left
      BY <1>t, <3>1, Moved, ZenonT(30)
    <3>3. sock' = [sock EXCEPT !.left = y, !.rx = x]
      BY <3>1
    <3> HIDE DEF x, y
    <3>4. sock' \in Socks /\ sock'.rx = x /\ sock'.left = y
      BY <1>t, <3>2, <3>3, ZenonT(30) DEF Socks
    <3> QED
      BY <3>1, <3>2, <3>4, ZenonT(30)
  <2>2. CASE SocketEnds
    BY <1>t, <2>2, ZenonT(30) DEF SocketEnds, Socks
  <2> QED
    BY <2>1, <2>2, ZenonT(30)
<1>3. Reading' /\ Writing'
  BY <1>1, <1>2 DEF CopyInv, Reading, Writing
<1>4. Types'
  BY <1>1, <1>2 DEF CopyInv, Types
<1>5. Ending'
  BY <1>1, <1>2, ZenonT(30) DEF CopyInv, Ending
<1> QED
  BY <1>3, <1>4, <1>5, SMTT(30) DEF CopyInv

-----------------------------------------------------------------------------

(* The invariant of the copy: in each direction the data that has been     *)
(* moved is that of the chunks that have left the queue, and an end of     *)
(* file is passed on only when nothing is left to move.                    *)
THEOREM CopyInductive == Spec => []CopyInv
<1>1. CopyInv /\ [Next]_vars => CopyInv'
  <2> SUFFICES ASSUME CopyInv, [Next]_vars PROVE CopyInv'
    OBVIOUS
  <2> QED
    BY Controls, ReadIteration, Shutdown, WriteIteration, StreamMoves, SocketMoves, ZenonT(30) DEF Next, Poll
<1> QED
  BY <1>1, CopyInit, PTL DEF Spec

(* Whatever is sent, and however the reads and writes cut it, each side    *)
(* gets a prefix of what the other has sent; and a copy that returns Ok    *)
(* has moved everything that had arrived, in both directions, and has      *)
(* passed both ends of file on (into_copy_bidirectional_with_buf).         *)
THEOREM CopyIsFaithful == Spec => []CopyFaithful
<1>1. CopyInv => CopyFaithful
  <2> SUFFICES ASSUME CopyInv PROVE CopyFaithful
    BY ZenonT(30)
  <2>1. buf \in Seq(Nat) /\ toOther \in Seq(Nat) /\ toPeer \in Seq(Nat) /\ << >> \in Seq(Nat)
    BY DEF CopyInv, Types
  <2>2. IsPrefix(toOther, Data(UsFrames))
    BY <2>1, CarriesPrefix, CopyAssumption, ZenonT(30) DEF CopyInv, Reading
  <2>3. Carries(OtherChunks, sock.rx \o sock.left, toPeer \o << >>)
    <3>1. toPeer \o << >> = toPeer
      BY <2>1, ConcatEmptySeq, SMTT(30)
    <3> QED
      BY <3>1, SMTT(30) DEF CopyInv, Writing
  <2>4. IsPrefix(toPeer, Data(OtherChunks))
    BY <2>1, <2>3, CarriesPrefix, CopyAssumption, ZenonT(30)
  <2>5. /\ otherShut => us.rx = << >> /\ buf = << >> /\ us.eof
        /\ res = "ok" => otherShut /\ us.fin /\ sock.rx = << >>
    BY ZenonT(30) DEF CopyInv, Ending
  <2> QED
    BY <2>2, <2>4, <2>5, SMTT(30) DEF CopyFaithful
<1> QED
  BY <1>1, CopyInductive, PTL

=============================================================================
