---------------------------- MODULE CodecsProofs ----------------------------
(***************************************************************************)
(* The codecs, for inputs of any length: what the encoder writes the       *)
(* decoder reads, and what the decoder takes is what the encoder would     *)
(* have written.                                                           *)
(***************************************************************************)
EXTENDS Codecs, TLAPS

(* What u16 and u32 can hold (TLC has no 2^32). *)
U16 == {n \in Nat : n < 65536}
U32 == {n \in Nat : n \div 65536 < 65536}

-----------------------------------------------------------------------------
(* Sequences of octets. *)

LEMMA SeqEqual ==
    ASSUME NEW S, NEW s \in Seq(S), NEW t \in Seq(S), Len(s) = Len(t), \A i \in 1..Len(s) : s[i] = t[i]
    PROVE  s = t
  BY SMT

LEMMA ConcatProperties ==
    ASSUME NEW S, NEW s1 \in Seq(S), NEW s2 \in Seq(S)
    PROVE  /\ s1 \o s2 \in Seq(S)
           /\ Len(s1 \o s2) = Len(s1) + Len(s2)
           /\ \A i \in 1..(Len(s1) + Len(s2)) :
                (s1 \o s2)[i] = IF i <= Len(s1) THEN s1[i] ELSE s2[i - Len(s1)]
  BY SMT

LEMMA ElementOfSeq ==
    ASSUME NEW S, NEW seq \in Seq(S), NEW n \in 1..Len(seq)
    PROVE  seq[n] \in S
  BY SMT

LEMMA ConcatEmptySeq ==
    ASSUME NEW S, NEW seq \in Seq(S)
    PROVE  seq \o << >> = seq /\ << >> \o seq = seq
  BY SMT

LEMMA SubSeqFull ==
    ASSUME NEW S, NEW seq \in Seq(S)
    PROVE  SubSeq(seq, 1, Len(seq)) = seq
  BY SMT

LEMMA ConcatAssociative ==
    ASSUME NEW S, NEW s \in Seq(S), NEW t \in Seq(S), NEW u \in Seq(S)
    PROVE  (s \o t) \o u = s \o (t \o u)
  BY SMT

LEMMA ConcatAdjacentSubSeq ==
    ASSUME NEW S, NEW seq \in Seq(S), NEW m \in 1..(Len(seq) + 1), NEW k \in (m - 1)..Len(seq),
           NEW n \in k..Len(seq)
    PROVE  SubSeq(seq, m, k) \o SubSeq(seq, k + 1, n) = SubSeq(seq, m, n)
  BY SMT

(* get_u16 and get_u32, apart from where the octets are. *)
Half(x, y) == 256 * x + y
Word(x, y) == 65536 * x + y

LEMMA Gets ==
    \A b : /\ \A i : GetU16(b, i) = Half(b[i], b[i + 1])
          /\ GetU32(b, 1) = Word(Half(b[1], b[2]), Half(b[3], b[4]))
          /\ GetU32(b, 2) = Word(Half(b[2], b[3]), Half(b[4], b[5]))
<1> TAKE b
<1>1. \A i : GetU16(b, i) = Half(b[i], b[i + 1])
  BY DEF GetU16, Half
<1>2. \A i : GetU32(b, i) = Word(GetU16(b, i), GetU16(b, i + 2))
  BY DEF GetU32, Word
<1>3. /\ GetU32(b, 1) = Word(GetU16(b, 1), GetU16(b, 3)) /\ GetU32(b, 2) = Word(GetU16(b, 2), GetU16(b, 4))
  BY <1>2, SMTT(30)
<1>4. /\ GetU16(b, 1) = Half(b[1], b[2]) /\ GetU16(b, 3) = Half(b[3], b[4])
      /\ GetU16(b, 2) = Half(b[2], b[3]) /\ GetU16(b, 4) = Half(b[4], b[5])
  BY <1>1
<1> QED
  BY <1>1, <1>3, <1>4, SMTT(30)

(* A sequence comes apart where it was put together. *)
LEMMA Apart ==
    ASSUME NEW a \in Seq(Octet), NEW c \in Seq(Octet)
    PROVE  /\ a \o c \in Seq(Octet) /\ Len(a \o c) = Len(a) + Len(c)
           /\ \A i \in 1..Len(a) : (a \o c)[i] = a[i]
           /\ SubSeq(a \o c, 1, Len(a)) = a
           /\ From(a \o c, Len(a) + 1) = c
<1>1. Len(a) \in Nat /\ Len(c) \in Nat
  OBVIOUS
<1>2. /\ a \o c \in Seq(Octet) /\ Len(a \o c) = Len(a) + Len(c)
      /\ \A i \in 1..(Len(a) + Len(c)) : (a \o c)[i] = IF i <= Len(a) THEN a[i] ELSE c[i - Len(a)]
  BY ConcatProperties
<1> DEFINE s == a \o c  n == Len(a)
<1> HIDE DEF s
<1>3. s \in Seq(Octet) /\ Len(s) = n + Len(c) /\ \A i \in 1..Len(s) : s[i] \in Octet
  BY <1>1, <1>2, ElementOfSeq, SMTT(30) DEF s
<1>4. SubSeq(s, 1, n) = a
  <2>1. /\ SubSeq(s, 1, n) \in Seq(Octet) /\ Len(SubSeq(s, 1, n)) = n
        /\ \A i \in 1..n : SubSeq(s, 1, n)[i] = s[i]
    BY <1>1, <1>3, SMTT(30)
  <2>2. \A i \in 1..n : s[i] = a[i]
    BY <1>1, <1>2, SMTT(30) DEF s
  <2> QED
    BY <1>1, <2>1, <2>2, SeqEqual, SMTT(30)
<1>5. SubSeq(s, n + 1, Len(s)) = c
  <2>1. /\ SubSeq(s, n + 1, Len(s)) \in Seq(Octet) /\ Len(SubSeq(s, n + 1, Len(s))) = Len(c)
        /\ \A i \in 1..Len(c) : SubSeq(s, n + 1, Len(s))[i] = s[n + i]
    BY <1>1, <1>3, SMTT(30)
  <2>2. \A i \in 1..Len(c) : s[n + i] = c[i]
    BY <1>1, <1>2, SMTT(30) DEF s
  <2> QED
    BY <1>1, <2>1, <2>2, SeqEqual, SMTT(30)
<1> QED
  BY <1>1, <1>2, <1>4, <1>5, SMTT(30) DEF From, s

(* And it is what its parts make. *)
LEMMA Together ==
    ASSUME NEW b \in Seq(Octet), NEW n \in 0..Len(b)
    PROVE  /\ SubSeq(b, 1, n) \in Seq(Octet) /\ Len(SubSeq(b, 1, n)) = n
           /\ From(b, n + 1) \in Seq(Octet) /\ Len(From(b, n + 1)) = Len(b) - n
           /\ \A i \in 1..(Len(b) - n) : From(b, n + 1)[i] = b[n + i]
           /\ SubSeq(b, 1, n) \o From(b, n + 1) = b
<1>1. Len(b) \in Nat /\ \A i \in 1..Len(b) : b[i] \in Octet
  OBVIOUS
<1>2. 1 \in 1..(Len(b) + 1) /\ n \in (1 - 1)..Len(b) /\ Len(b) \in n..Len(b)
  BY <1>1
<1>3. SubSeq(b, 1, n) \o SubSeq(b, n + 1, Len(b)) = SubSeq(b, 1, Len(b))
  BY <1>2, ConcatAdjacentSubSeq, ZenonT(30)
<1>4. SubSeq(b, 1, n) \in Seq(Octet) /\ Len(SubSeq(b, 1, n)) = n
  BY <1>1
<1>5. /\ SubSeq(b, n + 1, Len(b)) \in Seq(Octet) /\ Len(SubSeq(b, n + 1, Len(b))) = Len(b) - n
      /\ \A i \in 1..(Len(b) - n) : SubSeq(b, n + 1, Len(b))[i] = b[n + i]
  BY <1>1
<1>6. SubSeq(b, 1, Len(b)) = b
  BY SubSeqFull
<1> QED
  BY <1>3, <1>4, <1>5, <1>6, ZenonT(30) DEF From

(* put_u16 and put_u32 *)
LEMMA Put16 ==
    ASSUME NEW n \in U16
    PROVE  PutU16(n) \in Seq(Octet) /\ Len(PutU16(n)) = 2 /\ Half(PutU16(n)[1], PutU16(n)[2]) = n
<1>1. n \div 256 \in Octet /\ n % 256 \in Octet /\ 256 * (n \div 256) + (n % 256) = n
  BY DEF U16, Octet
<1>2. Half(n \div 256, n % 256) = n
  BY <1>1, SMTT(30) DEF Half
<1> QED
  BY <1>1, <1>2, SMTT(30) DEF PutU16

LEMMA Four ==
    ASSUME NEW a \in Seq(Octet), NEW c \in Seq(Octet), Len(a) = 2, Len(c) = 2
    PROVE  /\ a \o c \in Seq(Octet) /\ Len(a \o c) = 4 /\ (a \o c)[1] = a[1] /\ (a \o c)[2] = a[2]
           /\ (a \o c)[3] = c[1] /\ (a \o c)[4] = c[2]
<1> DEFINE s == a \o c
<1>1. /\ s \in Seq(Octet) /\ Len(s) = Len(a) + Len(c)
      /\ \A i \in 1..(Len(a) + Len(c)) : s[i] = IF i <= Len(a) THEN a[i] ELSE c[i - Len(a)]
  BY ConcatProperties, ZenonT(30)
<1> HIDE DEF s
<1>2. s[1] = a[1] /\ s[2] = a[2] /\ s[3] = c[1] /\ s[4] = c[2] /\ Len(s) = 4
  BY <1>1
<1> QED
  BY <1>1, <1>2, SMTT(30) DEF s

LEMMA Put32 ==
    ASSUME NEW n \in U32
    PROVE  /\ PutU32(n) \in Seq(Octet) /\ Len(PutU32(n)) = 4 /\ GetU32(PutU32(n), 1) = n
<1> DEFINE x == n \div 65536  y == n % 65536
<1>1. x \in U16 /\ y \in U16 /\ Word(x, y) = n
  BY DEF U16, U32, Word
<1>0. PutU32(n) = PutU16(x) \o PutU16(y)
  BY DEF PutU32
<1> HIDE DEF x, y
<1> DEFINE hi == PutU16(x)  lo == PutU16(y)
<1>2. /\ hi \in Seq(Octet) /\ Len(hi) = 2 /\ Half(hi[1], hi[2]) = x
      /\ lo \in Seq(Octet) /\ Len(lo) = 2 /\ Half(lo[1], lo[2]) = y
  BY <1>1, Put16, SMTT(30)
<1> HIDE DEF hi, lo
<1>3. /\ hi \o lo \in Seq(Octet) /\ Len(hi \o lo) = 4 /\ (hi \o lo)[1] = hi[1] /\ (hi \o lo)[2] = hi[2]
      /\ (hi \o lo)[3] = lo[1] /\ (hi \o lo)[4] = lo[2]
  BY <1>2, Four, SMTT(30)
<1> DEFINE s == hi \o lo
<1>4. PutU32(n) = s
  BY <1>0, SMTT(30) DEF hi, lo
<1>5. GetU32(s, 1) = Word(Half(s[1], s[2]), Half(s[3], s[4]))
  BY Gets, ZenonT(30)
<1> HIDE DEF s
<1>6. GetU32(s, 1) = n
  BY <1>1, <1>2, <1>3, <1>5 DEF s
<1> QED
  BY <1>3, <1>4, <1>6 DEF s

(* What get_u16 and get_u32 make of octets, put_u16 and put_u32 undo. *)
LEMMA Get16 ==
    ASSUME NEW x \in Octet, NEW y \in Octet
    PROVE  /\ Half(x, y) \in U16 /\ PutU16(Half(x, y)) \in Seq(Octet) /\ Len(PutU16(Half(x, y))) = 2
           /\ PutU16(Half(x, y))[1] = x /\ PutU16(Half(x, y))[2] = y
<1>1. Half(x, y) \in U16 /\ Half(x, y) \div 256 = x /\ Half(x, y) % 256 = y
  BY DEF U16, Octet, Half
<1>2. PutU16(Half(x, y)) = <<x, y>>
  BY <1>1, SMTT(30) DEF PutU16
<1> QED
  BY <1>1, <1>2

LEMMA Get32 ==
    ASSUME NEW x \in U16, NEW y \in U16
    PROVE  Word(x, y) \in U32 /\ PutU32(Word(x, y)) = PutU16(x) \o PutU16(y)
<1>1. Word(x, y) \in Nat /\ Word(x, y) \div 65536 = x /\ Word(x, y) % 65536 = y /\ x < 65536
  BY DEF U16, Word
<1> QED
  BY <1>1, SMTT(30) DEF PutU32, U32

-----------------------------------------------------------------------------
(* The parts of a frame. *)

(* An octet in front. *)
LEMMA OneMore ==
    ASSUME NEW x \in Octet, NEW c \in Seq(Octet)
    PROVE  /\ <<x>> \o c \in Seq(Octet) /\ Len(<<x>> \o c) = 1 + Len(c)
           /\ (<<x>> \o c)[1] = x /\ \A i \in 1..Len(c) : (<<x>> \o c)[i + 1] = c[i]
<1> DEFINE a == <<x>>  s == a \o c
<1>0. a \in Seq(Octet) /\ Len(a) = 1 /\ a[1] = x /\ Len(c) \in Nat
  OBVIOUS
<1> HIDE DEF a
<1>1. /\ s \in Seq(Octet) /\ Len(s) = Len(a) + Len(c)
      /\ \A i \in 1..(Len(a) + Len(c)) : s[i] = IF i <= Len(a) THEN a[i] ELSE c[i - Len(a)]
  BY <1>0, ConcatProperties, ZenonT(30)
<1> HIDE DEF s
<1>2. Len(s) = 1 + Len(c) /\ s[1] = x /\ \A i \in 1..Len(c) : s[i + 1] = c[i]
  BY <1>0, <1>1
<1> QED
  BY <1>1, <1>2, SMTT(30) DEF s, a

(* The opcode and the flow id, and what follows them. *)
LEMMA Header ==
    ASSUME NEW x \in Octet, NEW id \in U32, NEW p \in Seq(Octet)
    PROVE  LET b == <<x>> \o PutU32(id) \o p IN
           /\ b \in Seq(Octet) /\ Len(b) = 5 + Len(p) /\ b[1] = x /\ GetU32(b, 2) = id /\ From(b, 6) = p
<1> DEFINE q == PutU32(id)  h == <<x>> \o q  b == h \o p
<1>1. q \in Seq(Octet) /\ Len(q) = 4 /\ GetU32(q, 1) = id
  BY Put32, SMTT(30)
<1> HIDE DEF q
<1>2. /\ h \in Seq(Octet) /\ Len(h) = 5 /\ h[1] = x
      /\ h[2] = q[1] /\ h[3] = q[2] /\ h[4] = q[3] /\ h[5] = q[4]
  <2>1. /\ h \in Seq(Octet) /\ Len(h) = 1 + Len(q) /\ h[1] = x
        /\ \A i \in 1..Len(q) : h[i + 1] = q[i]
    BY <1>1, OneMore, ZenonT(30)
  <2> HIDE DEF h
  <2> QED
    BY <1>1, <2>1, SMTT(30)
<1> HIDE DEF h
<1>3. /\ b \in Seq(Octet) /\ Len(b) = Len(h) + Len(p) /\ \A i \in 1..Len(h) : b[i] = h[i]
      /\ From(b, Len(h) + 1) = p
  BY <1>2, Apart, ZenonT(30)
<1> HIDE DEF b
<1>4. b[1] = x /\ GetU32(b, 2) = GetU32(q, 1) /\ From(b, 6) = p /\ Len(b) = 5 + Len(p)
  BY <1>2, <1>3, Gets, SMTT(30)
<1> QED
  BY <1>1, <1>3, <1>4, ZenonT(30) DEF b, h, q

(* An octet and a port, and what follows them. *)
LEMMA Third ==
    ASSUME NEW x \in Octet, NEW port \in U16, NEW p \in Seq(Octet)
    PROVE  LET b == <<x>> \o PutU16(port) \o p IN
           /\ b \in Seq(Octet) /\ Len(b) = 3 + Len(p) /\ b[1] = x /\ GetU16(b, 2) = port /\ From(b, 4) = p
           /\ <<x>> \o PutU16(port) \in Seq(Octet) /\ Len(<<x>> \o PutU16(port)) = 3
<1> DEFINE q == PutU16(port)  h == <<x>> \o q  b == h \o p
<1>1. q \in Seq(Octet) /\ Len(q) = 2 /\ Half(q[1], q[2]) = port
  BY Put16, SMTT(30)
<1> HIDE DEF q
<1>2. h \in Seq(Octet) /\ Len(h) = 3 /\ h[1] = x /\ h[2] = q[1] /\ h[3] = q[2]
  <2>1. /\ h \in Seq(Octet) /\ Len(h) = 1 + Len(q) /\ h[1] = x
        /\ \A i \in 1..Len(q) : h[i + 1] = q[i]
    BY <1>1, OneMore, ZenonT(30)
  <2> HIDE DEF h
  <2> QED
    BY <1>1, <2>1, SMTT(30)
<1> HIDE DEF h
<1>3. /\ b \in Seq(Octet) /\ Len(b) = Len(h) + Len(p) /\ \A i \in 1..Len(h) : b[i] = h[i]
      /\ From(b, Len(h) + 1) = p
  BY <1>2, Apart, ZenonT(30)
<1> HIDE DEF b
<1>4. b[1] = x /\ GetU16(b, 2) = Half(q[1], q[2]) /\ From(b, 4) = p /\ Len(b) = 3 + Len(p)
  <2>1. GetU16(b, 2) = Half(b[2], b[3])
    BY Gets, SMTT(30)
  <2> QED
    BY <1>2, <1>3, <2>1
<1> QED
  BY <1>1, <1>2, <1>3, <1>4, ZenonT(30) DEF b, h, q

(* A number and a port, and what follows them. *)
LEMMA Sixth ==
    ASSUME NEW n \in U32, NEW port \in U16, NEW p \in Seq(Octet)
    PROVE  LET b == PutU32(n) \o PutU16(port) \o p IN
           /\ b \in Seq(Octet) /\ Len(b) = 6 + Len(p) /\ GetU32(b, 1) = n /\ GetU16(b, 5) = port
           /\ From(b, 7) = p
<1> DEFINE q == PutU32(n)  r == PutU16(port)  h == q \o r  b == h \o p
<1>1. /\ q \in Seq(Octet) /\ Len(q) = 4 /\ GetU32(q, 1) = n
      /\ r \in Seq(Octet) /\ Len(r) = 2 /\ Half(r[1], r[2]) = port
  BY Put16, Put32, SMTT(30)
<1> HIDE DEF q, r
<1>2. /\ h \in Seq(Octet) /\ Len(h) = 6 /\ h[1] = q[1] /\ h[2] = q[2] /\ h[3] = q[3] /\ h[4] = q[4]
      /\ h[5] = r[1] /\ h[6] = r[2]
  <2>1. /\ h \in Seq(Octet) /\ Len(h) = Len(q) + Len(r)
        /\ \A i \in 1..(Len(q) + Len(r)) : h[i] = IF i <= Len(q) THEN q[i] ELSE r[i - Len(q)]
    BY <1>1, ConcatProperties, ZenonT(30)
  <2> HIDE DEF h
  <2> QED
    BY <1>1, <2>1, SMTT(30)
<1> HIDE DEF h
<1>3. /\ b \in Seq(Octet) /\ Len(b) = Len(h) + Len(p) /\ \A i \in 1..Len(h) : b[i] = h[i]
      /\ From(b, Len(h) + 1) = p
  BY <1>2, Apart, ZenonT(30)
<1> HIDE DEF b
<1>4. /\ GetU32(b, 1) = GetU32(q, 1) /\ GetU16(b, 5) = Half(r[1], r[2]) /\ From(b, 7) = p
      /\ Len(b) = 6 + Len(p)
  <2>1. /\ GetU32(b, 1) = Word(Half(b[1], b[2]), Half(b[3], b[4])) /\ GetU16(b, 5) = Half(b[5], b[6])
        /\ GetU32(q, 1) = Word(Half(q[1], q[2]), Half(q[3], q[4]))
    BY Gets, SMTT(30)
  <2> QED
    BY <1>2, <1>3, <2>1, SMTT(30)
<1> QED
  BY <1>1, <1>3, <1>4, SMTT(30) DEF b, h, q, r

-----------------------------------------------------------------------------
(* Encoder and decoder. *)

OpNumber(op) ==
    CASE op = "Connect" -> 0 [] op = "Acknowledge" -> 1 [] op = "Reset" -> 2 [] op = "Finish" -> 3
      [] op = "Push" -> 4 [] op = "Bind" -> 5 [] op = "Datagram" -> 6

LEMMA OpCodeValues ==
    /\ OpCode(0) = "Connect" /\ OpCode(1) = "Acknowledge" /\ OpCode(2) = "Reset" /\ OpCode(3) = "Finish"
    /\ OpCode(4) = "Push" /\ OpCode(5) = "Bind" /\ OpCode(6) = "Datagram"
    /\ \A n \in Nat : n > 6 => OpCode(n) = "InvalidOpCode"
<1>1. Len(OpCodes) = 7
  BY DEF OpCodes
<1>2. \A n \in Nat : OpCode(n) = IF n < 7 THEN OpCodes[n + 1] ELSE "InvalidOpCode"
  BY <1>1, SMTT(30) DEF OpCode
<1>3. /\ OpCodes[1] = "Connect" /\ OpCodes[2] = "Acknowledge" /\ OpCodes[3] = "Reset"
      /\ OpCodes[4] = "Finish" /\ OpCodes[5] = "Push" /\ OpCodes[6] = "Bind" /\ OpCodes[7] = "Datagram"
  BY DEF OpCodes
<1> QED
  BY <1>2, <1>3, SMTT(30)

Ops == {"Connect", "Acknowledge", "Reset", "Finish", "Push", "Bind", "Datagram"}

LEMMA Numbered ==
    ASSUME NEW op \in Ops
    PROVE  /\ (CHOOSE n \in 0..6 : OpCode(n) = op) = OpNumber(op)
           /\ OpNumber(op) \in 0..6 /\ OpCode(OpNumber(op)) = op
<1>1. OpNumber(op) \in 0..6 /\ OpCode(OpNumber(op)) = op
  BY OpCodeValues, SMTT(30) DEF OpNumber, Ops
<1>2. \A n \in 0..6 : n = 0 \/ n = 1 \/ n = 2 \/ n = 3 \/ n = 4 \/ n = 5 \/ n = 6
  OBVIOUS
<1>3. \A n \in 0..6 : OpCode(n) = op => n = OpNumber(op)
  BY <1>2, OpCodeValues, SMTT(30) DEF OpNumber, Ops
<1> QED
  BY <1>1, <1>3, SMTT(30)

(* The first octet and what the decoder makes of it. *)
LEMMA FirstOctet ==
    ASSUME NEW n \in 0..6
    PROVE  /\ n + 16 * PROTOCOL_VERSION_NUMBER \in Octet
           /\ (n + 16 * PROTOCOL_VERSION_NUMBER) \div 16 = PROTOCOL_VERSION_NUMBER
           /\ (n + 16 * PROTOCOL_VERSION_NUMBER) % 16 = n
<1>1. n + 112 \in Octet /\ (n + 112) \div 16 = 7 /\ (n + 112) % 16 = n
  BY DEF Octet
<1>2. 16 * PROTOCOL_VERSION_NUMBER = 112
  BY SMTT(30) DEF PROTOCOL_VERSION_NUMBER
<1> QED
  BY <1>1, <1>2, SMTT(30) DEF PROTOCOL_VERSION_NUMBER

(* Vec::from(&Frame) after the flow id. *)
Payload(f) ==
    CASE f.op = "Connect" -> PutU32(f.num) \o PutU16(f.port) \o f.host
      [] f.op = "Acknowledge" -> PutU32(f.num)
      [] f.op \in {"Reset", "Finish"} -> << >>
      [] f.op = "Push" -> f.data
      [] f.op = "Bind" -> <<IF f.bind = "Stream" THEN 1 ELSE 3>> \o PutU16(f.port) \o f.host
      [] f.op = "Datagram" -> <<Len(f.host)>> \o PutU16(f.port) \o f.host \o f.data

TooLong(f) == f.op = "Datagram" /\ Len(f.host) > 255

LEMMA EncodeForm ==
    ASSUME NEW f, f.op \in Ops, ~TooLong(f)
    PROVE  Encode(f) = <<OpNumber(f.op) + 16 * PROTOCOL_VERSION_NUMBER>> \o PutU32(f.id) \o Payload(f)
BY Numbered, ZenonT(30) DEF Encode, Payload, TooLong

(* What is encoded gets to the match on the opcode as it was. *)
LEMMA DecodeEncode ==
    ASSUME NEW f, f.op \in Ops, f.id \in U32, ~TooLong(f), Payload(f) \in Seq(Octet)
    PROVE  /\ Encode(f) \in Seq(Octet) /\ Len(Encode(f)) = 5 + Len(Payload(f))
           /\ Decode(Encode(f)) = DecodePayload(f.op, f.id, Payload(f))
<1> DEFINE x == OpNumber(f.op) + 16 * PROTOCOL_VERSION_NUMBER
           b == Encode(f)
<1>1. /\ x \in Octet /\ x \div 16 = PROTOCOL_VERSION_NUMBER /\ x % 16 = OpNumber(f.op)
      /\ OpCode(OpNumber(f.op)) = f.op
  BY Numbered, FirstOctet, ZenonT(30)
<1> HIDE DEF x
<1>2. b = <<x>> \o PutU32(f.id) \o Payload(f)
  BY EncodeForm, ZenonT(30) DEF x
<1> HIDE DEF b
<1>3. /\ b \in Seq(Octet) /\ Len(b) = 5 + Len(Payload(f)) /\ b[1] = x /\ GetU32(b, 2) = f.id
      /\ From(b, 6) = Payload(f)
  BY <1>1, <1>2, Header, SMTT(30)
<1>4. HasRemaining(b, 5)
  BY <1>3, SMTT(30) DEF HasRemaining
<1>5. f.op # "InvalidOpCode"
  BY SMTT(30) DEF Ops
<1>6. Decode(b) = DecodePayload(f.op, f.id, Payload(f))
  BY <1>1, <1>3, <1>4, <1>5, SMTT(30) DEF Decode
<1> QED
  BY <1>3, <1>6 DEF b

(* The match on the opcode, one kind of frame after the other. *)
LEMMA ConnectBack ==
    ASSUME NEW host \in Seq(Octet), NEW port \in U16, NEW id \in U32, NEW n \in U32
    PROVE  LET f == Connect(host, port, id, n) IN
           /\ f.op = "Connect" /\ f.id = id /\ Payload(f) \in Seq(Octet) /\ Len(Payload(f)) = PayloadLen(f)
           /\ DecodePayload(f.op, f.id, Payload(f)) = Ok(f)
<1> DEFINE f == Connect(host, port, id, n)  b == PutU32(n) \o PutU16(port) \o host
<1>1. f.op = "Connect" /\ f.id = id /\ f.num = n /\ f.port = port /\ f.host = host
  BY DEF Connect, Reset
<1>2. /\ b \in Seq(Octet) /\ Len(b) = 6 + Len(host) /\ GetU32(b, 1) = n /\ GetU16(b, 5) = port
      /\ From(b, 7) = host
  BY Sixth, SMTT(30)
<1> HIDE DEF b
<1>3. Payload(f) = b /\ PayloadLen(f) = 6 + Len(host)
  BY <1>1, SMTT(30) DEF Payload, PayloadLen, b
<1>4. HasRemaining(b, 6)
  BY <1>2, SMTT(30) DEF HasRemaining
<1>5. DecodePayload("Connect", id, b) = Ok(f)
  BY <1>2, <1>4, SMTT(30) DEF DecodePayload
<1> QED
  BY <1>1, <1>2, <1>3, <1>5, SMTT(30)

LEMMA AcknowledgeBack ==
    ASSUME NEW id \in U32, NEW n \in U32
    PROVE  LET f == Acknowledge(id, n) IN
           /\ f.op = "Acknowledge" /\ f.id = id /\ Payload(f) \in Seq(Octet)
           /\ Len(Payload(f)) = PayloadLen(f) /\ DecodePayload(f.op, f.id, Payload(f)) = Ok(f)
<1> DEFINE f == Acknowledge(id, n)  b == PutU32(n)
<1>1. f.op = "Acknowledge" /\ f.id = id /\ f.num = n
  BY DEF Acknowledge, Reset
<1>2. b \in Seq(Octet) /\ Len(b) = 4 /\ GetU32(b, 1) = n
  BY Put32, SMTT(30)
<1> HIDE DEF b
<1>3. Payload(f) = b /\ PayloadLen(f) = 4
  BY <1>1, SMTT(30) DEF Payload, PayloadLen, b
<1>4. DecodePayload("Acknowledge", id, b) = Ok(f)
  BY <1>2, SMTT(30) DEF DecodePayload, HasRemaining
<1> QED
  BY <1>1, <1>2, <1>3, <1>4, SMTT(30)

LEMMA PlainBack ==
    ASSUME NEW id \in U32, NEW f \in {Reset(id), Finish(id)}
    PROVE  /\ f.op \in {"Reset", "Finish"} /\ f.id = id /\ Payload(f) = << >> /\ PayloadLen(f) = 0
           /\ DecodePayload(f.op, f.id, Payload(f)) = Ok(f)
<1>1. CASE f = Reset(id)
  <2>1. f.op = "Reset" /\ f.id = id
    BY <1>1, SMTT(30) DEF Reset
  <2>2. DecodePayload("Reset", id, << >>) = Ok(f)
    BY <1>1, SMTT(30) DEF DecodePayload
  <2> QED
    BY <2>1, <2>2, SMTT(30) DEF Payload, PayloadLen
<1>2. CASE f = Finish(id)
  <2>1. f.op = "Finish" /\ f.id = id
    BY <1>2, SMTT(30) DEF Finish, Reset
  <2>2. DecodePayload("Finish", id, << >>) = Ok(f)
    BY <1>2, SMTT(30) DEF DecodePayload
  <2> QED
    BY <2>1, <2>2, SMTT(30) DEF Payload, PayloadLen
<1> QED
  BY <1>1, <1>2, SMTT(30)

LEMMA PushBack ==
    ASSUME NEW id \in U32, NEW d \in Seq(Octet)
    PROVE  LET f == Push(id, d) IN
           /\ f.op = "Push" /\ f.id = id /\ Payload(f) = d /\ PayloadLen(f) = Len(d)
           /\ DecodePayload(f.op, f.id, Payload(f)) = Ok(f)
<1> DEFINE f == Push(id, d)
<1>1. f.op = "Push" /\ f.id = id /\ f.data = d
  BY DEF Push, Reset
<1>2. DecodePayload("Push", id, d) = Ok(f)
  BY SMTT(30) DEF DecodePayload
<1> QED
  BY <1>1, <1>2, SMTT(30) DEF Payload, PayloadLen

LEMMA BindBack ==
    ASSUME NEW id \in U32, NEW t \in {"Stream", "Datagram"}, NEW host \in Seq(Octet), NEW port \in U16
    PROVE  LET f == Bind(id, t, host, port) IN
           /\ f.op = "Bind" /\ f.id = id /\ Payload(f) \in Seq(Octet) /\ Len(Payload(f)) = PayloadLen(f)
           /\ DecodePayload(f.op, f.id, Payload(f)) = Ok(f)
<1> DEFINE f == Bind(id, t, host, port)  x == IF t = "Stream" THEN 1 ELSE 3
           b == <<x>> \o PutU16(port) \o host
<1>1. f.op = "Bind" /\ f.id = id /\ f.bind = t /\ f.port = port /\ f.host = host
  BY DEF Bind, Reset
<1>2. x \in Octet /\ BindType(x) = t
  BY DEF Octet, BindType
<1>x. Payload(f) = b /\ PayloadLen(f) = 3 + Len(host)
  BY <1>1, SMTT(30) DEF Payload, PayloadLen
<1> HIDE DEF x
<1>3. b \in Seq(Octet) /\ Len(b) = 3 + Len(host) /\ b[1] = x /\ GetU16(b, 2) = port /\ From(b, 4) = host
  BY <1>2, Third, SMTT(30)
<1> HIDE DEF b
<1>4. HasRemaining(b, 3) /\ BindType(b[1]) # "InvalidBindType"
  BY <1>2, <1>3, SMTT(30) DEF HasRemaining
<1>5. DecodePayload("Bind", id, b) = Ok(f)
  BY <1>2, <1>3, <1>4, SMTT(30) DEF DecodePayload
<1> QED
  BY <1>1, <1>x, <1>3, <1>5, SMTT(30)

(* frame.rs:488 asks for four octets too many. *)
LEMMA DatagramBack ==
    ASSUME NEW id \in U32, NEW host \in Seq(Octet), Len(host) <= 255, NEW port \in U16, NEW d \in Seq(Octet)
    PROVE  LET f == Datagram(id, host, port, d) IN
           /\ f.op = "Datagram" /\ f.id = id /\ Payload(f) \in Seq(Octet) /\ Len(Payload(f)) = PayloadLen(f)
           /\ DecodePayload(f.op, f.id, Payload(f)) = IF Len(d) < 4 THEN Err("FrameTooShort") ELSE Ok(f)
<1> DEFINE f == Datagram(id, host, port, d)  x == Len(host)
           h == <<x>> \o PutU16(port)  p == host \o d  b == h \o p
<1>1. f.op = "Datagram" /\ f.id = id /\ f.port = port /\ f.host = host /\ f.data = d
  BY DEF Datagram, Reset
<1>2. x \in Octet /\ x \in Nat /\ Len(d) \in Nat
  BY DEF Octet
<1>3. /\ p \in Seq(Octet) /\ Len(p) = x + Len(d) /\ SubSeq(p, 1, x) = host /\ From(p, x + 1) = d
  BY Apart, SMTT(30)
<1> HIDE DEF p
<1>4. /\ b \in Seq(Octet) /\ Len(b) = 3 + Len(p) /\ b[1] = x /\ GetU16(b, 2) = port /\ From(b, 4) = p
      /\ h \in Seq(Octet) /\ Len(h) = 3
  BY <1>2, <1>3, Third, ZenonT(30)
<1> HIDE DEF h
<1>a. (h \o host) \o d = h \o (host \o d)
  <2>1. h \in Seq(Octet)
    BY <1>4, SMTT(30)
  <2> QED
    BY <2>1, ConcatAssociative, SMTT(30)
<1>5. b = (h \o host) \o d
  BY <1>a, SMTT(30) DEF p
<1>6. Payload(f) = b /\ PayloadLen(f) = 3 + x + Len(d)
  BY <1>1, <1>5, ZenonT(30) DEF Payload, PayloadLen, h
<1>7. \A i \in 1..(Len(b) - 3) : p[i] = b[3 + i]
  BY <1>4 DEF From
<1> HIDE DEF b
<1>8. Octets(b, 4, x) = host
  <2>1. \A i \in 4..(3 + x) : b[i] \in Octet
    BY <1>2, <1>3, <1>4, SMTT(30)
  <2>2. /\ SubSeq(b, 4, 3 + x) \in Seq(Octet) /\ Len(SubSeq(b, 4, 3 + x)) = x
        /\ \A i \in 1..x : SubSeq(b, 4, 3 + x)[i] = b[3 + i]
    BY <1>2, <2>1, SMTT(30)
  <2>3. \A i \in 1..x : host[i] = p[i]
    BY <1>2, <1>3, SMTT(30)
  <2> DEFINE m == SubSeq(b, 4, 3 + x)
  <2>5. m \in Seq(Octet) /\ Len(m) = Len(host)
    BY <2>2, SMTT(30)
  <2>6. \A i \in 1..x : i \in 1..(Len(b) - 3)
    BY <1>2, <1>3, <1>4, SMTT(30)
  <2>7. \A i \in 1..Len(m) : m[i] = host[i]
    BY <1>7, <2>2, <2>3, <2>6, SMTT(30)
  <2> HIDE DEF m
  <2>8. m = host
    BY <2>5, <2>7, SeqEqual, SMTT(30)
  <2>4. SubSeq(b, 4, 3 + x) = host
    BY <2>8, SMTT(30) DEF m
  <2> QED
    BY <1>2, <2>4, SMTT(30) DEF Octets
<1>9. From(b, 4 + x) = d
  <2>1. /\ From(b, 4 + x) \in Seq(Octet) /\ Len(From(b, 4 + x)) = Len(d)
        /\ \A i \in 1..Len(d) : From(b, 4 + x)[i] = b[3 + (x + i)]
    BY <1>2, <1>3, <1>4, SMTT(30) DEF From
  <2>2. \A i \in 1..Len(d) : d[i] = p[x + i]
    <3>1. d = SubSeq(p, x + 1, Len(p))
      BY <1>3, ZenonT(30) DEF From
    <3>2. \A i \in 1..Len(d) : SubSeq(p, x + 1, Len(p))[i] = p[x + i]
      BY <1>2, <1>3, SMTT(30)
    <3> QED
      BY <3>1, <3>2, ZenonT(30)
  <2> DEFINE m == From(b, 4 + x)
  <2>3. m \in Seq(Octet) /\ Len(m) = Len(d)
    BY <2>1, SMTT(30)
  <2>4. \A i \in 1..Len(d) : x + i \in 1..(Len(b) - 3)
    BY <1>2, <1>3, <1>4, SMTT(30)
  <2>5. \A i \in 1..Len(m) : m[i] = d[i]
    BY <1>7, <2>1, <2>2, <2>4, SMTT(30)
  <2> HIDE DEF m
  <2>6. m = d
    BY <2>3, <2>5, SeqEqual, SMTT(30)
  <2> QED
    BY <2>6, SMTT(30) DEF m
<1>10. (~HasRemaining(b, 7) \/ ~HasRemaining(Tail(b), b[1] + 6)) <=> Len(d) < 4
  <2>1. b # << >> /\ Len(Tail(b)) = Len(b) - 1
    BY <1>2, <1>3, <1>4, SMTT(30)
  <2> QED
    BY <1>2, <1>3, <1>4, <2>1, SMTT(30) DEF HasRemaining
<1>11. DecodePayload("Datagram", id, b) = IF Len(d) < 4 THEN Err("FrameTooShort") ELSE Ok(f)
  BY <1>4, <1>8, <1>9, <1>10, SMTT(30) DEF DecodePayload
<1> QED
  BY <1>1, <1>2, <1>3, <1>4, <1>6, <1>11, SMTT(30)

(* A frame from a user of the multiplexor, encoded and decoded. *)
LEMMA RoundTrip ==
    ASSUME NEW f \in Frames
    PROVE  IF f.op = "Datagram" /\ Len(f.host) > 255 THEN Encode(f) = Panic
           ELSE /\ Encode(f) \in Seq(Octet) /\ Len(Encode(f)) = 5 + PayloadLen(f)
                /\ Decode(Encode(f)) = IF f.op = "Datagram" /\ Len(f.data) < 4
                                         THEN Err("FrameTooShort") ELSE Ok(f)
<1> USE DEF TooLong
<1>t. /\ Ids \subseteq U32 /\ Nums \subseteq U32 /\ Ports \subseteq U16
      /\ Hosts \subseteq Seq(Octet) /\ Payloads \subseteq Seq(Octet)
  BY FrameAssumption, SMTT(30) DEF U16, U32
<1> DEFINE Goal == IF f.op = "Datagram" /\ Len(f.host) > 255 THEN Encode(f) = Panic
                   ELSE /\ Encode(f) \in Seq(Octet) /\ Len(Encode(f)) = 5 + PayloadLen(f)
                        /\ Decode(Encode(f)) = IF f.op = "Datagram" /\ Len(f.data) < 4
                                                 THEN Err("FrameTooShort") ELSE Ok(f)
<1>0. ASSUME f.op \in Ops \ {"Datagram"}, f.id \in U32, Payload(f) \in Seq(Octet),
             Len(Payload(f)) = PayloadLen(f), DecodePayload(f.op, f.id, Payload(f)) = Ok(f)
      PROVE  Goal
  BY <1>0, DecodeEncode, SMTT(30)
<1>1. ASSUME NEW id \in Ids, f \in {Reset(id), Finish(id)} PROVE Goal
  <2>1. /\ f.op \in {"Reset", "Finish"} /\ f.id = id /\ Payload(f) = << >> /\ PayloadLen(f) = 0
        /\ DecodePayload(f.op, f.id, Payload(f)) = Ok(f)
    BY <1>t, <1>1, PlainBack, SMTT(30)
  <2>2. << >> \in Seq(Octet) /\ Len(<< >>) = 0
    OBVIOUS
  <2> HIDE DEF Goal
  <2> QED
    BY <1>0, <1>t, <2>1, <2>2, SMTT(30) DEF Ops
<1>2. ASSUME NEW id \in Ids, NEW n \in Nums, f = Acknowledge(id, n) PROVE Goal
  <2> HIDE DEF Goal
  <2> QED
    BY <1>0, <1>t, <1>2, AcknowledgeBack, SMTT(30) DEF Ops
<1>3. ASSUME NEW h \in Hosts, NEW p \in Ports, NEW id \in Ids, NEW n \in Nums, f = Connect(h, p, id, n)
      PROVE  Goal
  <2>1. /\ f.op = "Connect" /\ f.id = id /\ Payload(f) \in Seq(Octet) /\ Len(Payload(f)) = PayloadLen(f)
        /\ DecodePayload(f.op, f.id, Payload(f)) = Ok(f)
    BY <1>t, <1>3, ConnectBack, ZenonT(30)
  <2> HIDE DEF Goal
  <2> QED
    BY <1>0, <1>t, <2>1, SMTT(30) DEF Ops
<1>4. ASSUME NEW id \in Ids, NEW d \in Payloads, f = Push(id, d) PROVE Goal
  <2> HIDE DEF Goal
  <2> QED
    BY <1>0, <1>t, <1>4, PushBack, SMTT(30) DEF Ops
<1>5. ASSUME NEW id \in Ids, NEW b \in {"Stream", "Datagram"}, NEW h \in Hosts, NEW p \in Ports,
             f = Bind(id, b, h, p)
      PROVE  Goal
  <2>1. /\ f.op = "Bind" /\ f.id = id /\ Payload(f) \in Seq(Octet) /\ Len(Payload(f)) = PayloadLen(f)
        /\ DecodePayload(f.op, f.id, Payload(f)) = Ok(f)
    BY <1>t, <1>5, BindBack, SMTT(30)
  <2> HIDE DEF Goal
  <2> QED
    BY <1>0, <1>t, <2>1, SMTT(30) DEF Ops
<1>6. ASSUME NEW id \in Ids, NEW h \in Hosts, NEW p \in Ports, NEW d \in Payloads,
             f = Datagram(id, h, p, d)
      PROVE  Goal
  <2>1. f.op = "Datagram" /\ f.host = h /\ f.data = d
    BY <1>6, SMTT(30) DEF Datagram, Reset
  <2>2. CASE Len(h) > 255
    BY <2>1, <2>2, SMTT(30) DEF Encode
  <2>3. CASE ~(Len(h) > 255)
    <3>1. Len(h) <= 255
      BY <1>t, <2>3, SMTT(30)
    <3>2. /\ f.id = id /\ Payload(f) \in Seq(Octet) /\ Len(Payload(f)) = PayloadLen(f)
          /\ DecodePayload(f.op, f.id, Payload(f)) = IF Len(d) < 4 THEN Err("FrameTooShort") ELSE Ok(f)
      BY <1>t, <1>6, <3>1, DatagramBack, SMTT(30)
    <3>3. f.op \in Ops /\ f.id \in U32 /\ ~TooLong(f)
      BY <1>t, <2>1, <2>3, <3>2, SMTT(30) DEF Ops
    <3> HIDE DEF TooLong
    <3>4. /\ Encode(f) \in Seq(Octet) /\ Len(Encode(f)) = 5 + Len(Payload(f))
          /\ Decode(Encode(f)) = DecodePayload(f.op, f.id, Payload(f))
      BY <3>2, <3>3, DecodeEncode, SMTT(30)
    <3> QED
      BY <2>1, <2>3, <3>2, <3>4, SMTT(30)
  <2> QED
    BY <2>2, <2>3, SMTT(30)
<1> HIDE DEF Goal
<1>7. Goal
  BY <1>1, <1>2, <1>3, <1>4, <1>5, <1>6, SMTT(30) DEF Frames
<1> QED
  BY <1>7, SMTT(30) DEF Goal

Spells(s, a, c, d, e) ==
    s \in Seq(Octet) /\ Len(s) = 4 /\ s[1] = a /\ s[2] = c /\ s[3] = d /\ s[4] = e

(* Four octets are what put_u32 writes for the number they are. *)
LEMMA Number ==
    ASSUME NEW a \in Octet, NEW c \in Octet, NEW d \in Octet, NEW e \in Octet
    PROVE  LET n == Word(Half(a, c), Half(d, e)) IN
           n \in U32 /\ Spells(PutU32(n), a, c, d, e)
<1> DEFINE x == Half(a, c)  y == Half(d, e)
<1>1. /\ x \in U16 /\ PutU16(x) \in Seq(Octet) /\ Len(PutU16(x)) = 2 /\ PutU16(x)[1] = a /\ PutU16(x)[2] = c
  BY Get16, SMTT(30)
<1>2. /\ y \in U16 /\ PutU16(y) \in Seq(Octet) /\ Len(PutU16(y)) = 2 /\ PutU16(y)[1] = d /\ PutU16(y)[2] = e
  BY Get16, SMTT(30)
<1> HIDE DEF x, y
<1>3. Word(x, y) \in U32 /\ PutU32(Word(x, y)) = PutU16(x) \o PutU16(y)
  BY <1>1, <1>2, Get32, ZenonT(30)
<1> DEFINE p == PutU16(x)  q == PutU16(y)
<1> HIDE DEF p, q
<1>4. /\ p \in Seq(Octet) /\ Len(p) = 2 /\ p[1] = a /\ p[2] = c
      /\ q \in Seq(Octet) /\ Len(q) = 2 /\ q[1] = d /\ q[2] = e
  BY <1>1, <1>2 DEF p, q
<1>5. /\ p \o q \in Seq(Octet) /\ Len(p \o q) = 4
      /\ (p \o q)[1] = a /\ (p \o q)[2] = c /\ (p \o q)[3] = d /\ (p \o q)[4] = e
  BY <1>4, Four, SMTT(30)
<1> QED
  BY <1>3, <1>5, ZenonT(30) DEF p, q, x, y, Spells

(* The header of what arrives, put together again. *)
LEMMA HeaderBack ==
    ASSUME NEW b \in Seq(Octet), Len(b) >= 5
    PROVE  /\ b[1] \in Octet /\ GetU32(b, 2) \in U32 /\ From(b, 6) \in Seq(Octet)
           /\ b = <<b[1]>> \o PutU32(GetU32(b, 2)) \o From(b, 6)
<1>0. \A i \in 1..5 : b[i] \in Octet
  OBVIOUS
<1>1. b[1] \in Octet /\ b[2] \in Octet /\ b[3] \in Octet /\ b[4] \in Octet /\ b[5] \in Octet
  BY <1>0, SMTT(30)
<1> DEFINE n == Word(Half(b[2], b[3]), Half(b[4], b[5]))
           q == PutU32(n)  h == <<b[1]>> \o q  s == SubSeq(b, 1, 5)
<1>2. /\ n \in U32 /\ q \in Seq(Octet) /\ Len(q) = 4
      /\ q[1] = b[2] /\ q[2] = b[3] /\ q[3] = b[4] /\ q[4] = b[5]
  <2>1. n \in U32 /\ Spells(PutU32(n), b[2], b[3], b[4], b[5])
    BY <1>1, Number, ZenonT(30)
  <2> QED
    BY <2>1, ZenonT(30) DEF Spells
<1>3. GetU32(b, 2) = n
  BY Gets, SMTT(30)
<1> HIDE DEF q, n
<1>4. h \in Seq(Octet) /\ Len(h) = 1 + Len(q) /\ h[1] = b[1] /\ \A i \in 1..Len(q) : h[i + 1] = q[i]
  BY <1>1, <1>2, OneMore, ZenonT(30)
<1> HIDE DEF h
<1>5. Len(h) = 5 /\ h[1] = b[1] /\ h[2] = b[2] /\ h[3] = b[3] /\ h[4] = b[4] /\ h[5] = b[5]
  BY <1>2, <1>4, SMTT(30)
<1>6. 5 \in 0..Len(b)
  OBVIOUS
<1>7. /\ s \o From(b, 5 + 1) = b /\ From(b, 5 + 1) \in Seq(Octet) /\ s \in Seq(Octet) /\ Len(s) = 5
  BY <1>6, Together, ZenonT(30)
<1>8. \A i \in 1..5 : s[i] = b[i]
  OBVIOUS
<1>9. 5 + 1 = 6
  BY SMTT(30)
<1> HIDE DEF s
<1>10. \A i \in 1..5 : s[i] = h[i]
  BY <1>5, <1>8, SMTT(30)
<1>11. s = h
  BY <1>4, <1>5, <1>7, <1>10, SeqEqual, ZenonT(30)
<1>12. h \o From(b, 6) = b /\ From(b, 6) \in Seq(Octet)
  BY <1>7, <1>9, <1>11, SMTT(30)
<1> QED
  BY <1>1, <1>2, <1>3, <1>12, ZenonT(30) DEF h, q

(* An octet and a port of what arrives, put together again. *)
LEMMA ThirdBack ==
    ASSUME NEW b \in Seq(Octet), Len(b) >= 3
    PROVE  /\ b[1] \in Octet /\ GetU16(b, 2) \in U16 /\ From(b, 4) \in Seq(Octet)
           /\ b = <<b[1]>> \o PutU16(GetU16(b, 2)) \o From(b, 4)
           /\ <<b[1]>> \o PutU16(GetU16(b, 2)) \in Seq(Octet)
<1>0. \A i \in 1..3 : b[i] \in Octet
  OBVIOUS
<1>1. b[1] \in Octet /\ b[2] \in Octet /\ b[3] \in Octet
  BY <1>0, SMTT(30)
<1> DEFINE n == Half(b[2], b[3])  q == PutU16(n)  h == <<b[1]>> \o q  s == SubSeq(b, 1, 3)
<1>2. n \in U16 /\ q \in Seq(Octet) /\ Len(q) = 2 /\ q[1] = b[2] /\ q[2] = b[3]
  BY <1>1, Get16, ZenonT(30)
<1>3. GetU16(b, 2) = n
  BY Gets, SMTT(30)
<1> HIDE DEF q, n
<1>4. h \in Seq(Octet) /\ Len(h) = 1 + Len(q) /\ h[1] = b[1] /\ \A i \in 1..Len(q) : h[i + 1] = q[i]
  BY <1>1, <1>2, OneMore, ZenonT(30)
<1> HIDE DEF h
<1>5. Len(h) = 3 /\ h[1] = b[1] /\ h[2] = b[2] /\ h[3] = b[3]
  BY <1>2, <1>4
<1>6. 3 \in 0..Len(b)
  OBVIOUS
<1>7. /\ s \o From(b, 3 + 1) = b /\ From(b, 3 + 1) \in Seq(Octet) /\ s \in Seq(Octet) /\ Len(s) = 3
  BY <1>6, Together, ZenonT(30)
<1>8. \A i \in 1..3 : s[i] = b[i]
  OBVIOUS
<1>9. 3 + 1 = 4
  OBVIOUS
<1> HIDE DEF s
<1>10. \A i \in 1..3 : s[i] = h[i]
  BY <1>5, <1>8, SMTT(30)
<1>11. s = h
  BY <1>4, <1>5, <1>7, <1>10, SeqEqual, ZenonT(30)
<1>12. h \o From(b, 4) = b /\ From(b, 4) \in Seq(Octet)
  BY <1>7, <1>9, <1>11, ZenonT(30)
<1> QED
  BY <1>1, <1>2, <1>3, <1>4, <1>12, ZenonT(30) DEF h, q

(* A number of what arrives, put together again. *)
LEMMA FourthBack ==
    ASSUME NEW b \in Seq(Octet), Len(b) >= 4
    PROVE  /\ GetU32(b, 1) \in U32 /\ From(b, 5) \in Seq(Octet) /\ Len(From(b, 5)) = Len(b) - 4
           /\ \A i \in 1..(Len(b) - 4) : From(b, 5)[i] = b[4 + i]
           /\ PutU32(GetU32(b, 1)) \in Seq(Octet) /\ b = PutU32(GetU32(b, 1)) \o From(b, 5)
<1>0. \A i \in 1..4 : b[i] \in Octet
  BY SMTT(30)
<1>1. b[1] \in Octet /\ b[2] \in Octet /\ b[3] \in Octet /\ b[4] \in Octet
  BY <1>0, SMTT(30)
<1> DEFINE n == Word(Half(b[1], b[2]), Half(b[3], b[4]))  q == PutU32(n)  s == SubSeq(b, 1, 4)
<1>2. n \in U32 /\ Spells(q, b[1], b[2], b[3], b[4])
  BY <1>1, Number, ZenonT(30)
<1>3. GetU32(b, 1) = n
  BY Gets, SMTT(30)
<1> HIDE DEF q, n
<1>5. q \in Seq(Octet) /\ Len(q) = 4 /\ q[1] = b[1] /\ q[2] = b[2] /\ q[3] = b[3] /\ q[4] = b[4]
  BY <1>2, SMTT(30) DEF Spells
<1>6. 4 \in 0..Len(b)
  BY SMTT(30)
<1>7. /\ s \o From(b, 4 + 1) = b /\ From(b, 4 + 1) \in Seq(Octet) /\ s \in Seq(Octet) /\ Len(s) = 4
      /\ Len(From(b, 4 + 1)) = Len(b) - 4 /\ \A i \in 1..(Len(b) - 4) : From(b, 4 + 1)[i] = b[4 + i]
  BY <1>6, Together, ZenonT(30)
<1>8. \A i \in 1..4 : s[i] = b[i]
  BY SMTT(30)
<1>9. 4 + 1 = 5
  BY SMTT(30)
<1> HIDE DEF s
<1>10. \A i \in 1..4 : s[i] = q[i]
  BY <1>5, <1>8, SMTT(30)
<1>11. s = q
  BY <1>5, <1>7, <1>10, SeqEqual, ZenonT(30)
<1>12. /\ q \o From(b, 5) = b /\ From(b, 5) \in Seq(Octet)
       /\ Len(From(b, 5)) = Len(b) - 4 /\ \A i \in 1..(Len(b) - 4) : From(b, 5)[i] = b[4 + i]
  BY <1>7, <1>9, <1>11, SMTT(30)
<1> QED
  BY <1>2, <1>3, <1>5, <1>12, ZenonT(30) DEF q

Assoc(x, y, z) == (x \o y) \o z = x \o (y \o z)

LEMMA Regroup ==
    ASSUME NEW x \in Seq(Octet), NEW y \in Seq(Octet), NEW z \in Seq(Octet)
    PROVE  Assoc(x, y, z)
BY ConcatAssociative, SMTT(30) DEF Assoc

(* A string with the octet that ends it. *)
LEMMA AppendZero == ASSUME NEW g \in Seq(Octet) PROVE Append(g, 0) \in Seq(Octet) /\ Append(g, 0) = g \o << 0 >>
BY SMTT(30) DEF Octet

(* A number and a port of what arrives, put together again. *)
LEMMA SixthBack ==
    ASSUME NEW b \in Seq(Octet), Len(b) >= 6
    PROVE  /\ GetU32(b, 1) \in U32 /\ GetU16(b, 5) \in U16 /\ From(b, 7) \in Seq(Octet)
           /\ b = PutU32(GetU32(b, 1)) \o PutU16(GetU16(b, 5)) \o From(b, 7)
<1> DEFINE n == GetU32(b, 1)  q == PutU32(n)  c == From(b, 5)
           m == Half(b[5], b[6])  r == PutU16(m)  s == SubSeq(c, 1, 2)
<1>0. Len(b) >= 4
  BY SMTT(30)
<1>1. /\ n \in U32 /\ c \in Seq(Octet) /\ Len(c) = Len(b) - 4 /\ q \in Seq(Octet)
      /\ \A i \in 1..(Len(b) - 4) : c[i] = b[4 + i]
      /\ b = q \o c
  BY <1>0, FourthBack, ZenonT(30)
<1>2. \A i \in 1..6 : b[i] \in Octet
  BY SMTT(30)
<1>3. b[5] \in Octet /\ b[6] \in Octet
  BY <1>2, SMTT(30)
<1>4. m \in U16 /\ r \in Seq(Octet) /\ Len(r) = 2 /\ r[1] = b[5] /\ r[2] = b[6]
  BY <1>3, Get16, ZenonT(30)
<1>5. GetU16(b, 5) = m
  BY Gets, SMTT(30)
<1>6. From(b, 7) \in Seq(Octet) /\ Len(From(b, 7)) = Len(b) - 6 /\ \A i \in 1..(Len(b) - 6) : From(b, 7)[i] = b[6 + i]
  <2>1. 6 \in 0..Len(b) /\ 6 + 1 = 7
    BY SMTT(30)
  <2>2. /\ From(b, 6 + 1) \in Seq(Octet) /\ Len(From(b, 6 + 1)) = Len(b) - 6
        /\ \A i \in 1..(Len(b) - 6) : From(b, 6 + 1)[i] = b[6 + i]
    BY <2>1, Together, ZenonT(30)
  <2> QED
    BY <2>1, <2>2, SMTT(30)
<1> HIDE DEF q, n, r, m, c
<1>7. 2 \in 0..Len(c)
  BY <1>1, SMTT(30)
<1>8. /\ s \o From(c, 2 + 1) = c /\ From(c, 2 + 1) \in Seq(Octet) /\ s \in Seq(Octet) /\ Len(s) = 2
      /\ Len(From(c, 2 + 1)) = Len(c) - 2 /\ \A i \in 1..(Len(c) - 2) : From(c, 2 + 1)[i] = c[2 + i]
  BY <1>1, <1>7, Together, ZenonT(30)
<1>9. \A i \in 1..2 : s[i] = c[i]
  BY <1>1, <1>7, SMTT(30)
<1> HIDE DEF s
<1>10. \A i \in 1..2 : s[i] = r[i]
  <2>1. c[1] = b[5] /\ c[2] = b[6]
    BY <1>1, SMTT(30)
  <2> QED
    BY <1>4, <1>9, <2>1, SMTT(30)
<1>11. s = r
  BY <1>4, <1>8, <1>10, SeqEqual, ZenonT(30)
<1>12. From(c, 2 + 1) = From(b, 7)
  <2> DEFINE u == From(c, 2 + 1)  v == From(b, 7)
  <2>1. u \in Seq(Octet) /\ v \in Seq(Octet) /\ Len(u) = Len(v)
    BY <1>1, <1>6, <1>8, SMTT(30)
  <2>a. \A i \in 1..Len(u) : i \in 1..(Len(c) - 2) /\ i \in 1..(Len(b) - 6) /\ 4 + (2 + i) = 6 + i
    BY <1>1, <1>8, SMTT(30)
  <2>b. \A i \in 1..Len(u) : c[2 + i] = b[4 + (2 + i)]
    BY <1>1, <1>8, SMTT(30)
  <2>2. \A i \in 1..Len(u) : u[i] = c[2 + i] /\ v[i] = b[6 + i] /\ c[2 + i] = b[4 + (2 + i)] /\ 4 + (2 + i) = 6 + i
    BY <1>6, <1>8, <2>a, <2>b, ZenonT(30)
  <2>3. \A i \in 1..Len(u) : u[i] = v[i]
    BY <2>2, SMTT(30)
  <2> HIDE DEF u, v
  <2>4. u = v
    BY <2>1, <2>3, SeqEqual, ZenonT(30)
  <2> QED
    BY <2>4, SMTT(30) DEF u, v
<1>13. b = q \o (r \o From(b, 7))
  BY <1>1, <1>8, <1>11, <1>12, ZenonT(30)
<1>14. Assoc(q, r, From(b, 7))
  <2>1. q \in Seq(Octet) /\ r \in Seq(Octet) /\ From(b, 7) \in Seq(Octet)
    BY <1>1, <1>4, <1>6, SMTT(30)
  <2> QED
    BY <2>1, Regroup, SMTT(30)
<1> QED
  BY <1>1, <1>4, <1>5, <1>6, <1>13, <1>14, ZenonT(30) DEF q, n, r, Assoc

Empty == << >>

LEMMA EmptyRest ==
    ASSUME NEW b \in Seq(Octet)
    PROVE  Empty \in Seq(Octet) /\ Empty \o b = b /\ b \o Empty = b
BY ConcatEmptySeq, SMTT(30) DEF Empty

(* The frame is for this flow, it can be encoded, and its payload is what  *)
(* was decoded, all of it where the opcode has a variable part.            *)
Stands(f, op, id, b) ==
    /\ f.op = op /\ f.id = id /\ ~TooLong(f) /\ Payload(f) \in Seq(Octet)
    /\ \E z \in Seq(Octet) : b = Payload(f) \o z
    /\ op \notin {"Acknowledge", "Reset", "Finish"} => Payload(f) = b

LEMMA WholePayload ==
    ASSUME NEW f, NEW b \in Seq(Octet), ~TooLong(f), Payload(f) = b
    PROVE  Stands(f, f.op, f.id, b)
<1>1. \E z \in Seq(Octet) : b = Payload(f) \o z
  BY EmptyRest, ZenonT(30)
<1> QED
  BY <1>1, ZenonT(30) DEF Stands

LEMMA ConnectCanonical ==
    ASSUME NEW id \in U32, NEW b \in Seq(Octet), HasRemaining(b, 6)
    PROVE  Stands(Connect(From(b, 7), GetU16(b, 5), id, GetU32(b, 1)), "Connect", id, b)
<1> DEFINE f == Connect(From(b, 7), GetU16(b, 5), id, GetU32(b, 1))
<1>1. f.op = "Connect" /\ f.id = id /\ f.num = GetU32(b, 1) /\ f.port = GetU16(b, 5) /\ f.host = From(b, 7)
  BY SMTT(30) DEF Connect, Reset
<1>2. Len(b) >= 6
  BY SMTT(30) DEF HasRemaining
<1>3. b = PutU32(GetU32(b, 1)) \o PutU16(GetU16(b, 5)) \o From(b, 7)
  BY <1>2, SixthBack, ZenonT(30)
<1> HIDE DEF f
<1>4. Payload(f) = PutU32(GetU32(b, 1)) \o PutU16(GetU16(b, 5)) \o From(b, 7)
  BY <1>1, ZenonT(30) DEF Payload
<1>5. Stands(f, f.op, f.id, b)
  <2>1. Payload(f) = b /\ ~TooLong(f)
    BY <1>1, <1>3, <1>4, ZenonT(30) DEF TooLong
  <2> QED
    BY <2>1, WholePayload, SMTT(30)
<1> QED
  BY <1>1, <1>5, ZenonT(30) DEF f

LEMMA AcknowledgeCanonical ==
    ASSUME NEW id \in U32, NEW b \in Seq(Octet), HasRemaining(b, 4)
    PROVE  Stands(Acknowledge(id, GetU32(b, 1)), "Acknowledge", id, b)
<1> DEFINE f == Acknowledge(id, GetU32(b, 1))
<1>1. f.op = "Acknowledge" /\ f.id = id /\ f.num = GetU32(b, 1)
  BY ZenonT(30) DEF Acknowledge, Reset
<1>2. Len(b) >= 4
  BY SMTT(30) DEF HasRemaining
<1>3. /\ PutU32(GetU32(b, 1)) \in Seq(Octet) /\ From(b, 5) \in Seq(Octet)
      /\ b = PutU32(GetU32(b, 1)) \o From(b, 5)
  BY <1>2, FourthBack, SMTT(30)
<1>4. Payload(f) = PutU32(GetU32(b, 1)) /\ ~TooLong(f)
  BY <1>1, ZenonT(30) DEF Payload, TooLong
<1> HIDE DEF f
<1> QED
  BY <1>1, <1>3, <1>4, ZenonT(30) DEF Stands, f

LEMMA PlainCanonical ==
    ASSUME NEW id \in U32, NEW b \in Seq(Octet)
    PROVE  Stands(Reset(id), "Reset", id, b) /\ Stands(Finish(id), "Finish", id, b)
<1>1. /\ Reset(id).op = "Reset" /\ Reset(id).id = id /\ Finish(id).op = "Finish" /\ Finish(id).id = id
  BY SMTT(30) DEF Reset, Finish
<1>2. Payload(Reset(id)) = Empty /\ Payload(Finish(id)) = Empty /\ ~TooLong(Reset(id)) /\ ~TooLong(Finish(id))
  BY <1>1, ZenonT(30) DEF Payload, Empty, TooLong
<1>3. Empty \in Seq(Octet) /\ \E z \in Seq(Octet) : b = Empty \o z
  BY EmptyRest, ZenonT(30)
<1> QED
  BY <1>1, <1>2, <1>3, ZenonT(30) DEF Stands

LEMMA PushCanonical ==
    ASSUME NEW id \in U32, NEW b \in Seq(Octet)
    PROVE  Stands(Push(id, b), "Push", id, b)
<1>1. Push(id, b).op = "Push" /\ Push(id, b).id = id /\ Push(id, b).data = b
  BY ZenonT(30) DEF Push, Reset
<1>2. Payload(Push(id, b)) = b /\ ~TooLong(Push(id, b))
  BY <1>1, SMTT(30) DEF Payload, TooLong
<1>3. Stands(Push(id, b), Push(id, b).op, Push(id, b).id, b)
  BY <1>2, WholePayload, SMTT(30)
<1> QED
  BY <1>1, <1>3, ZenonT(30)

LEMMA BindCanonical ==
    ASSUME NEW id \in U32, NEW b \in Seq(Octet), HasRemaining(b, 3), BindType(b[1]) # "InvalidBindType"
    PROVE  Stands(Bind(id, BindType(b[1]), From(b, 4), GetU16(b, 2)), "Bind", id, b)
<1> DEFINE f == Bind(id, BindType(b[1]), From(b, 4), GetU16(b, 2))
<1>1. f.op = "Bind" /\ f.id = id /\ f.bind = BindType(b[1]) /\ f.port = GetU16(b, 2) /\ f.host = From(b, 4)
  BY DEF Bind, Reset
<1>2. Len(b) >= 3
  BY SMTT(30) DEF HasRemaining
<1>3. b = <<b[1]>> \o PutU16(GetU16(b, 2)) \o From(b, 4)
  BY <1>2, ThirdBack, ZenonT(30)
<1>4. (IF BindType(b[1]) = "Stream" THEN 1 ELSE 3) = b[1]
  BY DEF BindType
<1> HIDE DEF f
<1>5. Payload(f) = <<b[1]>> \o PutU16(GetU16(b, 2)) \o From(b, 4)
  BY <1>1, <1>4, ZenonT(30) DEF Payload
<1>6. Stands(f, f.op, f.id, b)
  <2>1. Payload(f) = b /\ ~TooLong(f)
    BY <1>1, <1>3, <1>5, ZenonT(30) DEF TooLong
  <2> QED
    BY <2>1, WholePayload, SMTT(30)
<1> QED
  BY <1>1, <1>6, SMTT(30) DEF f

LEMMA DatagramCanonical ==
    ASSUME NEW id \in U32, NEW b \in Seq(Octet), HasRemaining(b, 7), HasRemaining(Tail(b), b[1] + 6)
    PROVE  Stands(Datagram(id, Octets(b, 4, b[1]), GetU16(b, 2), From(b, 4 + b[1])), "Datagram", id, b)
<1> DEFINE x == b[1]  host == Octets(b, 4, x)  d == From(b, 4 + x)
           f == Datagram(id, host, GetU16(b, 2), d)
           h == <<x>> \o PutU16(GetU16(b, 2))  p == From(b, 4)
<1>1. f.op = "Datagram" /\ f.id = id /\ f.port = GetU16(b, 2) /\ f.host = host /\ f.data = d
  BY ZenonT(30) DEF Datagram, Reset
<1>2. Len(b) >= 7 /\ Len(Tail(b)) >= x + 6
  BY DEF HasRemaining
<1>3. Len(b) >= 3 /\ 3 \in 0..Len(b) /\ 3 + 1 = 4
  BY <1>2, SMTT(30)
<1>4. x \in Octet /\ p \in Seq(Octet) /\ h \in Seq(Octet) /\ b = h \o p
  BY <1>3, ThirdBack, ZenonT(30)
<1>5. x \in Nat /\ x <= 255 /\ Len(b) >= x + 7
  <2>1. Len(Tail(b)) = Len(b) - 1 /\ Len(b) \in Nat
    BY <1>2, SMTT(30)
  <2>2. x \in Octet
    BY <1>4, SMTT(30)
  <2>3. x \in Nat /\ x < 256
    BY <2>2, SMTT(30) DEF Octet
  <2> HIDE DEF x
  <2> QED
    BY <1>2, <2>1, <2>3, SMTT(30)
<1>6. Len(p) = Len(b) - 3 /\ \A i \in 1..(Len(b) - 3) : p[i] = b[3 + i]
  <2>1. /\ Len(From(b, 3 + 1)) = Len(b) - 3
        /\ \A i \in 1..(Len(b) - 3) : From(b, 3 + 1)[i] = b[3 + i]
    BY <1>3, Together, SMTT(30)
  <2> QED
    BY <1>3, <2>1, SMTT(30)
<1>7. /\ host \in Seq(Octet) /\ Len(host) = x /\ \A i \in 1..x : host[i] = b[3 + i]
  <2>1. 4 + x - 1 = 3 + x
    BY <1>5, SMTT(30)
  <2>2. \A i \in 4..(3 + x) : b[i] \in Octet
    BY <1>5, SMTT(30)
  <2>3. /\ SubSeq(b, 4, 3 + x) \in Seq(Octet) /\ Len(SubSeq(b, 4, 3 + x)) = x
        /\ \A i \in 1..x : SubSeq(b, 4, 3 + x)[i] = b[3 + i]
    BY <1>5, <2>2, SMTT(30)
  <2> QED
    BY <2>1, <2>3, ZenonT(30) DEF Octets
<1>8. /\ d \in Seq(Octet) /\ Len(d) = Len(b) - (3 + x) /\ \A i \in 1..(Len(b) - (3 + x)) : d[i] = b[(3 + x) + i]
  <2>1. 3 + x \in 0..Len(b) /\ (3 + x) + 1 = 4 + x
    BY <1>5, SMTT(30)
  <2>2. /\ From(b, (3 + x) + 1) \in Seq(Octet) /\ Len(From(b, (3 + x) + 1)) = Len(b) - (3 + x)
        /\ \A i \in 1..(Len(b) - (3 + x)) : From(b, (3 + x) + 1)[i] = b[(3 + x) + i]
    BY <2>1, Together, ZenonT(30)
  <2> QED
    BY <2>1, <2>2, ZenonT(30)
<1> HIDE DEF host, d, p, h, x
<1>9. host \o d = p
  <2> DEFINE s == host \o d
  <2>1. /\ s \in Seq(Octet) /\ Len(s) = Len(host) + Len(d)
        /\ \A i \in 1..(Len(host) + Len(d)) : s[i] = IF i <= Len(host) THEN host[i] ELSE d[i - Len(host)]
    <3>1. host \in Seq(Octet) /\ d \in Seq(Octet)
      BY <1>7, <1>8, SMTT(30)
    <3> QED
      BY <3>1, ConcatProperties, SMTT(30)
  <2> HIDE DEF s
  <2>2. Len(s) = Len(p) /\ Len(b) \in Nat
    BY <1>5, <1>6, <1>7, <1>8, <2>1, SMTT(30)
  <2>3. ASSUME NEW i \in 1..Len(s) PROVE s[i] = p[i]
    <3>1. p[i] = b[3 + i] /\ i \in Nat
      BY <1>6, <2>2, SMTT(30)
    <3>2. CASE i <= x
      BY <1>5, <1>7, <1>8, <2>1, <3>1, <3>2, SMTT(30)
    <3>3. CASE ~(i <= x)
      <4>1. i - x \in 1..(Len(b) - (3 + x)) /\ (3 + x) + (i - x) = 3 + i
        BY <1>5, <1>6, <2>2, <3>1, <3>3, SMTT(30)
      <4>2. d[i - x] = b[3 + i]
        BY <1>8, <4>1, ZenonT(30)
      <4> QED
        BY <1>7, <1>8, <2>1, <3>1, <3>3, <4>2, ZenonT(30)
    <3> QED
      BY <3>2, <3>3, SMTT(30)
  <2>4. s = p
    BY <1>4, <2>1, <2>2, <2>3, SeqEqual, ZenonT(30)
  <2> QED
    BY <2>4, SMTT(30) DEF s
<1>10. Assoc(h, host, d)
  BY <1>4, <1>7, <1>8, Regroup, ZenonT(30)
<1>11. (h \o host) \o d = b
  BY <1>4, <1>9, <1>10, ZenonT(30) DEF Assoc
<1> HIDE DEF f
<1>12. Payload(f) = <<Len(f.host)>> \o PutU16(f.port) \o f.host \o f.data
  BY <1>1, ZenonT(30) DEF Payload
<1>13. Payload(f) = b
  BY <1>1, <1>7, <1>11, <1>12, ZenonT(30) DEF h
<1>14. ~TooLong(f)
  BY <1>1, <1>5, <1>7, SMTT(30) DEF TooLong
<1>15. Stands(f, f.op, f.id, b)
  BY <1>13, <1>14, WholePayload, ZenonT(30)
<1> QED
  BY <1>1, <1>15, ZenonT(30) DEF f, host, d, x

(* Every arm of the match on the opcode. *)
LEMMA PayloadCanonical ==
    ASSUME NEW op \in Ops, NEW id \in U32, NEW b \in Seq(Octet), DecodePayload(op, id, b).err = "none"
    PROVE  Stands(DecodePayload(op, id, b).frame, op, id, b)
<1>0. \A e \in {"FrameTooShort", "InvalidBindType"} : Err(e).err # "none"
  BY DEF Err
<1>1. \A f : Ok(f).frame = f
  BY ZenonT(30) DEF Ok
<1>2. CASE op = "Connect"
  <2>1. HasRemaining(b, 6) /\ DecodePayload(op, id, b) = Ok(Connect(From(b, 7), GetU16(b, 5), id, GetU32(b, 1)))
    BY <1>0, <1>2, ZenonT(30) DEF DecodePayload
  <2> QED
    BY <1>1, <1>2, <2>1, ConnectCanonical, ZenonT(30)
<1>3. CASE op = "Acknowledge"
  <2>1. HasRemaining(b, 4) /\ DecodePayload(op, id, b) = Ok(Acknowledge(id, GetU32(b, 1)))
    BY <1>0, <1>3, ZenonT(30) DEF DecodePayload
  <2> QED
    BY <1>1, <1>3, <2>1, AcknowledgeCanonical, SMTT(30)
<1>4. CASE op = "Reset"
  <2>1. DecodePayload(op, id, b) = Ok(Reset(id))
    BY <1>4, ZenonT(30) DEF DecodePayload
  <2> QED
    BY <1>1, <1>4, <2>1, PlainCanonical, SMTT(30)
<1>5. CASE op = "Finish"
  <2>1. DecodePayload(op, id, b) = Ok(Finish(id))
    BY <1>5, ZenonT(30) DEF DecodePayload
  <2> QED
    BY <1>1, <1>5, <2>1, PlainCanonical, SMTT(30)
<1>6. CASE op = "Push"
  <2>1. DecodePayload(op, id, b) = Ok(Push(id, b))
    BY <1>6, ZenonT(30) DEF DecodePayload
  <2> QED
    BY <1>1, <1>6, <2>1, PushCanonical, ZenonT(30)
<1>7. CASE op = "Bind"
  <2>1. /\ HasRemaining(b, 3) /\ BindType(b[1]) # "InvalidBindType"
        /\ DecodePayload(op, id, b) = Ok(Bind(id, BindType(b[1]), From(b, 4), GetU16(b, 2)))
    BY <1>0, <1>7, ZenonT(30) DEF DecodePayload
  <2> QED
    BY <1>1, <1>7, <2>1, BindCanonical, ZenonT(30)
<1>8. CASE op = "Datagram"
  <2>1. /\ HasRemaining(b, 7) /\ HasRemaining(Tail(b), b[1] + 6)
        /\ DecodePayload(op, id, b) = Ok(Datagram(id, Octets(b, 4, b[1]), GetU16(b, 2), From(b, 4 + b[1])))
    BY <1>0, <1>8, ZenonT(30) DEF DecodePayload
  <2> QED
    BY <1>1, <1>8, <2>1, DatagramCanonical, ZenonT(30)
<1> QED
  BY <1>2, <1>3, <1>4, <1>5, <1>6, <1>7, <1>8, ZenonT(30) DEF Ops

(* Any sequence of octets that is decoded is the encoding of the frame. *)
LEMMA Canonical ==
    ASSUME NEW b \in Seq(Octet), Decode(b).err = "none"
    PROVE  LET f == Decode(b).frame IN
           /\ StartsWith(b, Encode(f)) /\ FinalizedOpcode(b) = f.op
           /\ f.op \notin {"Acknowledge", "Reset", "Finish"} => Encode(f) = b
<1> DEFINE x == b[1]  op == OpCode(x % 16)  id == GetU32(b, 2)  p == From(b, 6)  f == Decode(b).frame
<1>0. \A e \in {"FrameTooShort", "FrameVersion", "InvalidOpCode"} : Err(e).err # "none"
  BY ZenonT(30) DEF Err
<1>1. /\ HasRemaining(b, 5) /\ x \div 16 = PROTOCOL_VERSION_NUMBER /\ op # "InvalidOpCode"
      /\ Decode(b) = DecodePayload(op, id, p)
  BY <1>0, ZenonT(30) DEF Decode
<1>2. Len(b) >= 5
  BY <1>1, SMTT(30) DEF HasRemaining
<1>3. x \in Octet /\ id \in U32 /\ p \in Seq(Octet) /\ b = <<x>> \o PutU32(id) \o p
  BY <1>2, HeaderBack, ZenonT(30)
<1>4. FinalizedOpcode(b) = op
  BY <1>2, SMTT(30) DEF FinalizedOpcode
<1>y. x \div 16 = 7
  BY <1>1, ZenonT(30) DEF PROTOCOL_VERSION_NUMBER
<1> HIDE DEF x, id, p
<1>5. x % 16 \in Nat /\ x = (x % 16) + 112
  <2>1. x \in Nat
    BY <1>3, SMTT(30) DEF Octet
  <2> QED
    BY <1>y, <2>1, SMTT(30)
<1>6. op \in Ops /\ x = OpNumber(op) + 16 * PROTOCOL_VERSION_NUMBER
  <2>1. x % 16 \in 0..6
    BY <1>1, <1>5, OpCodeValues, SMTT(30)
  <2>2. \A n \in 0..6 : n = 0 \/ n = 1 \/ n = 2 \/ n = 3 \/ n = 4 \/ n = 5 \/ n = 6
    OBVIOUS
  <2>3. \A n \in 0..6 : OpCode(n) \in Ops /\ OpNumber(OpCode(n)) = n
    BY <2>2, OpCodeValues, ZenonT(30) DEF OpNumber, Ops
  <2>4. 16 * PROTOCOL_VERSION_NUMBER = 112
    BY SMTT(30) DEF PROTOCOL_VERSION_NUMBER
  <2> QED
    BY <1>5, <2>1, <2>3, <2>4, ZenonT(30)
<1> HIDE DEF op, f
<1>7. Stands(f, op, id, p)
  BY <1>1, <1>3, <1>6, PayloadCanonical, SMTT(30) DEF f
<1>8. f.op = op /\ f.id = id /\ ~TooLong(f) /\ Payload(f) \in Seq(Octet)
  BY <1>7, SMTT(30) DEF Stands
<1> DEFINE h == <<x>> \o PutU32(id)
<1>9. Encode(f) = h \o Payload(f)
  BY <1>6, <1>8, EncodeForm, ZenonT(30)
<1>10. h \in Seq(Octet)
  <2> DEFINE q == PutU32(id)
  <2>1. q \in Seq(Octet)
    BY <1>3, Put32, SMTT(30)
  <2> HIDE DEF q
  <2>2. <<x>> \o q \in Seq(Octet)
    BY <1>3, <2>1, OneMore, ZenonT(30)
  <2> QED
    BY <2>2, SMTT(30) DEF q
<1>11. b = h \o p
  BY <1>3, SMTT(30)
<1> HIDE DEF h
<1>12. StartsWith(b, Encode(f))
  <2>1. PICK z \in Seq(Octet) : p = Payload(f) \o z
    BY <1>7, ZenonT(30) DEF Stands
  <2> DEFINE e == h \o Payload(f)
  <2>2. Assoc(h, Payload(f), z)
    BY <1>8, <1>10, Regroup, SMTT(30)
  <2>3. b = e \o z
    BY <1>11, <2>1, <2>2, SMTT(30) DEF Assoc
  <2>4. e \in Seq(Octet)
    BY <1>8, <1>10, Apart, SMTT(30)
  <2> HIDE DEF e
  <2>5. Len(e) \in Nat /\ Len(z) \in Nat /\ Len(b) = Len(e) + Len(z) /\ SubSeq(b, 1, Len(e)) = e
    BY <2>3, <2>4, Apart, SMTT(30)
  <2>6. 1 + Len(e) - 1 = Len(e) /\ Len(e) <= Len(b)
    BY <2>5
  <2>7. StartsWith(b, e)
    BY <2>5, <2>6, Zenon DEF StartsWith, Octets
  <2> QED
    BY <1>9, <2>7, SMTT(30) DEF e
<1>13. f.op \notin {"Acknowledge", "Reset", "Finish"} => Encode(f) = b
  BY <1>7, <1>8, <1>9, <1>11, ZenonT(30) DEF Stands
<1> QED
  BY <1>4, <1>8, <1>12, <1>13, SMTT(30) DEF f

-----------------------------------------------------------------------------
(* The upgrade. *)

(* The headers of the client's request, when it has no custom ones. *)
LEMMA ClientHeaders ==
    ASSUME NEW psk, NEW host
    PROVE  LET h == HandshakeHeaders(psk, host, Nothing) IN
           /\ h["connection"] = "Upgrade" /\ h["upgrade"] = "websocket" /\ h["sec-websocket-key"] = "key"
           /\ h["sec-websocket-version"] = "13" /\ h["sec-websocket-protocol"] = PROTOCOL_VERSION
<1> DEFINE c == ClientRequest
           c1 == Insert(c, "sec-websocket-protocol", PROTOCOL_VERSION)
           c2 == Insert(c1, "x-penguin-psk", psk)
           own == Insert(c2, "host", host)
           step(g) == [i \in 0..Len(Nothing) |->
                         IF i = 0 THEN own ELSE Insert(g[i - 1], Nothing[i][1], Nothing[i][2])]
           Right(h) == /\ h["connection"] = "Upgrade" /\ h["upgrade"] = "websocket"
                       /\ h["sec-websocket-key"] = "key" /\ h["sec-websocket-version"] = "13"
                       /\ h["sec-websocket-protocol"] = PROTOCOL_VERSION
<1>1. Len(Nothing) = 0 /\ 0..0 = {0}
  BY SMTT(30) DEF Nothing
<1>2. /\ DOMAIN c = Names
      /\ c["connection"] = "Upgrade" /\ c["upgrade"] = "websocket"
      /\ c["sec-websocket-key"] = "key" /\ c["sec-websocket-version"] = "13"
  BY SMTT(30) DEF ClientRequest, Names
<1> HIDE DEF c
<1>3. /\ DOMAIN c1 = Names /\ c1 = [c EXCEPT !["sec-websocket-protocol"] = PROTOCOL_VERSION]
      /\ Right(c1)
  BY <1>2, SMTT(30) DEF Insert, Names, PROTOCOL_VERSION, Absent
<1> HIDE DEF c1
<1>4. DOMAIN c2 = Names /\ Right(c2)
  BY <1>3, ZenonT(30) DEF Insert, Names
<1> HIDE DEF c2
<1>5. Right(own)
  BY <1>4, ZenonT(30) DEF Insert, Names
<1> HIDE DEF own
<1>6. \E g : g = step(g)
  <2>1. [i \in {0} |-> own] = step([i \in {0} |-> own])
    BY <1>1, ZenonT(30)
  <2> QED
    BY <2>1, ZenonT(30)
<1>7. (CHOOSE g : g = step(g)) = step(CHOOSE g : g = step(g))
  BY <1>6, ZenonT(30)
<1> DEFINE add == CHOOSE g : g = step(g)
<1>8. add[0] = own
  <2>1. add = step(add)
    BY <1>7, ZenonT(30)
  <2> HIDE DEF add
  <2>2. step(add)[0] = own
    BY <1>1, SMTT(30)
  <2> QED
    BY <2>1, <2>2, ZenonT(30)
<1>9. HandshakeHeaders(psk, host, Nothing) = add[Len(Nothing)]
  BY SMTT(30) DEF HandshakeHeaders, own, c2, c1, c
<1> HIDE DEF add
<1> QED
  BY <1>1, <1>5, <1>8, <1>9, ZenonT(30)

(* Who is let in, for any headers at all. *)
LEMMA UpgradeOnly ==
    ASSUME NEW state, NEW req, NEW answers
    PROVE  LET a == Call(state, req, answers) IN
           /\ (a.status = 101) <=> (req.path = "/ws" /\ WsHandlerAccepts(state, req))
           /\ req.path = "/ws" /\ a.status # 101 => a = BackendOr404(state, answers)
           /\ req.path = "/other" => a = BackendOr404(state, answers)
<1>1. BackendOr404(state, answers).status # 101
  BY SMTT(30) DEF BackendOr404, NotFound
<1>2. CASE req.path = "/ws"
  <2>1. CASE WsHandlerAccepts(state, req)
    BY <1>2, <2>1, SMTT(30) DEF Call
  <2>2. CASE ~WsHandlerAccepts(state, req)
    <3>1. Call(state, req, answers) = BackendOr404(state, answers)
      BY <1>2, <2>2, SMTT(30) DEF Call
    <3> QED
      BY <1>1, <1>2, <2>2, <3>1, SMTT(30)
  <2> QED
    BY <2>1, <2>2, SMTT(30)
<1>3. CASE req.path # "/ws"
  <2>1. Call(state, req, answers).status # 101
    BY <1>1, <1>3, SMTT(30) DEF Call
  <2>2. req.path = "/other" => Call(state, req, answers) = BackendOr404(state, answers)
    BY ZenonT(30) DEF Call
  <2> QED
    BY <1>3, <2>1, <2>2, ZenonT(30)
<1> QED
  BY <1>2, <1>3, SMTT(30)

-----------------------------------------------------------------------------
(* The runs. *)

HttpInputs ==
    [state : [backend : BOOLEAN, ws_psk : Psks, obfs : BOOLEAN], req : Requests, backendAnswers : BOOLEAN]

-----------------------------------------------------------------------------
(* SOCKS: octets of which the end may be missing. *)

(* The first k octets of x and y: those of x, and of y what is left. *)
LEMMA CutApart ==
    ASSUME NEW x \in Seq(Octet), NEW y \in Seq(Octet), NEW k \in 0..(Len(x) + Len(y))
    PROVE  LET b == SubSeq(x \o y, 1, k) IN
           /\ b \in Seq(Octet) /\ Len(b) = k /\ Len(x) \in Nat /\ Len(y) \in Nat
           /\ \A i \in 1..k : i <= Len(x) => b[i] = x[i]
           /\ k >= Len(x) => From(b, Len(x) + 1) = SubSeq(y, 1, k - Len(x))
<1> DEFINE s == x \o y  n == Len(x)  m == Len(y)
<1>1. n \in Nat /\ m \in Nat
  BY SMTT(30)
<1>2. /\ s \in Seq(Octet) /\ Len(s) = n + m
      /\ \A i \in 1..(n + m) : s[i] = IF i <= n THEN x[i] ELSE y[i - n]
  BY ConcatProperties, ZenonT(30)
<1> HIDE DEF s
<1> DEFINE b == SubSeq(s, 1, k)
<1>3. b \in Seq(Octet) /\ Len(b) = k /\ \A i \in 1..k : b[i] = s[i]
  BY <1>1, <1>2, SMTT(30)
<1>4. \A i \in 1..k : i <= n => b[i] = x[i]
  BY <1>1, <1>2, <1>3, SMTT(30)
<1> HIDE DEF b
<1>5. ASSUME k >= n PROVE SubSeq(b, n + 1, Len(b)) = SubSeq(y, 1, k - n)
  <2>0. k - n \in 0..m /\ k \in Nat
    BY <1>1, <1>5, SMTT(30)
  <2> DEFINE c == SubSeq(b, n + 1, Len(b))  d == SubSeq(y, 1, k - n)
  <2>1. c \in Seq(Octet) /\ Len(c) = k - n /\ \A i \in 1..(k - n) : c[i] = b[n + i]
    BY <1>1, <1>3, <2>0, SMTT(30)
  <2>2. d \in Seq(Octet) /\ Len(d) = k - n /\ \A i \in 1..(k - n) : d[i] = y[i]
    BY <1>1, <2>0, SMTT(30)
  <2>3. \A i \in 1..(k - n) : n + i \in 1..k /\ n + i \in 1..(n + m) /\ ~(n + i <= n) /\ (n + i) - n = i
    BY <1>1, <2>0, SMTT(30)
  <2>4. \A i \in 1..(k - n) : b[n + i] = y[i]
    BY <1>2, <1>3, <2>3, ZenonT(30)
  <2> HIDE DEF c, d
  <2>5. c = d
    BY <2>1, <2>2, <2>4, SeqEqual, ZenonT(30)
  <2> QED
    BY <2>5, ZenonT(30) DEF c, d
<1> QED
  BY <1>1, <1>3, <1>4, <1>5, ZenonT(30) DEF From, b, s

(* The same where x is a single octet: tail() and what is left. *)
LEMMA CutOne ==
    ASSUME NEW x \in Octet, NEW y \in Seq(Octet), NEW k \in 0..(1 + Len(y))
    PROVE  LET b == SubSeq(<<x>> \o y, 1, k) IN
           /\ b \in Seq(Octet) /\ Len(b) = k /\ (k = 0 <=> b = << >>)
           /\ k >= 1 => b[1] = x /\ Tail(b) = SubSeq(y, 1, k - 1) /\ From(b, 2) = Tail(b)
<1> DEFINE a == <<x>>  b == SubSeq(a \o y, 1, k)
<1>1. a \in Seq(Octet) /\ Len(a) = 1 /\ a[1] = x /\ Len(y) \in Nat
  OBVIOUS
<1> HIDE DEF a
<1>2. /\ b \in Seq(Octet) /\ Len(b) = k
      /\ \A i \in 1..k : i <= Len(a) => b[i] = a[i]
      /\ k >= Len(a) => From(b, Len(a) + 1) = SubSeq(y, 1, k - Len(a))
  <2>1. k \in 0..(Len(a) + Len(y))
    BY <1>1
  <2> QED
    BY <1>1, <2>1, CutApart, ZenonT(60)
<1> HIDE DEF b
<1>3. k = 0 <=> b = << >>
  BY <1>2
<1>4. ASSUME k >= 1 PROVE b[1] = x /\ From(b, 2) = SubSeq(y, 1, k - 1)
  BY <1>1, <1>2, <1>4
<1>5. ASSUME k >= 1 PROVE Tail(b) = From(b, 2)
  BY <1>2, <1>3, <1>5, SMTT(30) DEF From
<1> QED
  BY <1>2, <1>3, <1>4, <1>5, ZenonT(30) DEF b, a

(* Skipping one octet, then another. *)
LEMMA TailFrom ==
    ASSUME NEW b \in Seq(Octet), Len(b) >= 2
    PROVE  Tail(b)[1] = b[2] /\ From(Tail(b), 2) = From(b, 3)
<1> DEFINE n == Len(b)  c == Tail(b)  u == SubSeq(c, 2, Len(c))  v == SubSeq(b, 3, n)
<1>1. n \in Nat /\ c \in Seq(Octet) /\ Len(c) = n - 1 /\ \A i \in 1..(n - 1) : c[i] = b[i + 1]
  BY SMTT(30)
<1> HIDE DEF c
<1>2. u \in Seq(Octet) /\ Len(u) = n - 2 /\ \A i \in 1..(n - 2) : u[i] = c[i + 1]
  BY <1>1, SMTT(30)
<1>3. v \in Seq(Octet) /\ Len(v) = n - 2 /\ \A i \in 1..(n - 2) : v[i] = b[i + 2]
  BY <1>1, SMTT(30)
<1>4. \A i \in 1..(n - 2) : i + 1 \in 1..(n - 1) /\ (i + 1) + 1 = i + 2
  BY <1>1, SMTT(30)
<1>5. \A i \in 1..(n - 2) : u[i] = v[i]
  BY <1>1, <1>2, <1>3, <1>4, ZenonT(30)
<1> HIDE DEF u, v
<1>6. u = v
  BY <1>2, <1>3, <1>5, SeqEqual, ZenonT(30)
<1>7. c[1] = b[2]
  BY <1>1, SMTT(30)
<1> QED
  BY <1>6, <1>7, SMTT(30) DEF From, u, v, c

(* Nothing of an address, or all of it. *)
SizedAt(r, n, host, port, p, k) ==
    /\ k < n + 2 => r.err = "eof"
    /\ k >= n + 2 => r = [err |-> "none", host |-> host, port |-> port, rest |-> SubSeq(p, 1, k - (n + 2))]

(* An address of a known size and the port after it. *)
LEMMA SizedRead ==
    ASSUME NEW h \in Seq(Octet), NEW port \in U16, NEW p \in Seq(Octet), NEW kd, NEW n, n = Len(h),
           NEW k \in 0..(n + 2 + Len(p))
    PROVE  SizedAt(Sized(kd, n, SubSeq(h \o (PutU16(port) \o p), 1, k)), n, <<kd, h>>, port, p, k)
<1> USE DEF SizedAt
<1> DEFINE q == PutU16(port)  t == q \o p  b == SubSeq(h \o t, 1, k)
<1>1. q \in Seq(Octet) /\ Len(q) = 2 /\ Half(q[1], q[2]) = port /\ n \in Nat /\ Len(p) \in Nat
  BY Put16, SMTT(30)
<1> HIDE DEF q
<1>2. t \in Seq(Octet) /\ Len(t) = 2 + Len(p)
  <2>1. t \in Seq(Octet) /\ Len(t) = Len(q) + Len(p)
    BY <1>1, Apart, ZenonT(30)
  <2> QED
    BY <1>1, <2>1, SMTT(30)
<1> HIDE DEF t
<1>3. /\ b \in Seq(Octet) /\ Len(b) = k
      /\ \A i \in 1..k : i <= n => b[i] = h[i]
      /\ k >= n => From(b, n + 1) = SubSeq(t, 1, k - n)
  <2>1. k \in 0..(Len(h) + Len(t))
    BY <1>1, <1>2, SMTT(30)
  <2>2. /\ b \in Seq(Octet) /\ Len(b) = k
        /\ \A i \in 1..k : i <= Len(h) => b[i] = h[i]
        /\ k >= Len(h) => From(b, Len(h) + 1) = SubSeq(t, 1, k - Len(h))
    BY <1>2, <2>1, CutApart, ZenonT(30)
  <2> HIDE DEF b
  <2> QED
    BY <2>2
<1> HIDE DEF b
<1>4. CASE k < n + 2
  BY <1>1, <1>3, <1>4, SMTT(30) DEF Sized, b, t, q
<1>5. CASE k >= n + 2
  <2> DEFINE c == SubSeq(t, 1, k - n)
  <2>0. k - n \in 0..(2 + Len(p)) /\ k - n >= 2 /\ k \in Nat
    BY <1>1, <1>5, SMTT(30)
  <2>1. /\ c \in Seq(Octet) /\ Len(c) = k - n /\ \A i \in 1..(k - n) : i <= 2 => c[i] = q[i]
        /\ k - n >= 2 => From(c, 3) = SubSeq(p, 1, (k - n) - 2)
    <3>1. k - n \in 0..(Len(q) + Len(p))
      BY <1>1, <2>0
    <3>2. /\ c \in Seq(Octet) /\ Len(c) = k - n /\ \A i \in 1..(k - n) : i <= Len(q) => c[i] = q[i]
          /\ k - n >= Len(q) => From(c, Len(q) + 1) = SubSeq(p, 1, (k - n) - Len(q))
      BY <1>1, <3>1, CutApart, ZenonT(30) DEF t
    <3>3. Len(q) = 2 /\ Len(q) + 1 = 3
      BY <1>1
    <3> HIDE DEF c
    <3> QED
      BY <3>2, <3>3, ZenonT(30)
  <2>2. c = From(b, n + 1)
    BY <1>1, <1>3, <1>5
  <2> HIDE DEF c
  <2>3. \A i \in 1..(k - n) : From(b, n + 1)[i] = b[n + i]
    BY <1>1, <1>3, <2>0 DEF From
  <2>4. b[n + 1] = q[1] /\ b[n + 2] = q[2]
    <3>1. c[1] = q[1] /\ c[2] = q[2] /\ 1 \in 1..(k - n) /\ 2 \in 1..(k - n)
      BY <2>0, <2>1, SMTT(30)
    <3> QED
      BY <2>2, <2>3, <3>1, SMTT(30)
  <2>5. GetU16(b, n + 1) = port
    <3>1. GetU16(b, n + 1) = Half(b[n + 1], b[(n + 1) + 1])
      BY Gets, ZenonT(30)
    <3>2. (n + 1) + 1 = n + 2
      BY <1>1, SMTT(30)
    <3> QED
      BY <1>1, <2>4, <3>1, <3>2, SMTT(30)
  <2>6. Octets(b, 1, n) = h
    <3>1. /\ SubSeq(b, 1, n) \in Seq(Octet) /\ Len(SubSeq(b, 1, n)) = n
          /\ \A i \in 1..n : SubSeq(b, 1, n)[i] = b[i]
      BY <1>1, <1>3, <2>0, SMTT(30)
    <3>2. \A i \in 1..n : b[i] = h[i]
      BY <1>1, <1>3, <2>0, SMTT(30)
    <3>3. SubSeq(b, 1, n) = h
      BY <1>1, <3>1, <3>2, SeqEqual, SMTT(30)
    <3>4. 1 + n - 1 = n
      BY <1>1, SMTT(30)
    <3> QED
      BY <3>3, <3>4, SMTT(30) DEF Octets
  <2>7. From(b, n + 3) = SubSeq(p, 1, k - (n + 2))
    <3>1. From(c, 3) = From(b, n + 3)
      <4> DEFINE u == SubSeq(c, 3, Len(c))  v == SubSeq(b, n + 3, Len(b))
      <4>1. u \in Seq(Octet) /\ Len(u) = k - n - 2 /\ \A i \in 1..(k - n - 2) : u[i] = c[i + 2]
        BY <1>1, <2>0, <2>1, SMTT(30)
      <4>2. v \in Seq(Octet) /\ Len(v) = k - n - 2 /\ \A i \in 1..(k - n - 2) : v[i] = b[n + (i + 2)]
        BY <1>1, <1>3, <2>0, SMTT(30)
      <4>3. \A i \in 1..(k - n - 2) : i + 2 \in 1..(k - n)
        BY <1>1, <2>0, SMTT(30)
      <4>4. \A i \in 1..(k - n - 2) : u[i] = v[i]
        BY <2>2, <2>3, <4>1, <4>2, <4>3, ZenonT(30)
      <4> HIDE DEF u, v
      <4>5. u = v
        BY <4>1, <4>2, <4>4, SeqEqual, ZenonT(30)
      <4> QED
        BY <4>5, ZenonT(30) DEF From, u, v
    <3>2. (k - n) - 2 = k - (n + 2)
      BY <1>1, <2>0, SMTT(30)
    <3> QED
      BY <2>0, <2>1, <3>1, <3>2, SMTT(30)
  <2>8. ~(Len(b) < n + 2)
    BY <1>1, <1>3, <1>5, SMTT(30)
  <2>9. Sized(kd, n, b) = [err |-> "none", host |-> <<kd, h>>, port |-> port, rest |-> SubSeq(p, 1, k - (n + 2))]
    BY <2>5, <2>6, <2>7, <2>8, ZenonT(30) DEF Sized
  <2>10. ~(k < n + 2)
    BY <1>1, <1>5
  <2> QED
    BY <2>9, <2>10, SMTT(30) DEF b, t, q
<1> QED
  BY <1>1, <1>4, <1>5, SMTT(30)

SocksHost(h) ==
    /\ h \in {"ipv4", "ipv6", "name"} \X Seq(Octet)
    /\ h[1] = "ipv4" => Len(h[2]) = 4
    /\ h[1] = "ipv6" => Len(h[2]) = 16
    /\ h[1] = "name" => Len(h[2]) < 256

(* An address as RFC 1928 has it: its type, the length of a name, the      *)
(* octets, the port and what follows.                                      *)
LEMMA AddressForm ==
    ASSUME NEW h, SocksHost(h), NEW port \in U16, NEW p \in Seq(Octet)
    PROVE  LET t == h[2] \o (PutU16(port) \o p)
               a == RfcAddress(h, port)
           IN  /\ t \in Seq(Octet) /\ Len(t) = Len(h[2]) + 2 + Len(p) /\ a \in Seq(Octet)
               /\ h[1] = "ipv4" => a \o p = <<1>> \o t /\ Len(a) = 7
               /\ h[1] = "ipv6" => a \o p = <<4>> \o t /\ Len(a) = 19
               /\ h[1] = "name" => a \o p = <<3>> \o (<<Len(h[2])>> \o t) /\ Len(a) = Len(h[2]) + 4
<1> DEFINE o == h[2]  q == PutU16(port)  r == q \o p  t == o \o r  a == RfcAddress(h, port)  n == Len(o)
<1>1. o \in Seq(Octet) /\ q \in Seq(Octet) /\ Len(q) = 2 /\ n \in Nat /\ Len(p) \in Nat
  BY Put16 DEF SocksHost
<1>2. h[1] \in {"ipv4", "ipv6", "name"}
  BY SMTT(30) DEF SocksHost
<1> HIDE DEF q, o
<1>3. r \in Seq(Octet) /\ Len(r) = Len(q) + Len(p)
  BY <1>1, Apart, ZenonT(30)
<1>4. t \in Seq(Octet) /\ Len(t) = n + Len(r)
  BY <1>1, <1>3, Apart, ZenonT(30)
<1>5. ASSUME NEW y \in Seq(Octet)
      PROVE  /\ (y \o o) \o q \in Seq(Octet) /\ Len((y \o o) \o q) = Len(y) + n + 2
             /\ ((y \o o) \o q) \o p = y \o t
  <2>1. y \o o \in Seq(Octet) /\ Len(y \o o) = Len(y) + n
    BY <1>1, Apart, SMTT(30)
  <2>2. (y \o o) \o q \in Seq(Octet) /\ Len((y \o o) \o q) = Len(y \o o) + Len(q)
    BY <1>1, <2>1, Apart, ZenonT(30)
  <2>3. ((y \o o) \o q) \o p = (y \o o) \o r
    BY <1>1, <2>1, Regroup, ZenonT(30) DEF Assoc
  <2>4. (y \o o) \o r = y \o t
    BY <1>1, <1>3, Regroup, ZenonT(30) DEF Assoc
  <2>5. Len((y \o o) \o q) = Len(y) + n + 2
    BY <1>1, <2>1, <2>2
  <2> QED
    BY <2>2, <2>3, <2>4, <2>5, SMTT(30)
<1> HIDE DEF t, r
<1>6. Len(t) = n + 2 + Len(p)
  BY <1>1, <1>3, <1>4, SMTT(30)
<1>7. CASE h[1] = "ipv4"
  <2>1. a = (<<1>> \o o) \o q
    BY <1>7, SMTT(30) DEF RfcAddress, o, q
  <2>2. <<1>> \in Seq(Octet) /\ Len(<<1>>) = 1 /\ n = 4
    BY <1>7, SMTT(30) DEF Octet, SocksHost, o
  <2>3. a \in Seq(Octet) /\ Len(a) = Len(<<1>>) + n + 2 /\ a \o p = <<1>> \o t
    BY <1>5, <2>1, <2>2, ZenonT(30)
  <2>4. Len(a) = 7
    BY <2>2, <2>3, SMTT(30)
  <2> QED
    BY <1>4, <1>6, <1>7, <2>3, <2>4, ZenonT(30) DEF t, r, q, o
<1>8. CASE h[1] = "ipv6"
  <2>1. a = (<<4>> \o o) \o q
    BY <1>8, ZenonT(30) DEF RfcAddress, o, q
  <2>2. <<4>> \in Seq(Octet) /\ Len(<<4>>) = 1 /\ n = 16
    BY <1>8, SMTT(30) DEF Octet, SocksHost, o
  <2>3. a \in Seq(Octet) /\ Len(a) = Len(<<4>>) + n + 2 /\ a \o p = <<4>> \o t
    BY <1>5, <2>1, <2>2, ZenonT(30)
  <2>4. Len(a) = 19
    BY <2>2, <2>3, SMTT(30)
  <2> QED
    BY <1>4, <1>6, <1>8, <2>3, <2>4, ZenonT(30) DEF t, r, q, o
<1>9. CASE h[1] = "name"
  <2>1. a = (<<3, n>> \o o) \o q
    BY <1>9, ZenonT(30) DEF RfcAddress, o, q
  <2>2. n \in Octet
    BY <1>1, <1>9 DEF Octet, SocksHost, o
  <2>3. <<3, n>> \in Seq(Octet) /\ Len(<<3, n>>) = 2 /\ <<3>> \in Seq(Octet) /\ <<n>> \in Seq(Octet)
    BY <2>2, SMTT(30) DEF Octet
  <2>4. a \in Seq(Octet) /\ Len(a) = 2 + n + 2 /\ a \o p = <<3, n>> \o t
    BY <1>5, <2>1, <2>3, ZenonT(30)
  <2>5. <<3, n>> = <<3>> \o <<n>>
    BY <2>2
  <2>6. (<<3>> \o <<n>>) \o t = <<3>> \o (<<n>> \o t)
    BY <1>4, <2>3, Regroup, SMTT(30) DEF Assoc
  <2>7. Len(a) = n + 4
    BY <1>1, <2>4, SMTT(30)
  <2> QED
    BY <1>4, <1>6, <1>9, <2>4, <2>5, <2>6, <2>7, ZenonT(30) DEF t, r, q, o
<1> QED
  BY <1>2, <1>7, <1>8, <1>9, ZenonT(30)

(* The match of v5::read_address, arm by arm. *)
LEMMA AddressArms ==
    ASSUME NEW b
    PROVE  /\ b = << >> => ReadAddress(b) = Sized("name", 1, << >>)
           /\ b # << >> /\ b[1] = 1 => ReadAddress(b) = Sized("ipv4", 4, Tail(b))
           /\ b # << >> /\ b[1] = 4 => ReadAddress(b) = Sized("ipv6", 16, Tail(b))
           /\ b # << >> /\ b[1] = 3 =>
                ReadAddress(b) = IF Len(b) < 2 THEN Sized("name", 1, << >>) ELSE Sized("name", b[2], From(b, 3))
<1>1. ASSUME b = << >> PROVE ReadAddress(b) = Sized("name", 1, << >>)
  BY <1>1, SMTT(30) DEF ReadAddress
<1>2. ASSUME b # << >>, b[1] = 1 PROVE ReadAddress(b) = Sized("ipv4", 4, Tail(b))
  BY <1>2, SMTT(30) DEF ReadAddress
<1>3. ASSUME b # << >>, b[1] = 4 PROVE ReadAddress(b) = Sized("ipv6", 16, Tail(b))
  BY <1>3, SMTT(30) DEF ReadAddress
<1>4. ASSUME b # << >>, b[1] = 3
      PROVE  ReadAddress(b) = IF Len(b) < 2 THEN Sized("name", 1, << >>) ELSE Sized("name", b[2], From(b, 3))
  BY <1>4, SMTT(30) DEF ReadAddress
<1> QED
  BY <1>1, <1>2, <1>3, <1>4, ZenonT(30)

(* v5::read_address and the port, on the first k octets: exactly what the  *)
(* application put in, or the end of the input.                            *)
LEMMA AddressRead ==
    ASSUME NEW h, SocksHost(h), NEW port \in U16, NEW p \in Seq(Octet),
           NEW k \in 0..(Len(RfcAddress(h, port)) + Len(p))
    PROVE  LET a == RfcAddress(h, port)
               r == ReadAddress(SubSeq(a \o p, 1, k))
           IN  /\ k < Len(a) => r.err = "eof"
               /\ k >= Len(a) => r = [err |-> "none", host |-> h, port |-> port,
                                      rest |-> SubSeq(p, 1, k - Len(a))]
<1> DEFINE a == RfcAddress(h, port)  o == h[2]  n == Len(o)  t == o \o (PutU16(port) \o p)
           b == SubSeq(a \o p, 1, k)  r == ReadAddress(b)
           Good == /\ k < Len(a) => r.err = "eof"
                   /\ k >= Len(a) => r = [err |-> "none", host |-> h, port |-> port,
                                          rest |-> SubSeq(p, 1, k - Len(a))]
<1> SUFFICES Good
  OBVIOUS
<1>1. /\ o \in Seq(Octet) /\ n \in Nat /\ Len(p) \in Nat /\ h = <<h[1], o>>
      /\ h[1] \in {"ipv4", "ipv6", "name"}
  BY SMTT(30) DEF SocksHost
<1>2. /\ t \in Seq(Octet) /\ Len(t) = n + 2 + Len(p) /\ a \in Seq(Octet)
      /\ h[1] = "ipv4" => a \o p = <<1>> \o t /\ Len(a) = 7 /\ n = 4
      /\ h[1] = "ipv6" => a \o p = <<4>> \o t /\ Len(a) = 19 /\ n = 16
      /\ h[1] = "name" => a \o p = <<3>> \o (<<n>> \o t) /\ Len(a) = n + 4 /\ n < 256
  <2>1. /\ t \in Seq(Octet) /\ Len(t) = n + 2 + Len(p) /\ a \in Seq(Octet)
        /\ h[1] = "ipv4" => a \o p = <<1>> \o t /\ Len(a) = 7
        /\ h[1] = "ipv6" => a \o p = <<4>> \o t /\ Len(a) = 19
        /\ h[1] = "name" => a \o p = <<3>> \o (<<n>> \o t) /\ Len(a) = n + 4
    BY AddressForm, ZenonT(30)
  <2>2. /\ h[1] = "ipv4" => n = 4
        /\ h[1] = "ipv6" => n = 16
        /\ h[1] = "name" => n < 256
    BY DEF SocksHost
  <2> QED
    BY <2>1, <2>2, ZenonT(30)
<1>b. Len(a) \in Nat /\ Len(a) >= 4
  <2> HIDE DEF a, o, t
  <2>1. CASE h[1] = "ipv4"
    <3>1. Len(a) = 7
      BY <1>2, <2>1, ZenonT(30)
    <3> QED
      BY <3>1, SMTT(30)
  <2>2. CASE h[1] = "ipv6"
    <3>1. Len(a) = 19
      BY <1>2, <2>2, ZenonT(30)
    <3> QED
      BY <3>1, SMTT(30)
  <2>3. CASE h[1] = "name"
    <3>1. Len(a) = n + 4
      BY <1>2, <2>3, ZenonT(30)
    <3> QED
      BY <1>1, <3>1, SMTT(30)
  <2> QED
    BY <1>1, <2>1, <2>2, <2>3, ZenonT(30)
<1>3. ASSUME NEW kd, NEW i \in 0..(n + 2 + Len(p))
      PROVE  SizedAt(Sized(kd, n, SubSeq(t, 1, i)), n, <<kd, o>>, port, p, i)
  BY <1>1, SizedRead, ZenonT(30)
<1>e. Sized("name", 1, << >>).err = "eof" /\ k \in Nat
  BY SMTT(30) DEF Sized
<1>r. k \in 0..(Len(a) + Len(p))
  BY SMTT(30)
<1> HIDE DEF t, a, o
<1>4. ASSUME k = 0 PROVE Good
  <2>1. b = << >>
    BY <1>2, <1>4, SMTT(30)
  <2>2. r = Sized("name", 1, << >>)
    BY <2>1, AddressArms, ZenonT(30)
  <2>3. ~(k >= Len(a))
    BY <1>b, <1>4, SMTT(30)
  <2> QED
    BY <1>e, <2>2, <2>3, SMTT(30)
<1>5. ASSUME k >= 1, NEW x \in {1, 4}, NEW kd, kd = h[1], x = (IF kd = "ipv4" THEN 1 ELSE 4),
             a \o p = <<x>> \o t, Len(a) = n + 3, n = (IF kd = "ipv4" THEN 4 ELSE 16), kd # "name"
      PROVE  Good
  <2>1. x \in Octet /\ k \in 0..(1 + Len(t)) /\ k - 1 \in 0..(n + 2 + Len(p))
    <3>1. Len(t) = n + 2 + Len(p) /\ Len(a) = n + 3 /\ k >= 1 /\ x \in {1, 4}
      BY <1>2, <1>5, ZenonT(30)
    <3> QED
      BY <1>1, <1>e, <1>r, <3>1, SMTT(30) DEF Octet
  <2>c. b = SubSeq(<<x>> \o t, 1, k)
    BY <1>5, ZenonT(30)
  <2> HIDE DEF b
  <2>2. b # << >> /\ b[1] = x /\ Tail(b) = SubSeq(t, 1, k - 1)
    <3>1. t \in Seq(Octet) /\ k >= 1 /\ ~(k = 0)
      BY <1>2, <1>5, SMTT(30)
    <3>2. k = 0 <=> SubSeq(<<x>> \o t, 1, k) = << >>
      BY <2>1, <3>1, CutOne, ZenonT(30)
    <3>3. SubSeq(<<x>> \o t, 1, k)[1] = x /\ Tail(SubSeq(<<x>> \o t, 1, k)) = SubSeq(t, 1, k - 1)
      BY <2>1, <3>1, CutOne, SMTT(30)
    <3> QED
      BY <2>c, <3>1, <3>2, <3>3, ZenonT(30)
  <2>3. r = Sized(kd, n, SubSeq(t, 1, k - 1))
    <3>1. CASE kd = "ipv4"
      <4>1. kd = "ipv4" /\ x = 1 /\ n = 4
        BY <1>5, <3>1, ZenonT(30)
      <4> QED
        BY <2>2, <4>1, AddressArms, ZenonT(30)
    <3>2. CASE kd # "ipv4"
      <4>1. kd = "ipv6" /\ x = 4 /\ n = 16
        BY <1>1, <1>5, <3>2, SMTT(30)
      <4> QED
        BY <2>2, <4>1, AddressArms, ZenonT(30)
    <3> QED
      BY <3>1, <3>2, ZenonT(30)
  <2> HIDE DEF r
  <2>4. (k < Len(a) <=> k - 1 < n + 2) /\ (k >= Len(a) <=> k - 1 >= n + 2) /\ (k - 1) - (n + 2) = k - Len(a)
    BY <1>1, <1>e, <1>5, SMTT(30)
  <2>5. SizedAt(r, n, <<kd, o>>, port, p, k - 1)
    BY <1>3, <2>1, <2>3, ZenonT(30)
  <2> QED
    BY <1>1, <1>5, <2>4, <2>5, ZenonT(30) DEF SizedAt
<1>6. ASSUME k >= 1, h[1] = "name" PROVE Good
  <2>0. 3 \in Octet /\ n \in Octet
    BY <1>1, <1>2, <1>6, SMTT(30) DEF Octet
  <2> DEFINE u == <<n>> \o t
  <2>1. u \in Seq(Octet) /\ Len(u) = 1 + Len(t)
    BY <1>2, <2>0, OneMore, ZenonT(30)
  <2>2. k \in 0..(1 + Len(u)) /\ k - 1 \in 0..(1 + Len(t))
    <3>1. Len(t) = n + 2 + Len(p) /\ Len(a) = n + 4
      BY <1>2, <1>6, ZenonT(30)
    <3> QED
      BY <1>1, <1>e, <1>r, <1>6, <2>1, <3>1, SMTT(30)
  <2>3. b = SubSeq(<<3>> \o u, 1, k)
    BY <1>2, <1>6, ZenonT(30)
  <2> HIDE DEF u, b
  <2>4. b \in Seq(Octet) /\ Len(b) = k /\ b # << >> /\ b[1] = 3 /\ Tail(b) = SubSeq(u, 1, k - 1) /\ From(b, 2) = Tail(b)
    <3>1. k >= 1 /\ ~(k = 0)
      BY <1>e, <1>6, SMTT(30)
    <3> DEFINE v == SubSeq(<<3>> \o u, 1, k)
    <3>2. v \in Seq(Octet) /\ Len(v) = k /\ (k = 0 <=> v = << >>)
      BY <2>0, <2>1, <2>2, CutOne, ZenonT(30)
    <3>3. v[1] = 3 /\ Tail(v) = SubSeq(u, 1, k - 1) /\ From(v, 2) = Tail(v)
      BY <2>0, <2>1, <2>2, <3>1, CutOne, ZenonT(30)
    <3> QED
      BY <2>3, <3>1, <3>2, <3>3, Zenon
  <2>5. CASE k = 1
    <3>1. r = Sized("name", 1, << >>)
      <4>1. Len(b) < 2
        BY <2>4, <2>5, SMTT(30)
      <4> QED
        BY <2>4, <4>1, AddressArms, ZenonT(30)
    <3>2. ~(k >= Len(a))
      BY <1>b, <2>5, SMTT(30)
    <3> QED
      BY <1>e, <3>1, <3>2, SMTT(30)
  <2>6. CASE k >= 2
    <3> DEFINE c == SubSeq(u, 1, k - 1)
    <3>1. c[1] = n /\ Tail(c) = SubSeq(t, 1, (k - 1) - 1) /\ From(c, 2) = Tail(c)
      <4>1. k - 1 >= 1
        BY <2>6, <1>e, SMTT(30)
      <4> QED
        BY <1>2, <2>0, <2>2, <4>1, CutOne, ZenonT(30) DEF u
    <3>2. b[2] = n /\ From(b, 3) = From(Tail(b), 2)
      <4>1. Tail(b)[1] = b[2] /\ From(Tail(b), 2) = From(b, 3)
        BY <2>4, <2>6, TailFrom
      <4> QED
        BY <2>4, <3>1, <4>1, ZenonT(30)
    <3>3. r = Sized("name", n, SubSeq(t, 1, k - 2))
      <4>1. From(b, 3) = SubSeq(t, 1, k - 2)
        <5>1. (k - 1) - 1 = k - 2
          BY <1>e
        <5> QED
          BY <2>4, <3>1, <3>2, <5>1, ZenonT(30)
      <4>2. ~(Len(b) < 2)
        BY <2>4, <2>6, <1>e, SMTT(30)
      <4> QED
        BY <2>4, <3>2, <4>1, <4>2, AddressArms, ZenonT(30)
    <3> HIDE DEF r
    <3>4. /\ k - 2 \in 0..(n + 2 + Len(p)) /\ (k < Len(a) <=> k - 2 < n + 2)
          /\ (k >= Len(a) <=> k - 2 >= n + 2) /\ (k - 2) - (n + 2) = k - Len(a)
      <4>1. Len(t) = n + 2 + Len(p) /\ Len(a) = n + 4
        BY <1>2, <1>6, Zenon
      <4> QED
        BY <1>1, <1>e, <1>r, <2>6, <4>1, SMTT(30)
    <3>5. SizedAt(r, n, <<"name", o>>, port, p, k - 2)
      BY <1>3, <3>3, <3>4, ZenonT(30)
    <3> QED
      BY <1>1, <1>6, <3>4, <3>5, ZenonT(30) DEF SizedAt
  <2> QED
    BY <1>e, <1>6, <2>5, <2>6, SMTT(30)
<1>7. CASE h[1] = "ipv4" /\ k >= 1
  <2>1. Len(a) = n + 3
    <3>1. Len(a) = 7 /\ n = 4
      BY <1>2, <1>7, ZenonT(30)
    <3> QED
      BY <3>1, SMTT(30)
  <2> HIDE DEF Good
  <2> QED
    BY <1>2, <1>5, <1>7, <2>1, ZenonT(30)
<1>8. CASE h[1] = "ipv6" /\ k >= 1
  <2>1. Len(a) = n + 3
    <3>1. Len(a) = 19 /\ n = 16
      BY <1>2, <1>8, ZenonT(30)
    <3> QED
      BY <3>1, SMTT(30)
  <2> HIDE DEF Good
  <2> QED
    BY <1>2, <1>5, <1>8, <2>1, ZenonT(30)
<1> HIDE DEF Good
<1> QED
  BY <1>1, <1>e, <1>4, <1>6, <1>7, <1>8, SMTT(30)

(* Nothing of the methods, or all of them. *)
MethodsAt(r, m, y, k) ==
    /\ k < 1 + Len(m) => r.err = "eof"
    /\ k >= 1 + Len(m) => /\ r.err = "none" /\ r.rest = SubSeq(y, 1, k - (1 + Len(m)))
                          /\ 0 \in r.methods <=> 0 \in Range(m)

(* v5::read_auth_methods: nothing until all methods are there. *)
LEMMA AuthRead ==
    ASSUME NEW m \in Seq(Octet), Len(m) < 256, NEW y \in Seq(Octet), NEW k \in 0..(1 + Len(m) + Len(y))
    PROVE  MethodsAt(ReadAuthMethods(SubSeq(<<Len(m)>> \o (m \o y), 1, k)), m, y, k)
<1> USE DEF MethodsAt
<1> DEFINE n == Len(m)  t == m \o y  b == SubSeq(<<n>> \o t, 1, k)  r == ReadAuthMethods(b)
<1>1. n \in Nat /\ n \in Octet /\ Len(y) \in Nat /\ k \in Nat
  BY SMTT(30) DEF Octet
<1>2. t \in Seq(Octet) /\ Len(t) = n + Len(y)
  BY Apart, SMTT(30)
<1> HIDE DEF t
<1>3. k \in 0..(1 + Len(t))
  BY <1>1, <1>2, SMTT(30)
<1>4. /\ b \in Seq(Octet) /\ Len(b) = k /\ (k = 0 <=> b = << >>)
      /\ k >= 1 => b[1] = n /\ Tail(b) = SubSeq(t, 1, k - 1) /\ From(b, 2) = Tail(b)
  BY <1>1, <1>2, <1>3, CutOne, ZenonT(30)
<1> HIDE DEF b
<1>5. CASE k < 1 + n
  <2>1. b = << >> \/ Len(b) < 1 + b[1]
    BY <1>1, <1>4, <1>5, SMTT(30)
  <2>2. r.err = "eof"
    BY <2>1, ZenonT(30) DEF ReadAuthMethods
  <2>3. ~(k >= 1 + n)
    BY <1>1, <1>5, SMTT(30)
  <2> QED
    BY <2>2, <2>3, ZenonT(30) DEF b, t
<1>6. CASE k >= 1 + n
  <2> DEFINE c == SubSeq(t, 1, k - 1)
  <2>0. k >= 1 /\ k - 1 \in 0..(n + Len(y)) /\ k - 1 >= n /\ (k - 1) - n = k - (1 + n)
    BY <1>1, <1>6
  <2>1. /\ c \in Seq(Octet) /\ Len(c) = k - 1 /\ \A i \in 1..(k - 1) : i <= n => c[i] = m[i]
        /\ From(c, n + 1) = SubSeq(y, 1, (k - 1) - n)
    BY <2>0, CutApart, ZenonT(30) DEF t
  <2>2. c = Tail(b) /\ b[1] = n /\ b # << >> /\ ~(Len(b) < 1 + b[1])
    <3>1. c = Tail(b) /\ b[1] = n /\ Len(b) = k
      BY <1>4, <2>0, ZenonT(30)
    <3>2. k # 0 /\ ~(k < 1 + n)
      BY <1>1, <1>6
    <3> QED
      BY <1>4, <3>1, <3>2, ZenonT(30)
  <2> HIDE DEF c
  <2>3. \A i \in 1..n : b[1 + i] = m[i]
    <3>1. \A i \in 1..n : i \in 1..(k - 1)
      BY <1>1, <2>0, SMTT(30)
    <3>2. \A i \in 1..(k - 1) : Tail(b)[i] = b[1 + i]
      BY <1>1, <1>4, <2>2, SMTT(30)
    <3> QED
      BY <1>1, <2>1, <2>2, <3>1, <3>2, SMTT(30)
  <2>4. From(b, 2 + n) = From(c, n + 1)
    <3> DEFINE u == SubSeq(b, 2 + n, Len(b))  v == SubSeq(c, n + 1, Len(c))  l == (k - 1) - n
    <3>1. l \in Nat /\ u \in Seq(Octet) /\ Len(u) = l /\ \A i \in 1..l : u[i] = b[1 + (n + i)]
      BY <1>1, <1>4, <2>0, SMTT(30)
    <3>2. v \in Seq(Octet) /\ Len(v) = l /\ \A i \in 1..l : v[i] = c[n + i]
      BY <1>1, <2>0, <2>1, SMTT(30)
    <3>3. \A i \in 1..l : n + i \in 1..(k - 1)
      BY <1>1, <2>0, SMTT(30)
    <3>4. \A i \in 1..(k - 1) : c[i] = b[1 + i]
      BY <1>1, <1>4, <2>2, SMTT(30)
    <3>5. \A i \in 1..l : u[i] = v[i]
      BY <3>1, <3>2, <3>3, <3>4, ZenonT(30)
    <3> HIDE DEF u, v, l
    <3>6. u = v
      BY <3>1, <3>2, <3>5, SeqEqual, SMTT(30)
    <3> QED
      BY <3>6, ZenonT(30) DEF From, u, v
  <2>5. r = [err |-> "none", methods |-> {b[1 + i] : i \in 1..b[1]}, rest |-> From(b, 2 + b[1])]
    BY <2>2, ZenonT(30) DEF ReadAuthMethods
  <2>6. r.err = "none" /\ r.rest = From(b, 2 + n) /\ r.methods = {b[1 + i] : i \in 1..n}
    BY <2>2, <2>5, SMTT(30)
  <2> HIDE DEF r
  <2>7. 0 \in r.methods <=> 0 \in Range(m)
    <3>1. Range(m) = {m[i] : i \in 1..n}
      BY <1>1, SMTT(30) DEF Range
    <3> QED
      BY <2>3, <2>6, <3>1, ZenonT(30)
  <2>8. r.rest = SubSeq(y, 1, k - (1 + n)) /\ ~(k < 1 + n)
    BY <1>1, <1>6, <2>0, <2>1, <2>4, <2>6, SMTT(30)
  <2> QED
    BY <2>6, <2>7, <2>8, ZenonT(30) DEF r, b, t
<1>7. k < 1 + n \/ k >= 1 + n
  BY <1>1
<1> QED
  BY <1>5, <1>6, <1>7, ZenonT(30)

(* v5::read_request on the first k octets. *)
LEMMA Request5Read ==
    ASSUME NEW c \in Octet, NEW h, SocksHost(h), NEW port \in U16, NEW p \in Seq(Octet), NEW replies,
           NEW k \in 0..(3 + (Len(RfcAddress(h, port)) + Len(p)))
    PROVE  LET a == RfcAddress(h, port)
               r == ReadRequest5(SubSeq(<<5, c, 0>> \o (a \o p), 1, k), replies)
           IN  /\ k < 3 + Len(a) => r = Failed("eof", replies)
               /\ k >= 3 + Len(a) => r = Request(c, h, port, SubSeq(p, 1, k - (3 + Len(a))), replies)
<1> DEFINE a == RfcAddress(h, port)  t == a \o p  x == <<5, c, 0>>  b == SubSeq(x \o t, 1, k)
           r == ReadRequest5(b, replies)  n == Len(a)  A == ReadAddress(From(b, 4))
<1>0. a \in Seq(Octet)
  BY AddressForm, ZenonT(30)
<1>1. a \in Seq(Octet) /\ n \in Nat /\ Len(p) \in Nat /\ k \in Nat
  BY <1>0, SMTT(30)
<1>r. k \in 0..(3 + (n + Len(p)))
  BY ZenonT(30)
<1>2. t \in Seq(Octet) /\ Len(t) = n + Len(p)
  BY <1>1, Apart, SMTT(30)
<1>3. x \in Seq(Octet) /\ Len(x) = 3 /\ x[1] = 5 /\ x[2] = c
  BY SMTT(30) DEF Octet
<1>a. \A j \in 0..(n + Len(p)) :
        LET d == ReadAddress(SubSeq(t, 1, j)) IN
        /\ j < n => d.err = "eof"
        /\ j >= n => d = [err |-> "none", host |-> h, port |-> port, rest |-> SubSeq(p, 1, j - n)]
  BY AddressRead, SMTT(30)
<1> HIDE DEF t, a, x
<1>4. /\ b \in Seq(Octet) /\ Len(b) = k /\ \A i \in 1..k : i <= 3 => b[i] = x[i]
      /\ k >= 3 => From(b, 4) = SubSeq(t, 1, k - 3)
  <2>1. k \in 0..(Len(x) + Len(t))
    BY <1>1, <1>2, <1>3, <1>r, ZenonT(30)
  <2>2. /\ b \in Seq(Octet) /\ Len(b) = k /\ \A i \in 1..k : i <= Len(x) => b[i] = x[i]
        /\ k >= Len(x) => From(b, Len(x) + 1) = SubSeq(t, 1, k - Len(x))
    BY <1>2, <1>3, <2>1, CutApart, ZenonT(30)
  <2> HIDE DEF b
  <2> QED
    BY <1>3, <2>2, SMTT(30)
<1> HIDE DEF b
<1>5. CASE k < 3
  <2>1. b = << >> \/ (b[1] = 5 /\ Len(b) < 3)
    BY <1>1, <1>3, <1>4, <1>5
  <2>2. r = Failed("eof", replies)
    BY <2>1, ZenonT(30) DEF ReadRequest5
  <2>3. ~(k >= 3 + n)
    BY <1>1, <1>5, SMTT(30)
  <2> QED
    BY <2>2, <2>3 DEF b, t, x, a
<1>6. CASE k >= 3
  <2>1. b # << >> /\ b[1] = 5 /\ b[2] = c /\ ~(Len(b) < 3)
    BY <1>1, <1>3, <1>4, <1>6, SMTT(30)
  <2>2. k - 3 \in 0..(n + Len(p)) /\ A = ReadAddress(SubSeq(t, 1, k - 3))
    <3>1. From(b, 4) = SubSeq(t, 1, k - 3)
      BY <1>4, <1>6
    <3>2. k - 3 \in 0..(n + Len(p))
      BY <1>1, <1>6, <1>r, SMTT(30)
    <3> QED
      BY <3>1, <3>2, ZenonT(30)
  <2>3. /\ k - 3 < n => A.err = "eof"
        /\ k - 3 >= n => A = [err |-> "none", host |-> h, port |-> port, rest |-> SubSeq(p, 1, (k - 3) - n)]
    BY <1>a, <2>2, ZenonT(30)
  <2>4. /\ r = IF A.err = "eof" THEN Failed("eof", replies)
               ELSE IF A.err = "type" THEN Failed("type", Append(replies, 8))
               ELSE Request(c, A.host, A.port, A.rest, replies)
    BY <2>1, ZenonT(30) DEF ReadRequest5
  <2> HIDE DEF A, r
  <2>5. CASE k < 3 + n
    <3>1. k - 3 < n /\ ~(k >= 3 + n)
      BY <1>1, <2>5, SMTT(30)
    <3>2. r = Failed("eof", replies)
      BY <2>3, <2>4, <3>1, ZenonT(30)
    <3> QED
      BY <3>1, <3>2, ZenonT(30) DEF r, b, t, x, a
  <2>6. CASE k >= 3 + n
    <3>1. k - 3 >= n /\ ~(k < 3 + n) /\ (k - 3) - n = k - (3 + n)
      BY <1>1, <2>6, SMTT(30)
    <3>2. A.err = "none" /\ A.host = h /\ A.port = port /\ A.rest = SubSeq(p, 1, k - (3 + n))
      BY <2>3, <3>1, SMTT(30)
    <3>3. r = Request(c, h, port, SubSeq(p, 1, k - (3 + n)), replies)
      BY <2>4, <3>2, ZenonT(30)
    <3> QED
      BY <3>1, <3>3, ZenonT(30) DEF r, b, t, x, a
  <2> QED
    BY <1>1, <2>5, <2>6, SMTT(30)
<1> QED
  BY <1>1, <1>5, <1>6, SMTT(30)

(* A SOCKS5 request, octet by octet, and what follows it. *)
LEMMA Rfc1928Form ==
    ASSUME NEW q, q.methods \in Seq(Octet), Len(q.methods) < 256, q.command \in Octet,
           SocksHost(q.host), q.port \in U16, NEW p \in Seq(Octet)
    PROVE  LET a == RfcAddress(q.host, q.port)
               m == q.methods
               y == <<5, q.command, 0>> \o (a \o p)
           IN  /\ a \in Seq(Octet) /\ y \in Seq(Octet) /\ Len(y) = 3 + (Len(a) + Len(p))
               /\ Len(Rfc1928(q)) = 5 + Len(m) + Len(a)
               /\ Len(Rfc1928(q) \o p) = 5 + Len(m) + Len(a) + Len(p)
               /\ Rfc1928(q) \o p = <<5>> \o (<<Len(m)>> \o (m \o y))
<1> DEFINE a == RfcAddress(q.host, q.port)  m == q.methods  n == Len(m)  x == <<5, q.command, 0>>
           v == <<5>>  w == <<n>>  z == a \o p  y == x \o z
<1>1. a \in Seq(Octet)
  BY AddressForm, Zenon
<1>2. x \in Seq(Octet) /\ Len(x) = 3
  BY SMTT(30) DEF Octet
<1>3. n \in Octet /\ n \in Nat /\ Len(p) \in Nat
  BY SMTT(30) DEF Octet
<1>4. v \in Seq(Octet) /\ w \in Seq(Octet) /\ Len(v) = 1 /\ Len(w) = 1 /\ <<5, n>> = v \o w
  BY <1>3, SMTT(30) DEF Octet
<1>5. Rfc1928(q) = (((v \o w) \o m) \o x) \o a
  BY <1>4, ZenonT(30) DEF Rfc1928
<1> HIDE DEF a, x, v, w, m
<1>m. m \in Seq(Octet)
  BY ZenonT(30) DEF m
<1>6. /\ v \o w \in Seq(Octet) /\ Len(v \o w) = Len(v) + Len(w)
  BY <1>4, Apart, ZenonT(30)
<1>7. /\ (v \o w) \o m \in Seq(Octet) /\ Len((v \o w) \o m) = Len(v \o w) + Len(m)
  BY <1>6, <1>m, Apart, ZenonT(30)
<1>8. /\ ((v \o w) \o m) \o x \in Seq(Octet) /\ Len(((v \o w) \o m) \o x) = Len((v \o w) \o m) + Len(x)
  BY <1>7, <1>2, Apart, ZenonT(30)
<1>9. /\ Rfc1928(q) \in Seq(Octet) /\ Len(Rfc1928(q)) = Len(((v \o w) \o m) \o x) + Len(a)
  BY <1>1, <1>5, <1>8, Apart, SMTT(30)
<1>10. Len(Rfc1928(q) \o p) = Len(Rfc1928(q)) + Len(p)
  BY <1>9, Apart, ZenonT(30)
<1>11. z \in Seq(Octet) /\ Len(z) = Len(a) + Len(p)
  BY <1>1, Apart, ZenonT(30)
<1>12. Rfc1928(q) \o p = (((v \o w) \o m) \o x) \o z
  <2>1. ((((v \o w) \o m) \o x) \o a) \o p = (((v \o w) \o m) \o x) \o (a \o p)
    BY <1>1, <1>8, Regroup, ZenonT(30) DEF Assoc
  <2> QED
    BY <1>5, <2>1, ZenonT(30)
<1> HIDE DEF z
<1>13. y \in Seq(Octet) /\ Len(y) = Len(x) + Len(z)
  BY <1>2, <1>11, Apart, ZenonT(30)
<1>14. (((v \o w) \o m) \o x) \o z = ((v \o w) \o m) \o y
  BY <1>2, <1>7, <1>11, Regroup, ZenonT(30) DEF Assoc
<1> HIDE DEF y
<1>15. ((v \o w) \o m) \o y = (v \o w) \o (m \o y)
  BY <1>6, <1>m, <1>13, Regroup, ZenonT(30) DEF Assoc
<1>16. m \o y \in Seq(Octet)
  BY <1>m, <1>13, Apart, SMTT(30)
<1>17. (v \o w) \o (m \o y) = v \o (w \o (m \o y))
  BY <1>4, <1>16, Regroup, ZenonT(30) DEF Assoc
<1>18. Rfc1928(q) \o p = v \o (w \o (m \o y))
  BY <1>12, <1>14, <1>15, <1>17, ZenonT(30)
<1>19. Len(a) \in Nat
  BY <1>1, SMTT(30)
<1>20. /\ Len(Rfc1928(q)) = 5 + n + Len(a) /\ Len(Rfc1928(q) \o p) = 5 + n + Len(a) + Len(p)
       /\ Len(y) = 3 + (Len(a) + Len(p))
  BY <1>2, <1>3, <1>4, <1>6, <1>7, <1>8, <1>9, <1>10, <1>11, <1>13, <1>19, SMTT(30) DEF m
<1> QED
  BY <1>1, <1>13, <1>18, <1>20, ZenonT(30) DEF y, z, x, a, v, w, m

(* What is taken from the first k octets of a SOCKS5 request. *)
Taken5(o, q, p, k) ==
    LET size == Len(Rfc1928(q)) IN
    /\ k < size => o.err # "none" /\ Len(o.replies) <= 1
    /\ k >= size => o = IF 0 \notin Range(q.methods) THEN Failed("auth", <<255>>)
                        ELSE IF q.command \in {1, 3}
                          THEN Request(q.command, q.host, q.port, SubSeq(p, 1, k - size), <<0>>)
                        ELSE Failed("command", <<0, 7>>)

LEMMA FailedFields ==
    /\ \A e, r : Failed(e, r).err = e /\ Failed(e, r).replies = r
    /\ \A c, h, port, rest, r :
         LET o == Request(c, h, port, rest, r) IN
         o.err = "none" /\ o.command = c /\ o.host = h /\ o.port = port /\ o.rest = rest
BY SMTT(30) DEF Failed, Request

(* The handshake of socks5, step by step. *)
LEMMA Socks5Arms ==
    ASSUME NEW b, NEW m, m = ReadAuthMethods(b), NEW r, r = ReadRequest5(m.rest, << 0 >>)
    PROVE  /\ m.err # "none" => Socks5(b) = Failed("eof", << >>)
           /\ m.err = "none" /\ 0 \notin m.methods => Socks5(b) = Failed("auth", <<255>>)
           /\ m.err = "none" /\ 0 \in m.methods /\ (r.err # "none" \/ r.command \in {1, 3}) => Socks5(b) = r
           /\ m.err = "none" /\ 0 \in m.methods /\ r.err = "none" /\ r.command \notin {1, 3} =>
                Socks5(b) = Failed("command", <<0, 7>>)
BY ZenonT(30) DEF Socks5

LEMMA AcceptArms ==
    ASSUME NEW b
    PROVE  /\ b = << >> => OnSocksAccept(b) = Failed("eof", << >>)
           /\ b # << >> /\ b[1] = 4 => OnSocksAccept(b) = Socks4(Tail(b))
           /\ b # << >> /\ b[1] = 5 => OnSocksAccept(b) = Socks5(Tail(b))
<1>1. ASSUME b = << >> PROVE OnSocksAccept(b) = Failed("eof", << >>)
  BY <1>1, SMTT(30) DEF OnSocksAccept
<1>2. ASSUME b # << >>, b[1] = 4 PROVE OnSocksAccept(b) = Socks4(Tail(b))
  BY <1>2, SMTT(30) DEF OnSocksAccept
<1>3. ASSUME b # << >>, b[1] = 5 PROVE OnSocksAccept(b) = Socks5(Tail(b))
  BY <1>3, SMTT(30) DEF OnSocksAccept
<1> QED
  BY <1>1, <1>2, <1>3, ZenonT(30)

LEMMA Socks5Read ==
    ASSUME NEW q, q.methods \in Seq(Octet), Len(q.methods) < 256, q.command \in Octet,
           SocksHost(q.host), q.port \in U16, NEW p \in Seq(Octet),
           NEW k \in 0..Len(Rfc1928(q) \o p)
    PROVE  Taken5(OnSocksAccept(SubSeq(Rfc1928(q) \o p, 1, k)), q, p, k)
<1> DEFINE a == RfcAddress(q.host, q.port)  m == q.methods  n == Len(m)
           y == <<5, q.command, 0>> \o (a \o p)  u == <<n>> \o (m \o y)
           size == Len(Rfc1928(q))  b == SubSeq(Rfc1928(q) \o p, 1, k)  o == OnSocksAccept(b)
<1>1. /\ a \in Seq(Octet) /\ y \in Seq(Octet) /\ Len(y) = 3 + (Len(a) + Len(p)) /\ size = 5 + n + Len(a)
      /\ Len(Rfc1928(q) \o p) = 5 + n + Len(a) + Len(p) /\ Rfc1928(q) \o p = <<5>> \o u
  BY Rfc1928Form, ZenonT(30)
<1>2. /\ n \in Octet /\ n \in Nat /\ Len(p) \in Nat /\ Len(a) \in Nat /\ 5 \in Octet
      /\ k \in 0..(5 + n + Len(a) + Len(p)) /\ k \in Nat
  <2>1. Len(Rfc1928(q) \o p) = 5 + n + Len(a) + Len(p) /\ a \in Seq(Octet) /\ m \in Seq(Octet) /\ Len(m) < 256
    BY <1>1, ZenonT(30)
  <2>2. k \in 0..(5 + n + Len(a) + Len(p))
    BY <2>1, ZenonT(30)
  <2> HIDE DEF a, m
  <2>3. Len(a) \in Nat /\ n \in Nat /\ Len(p) \in Nat
    BY <2>1, SMTT(30)
  <2> QED
    BY <2>1, <2>2, <2>3, SMTT(30) DEF Octet
<1> SUFFICES Taken5(o, q, p, k)
  OBVIOUS
<1>0. ASSUME NEW j \in 0..(1 + n + Len(y)) PROVE MethodsAt(ReadAuthMethods(SubSeq(u, 1, j)), m, y, j)
  BY <1>1, AuthRead, ZenonT(30)
<1>b. \A j \in 0..(3 + (Len(a) + Len(p))) :
        LET r == ReadRequest5(SubSeq(y, 1, j), <<0>>) IN
        /\ j < 3 + Len(a) => r = Failed("eof", <<0>>)
        /\ j >= 3 + Len(a) => r = Request(q.command, q.host, q.port, SubSeq(p, 1, j - (3 + Len(a))), <<0>>)
  BY Request5Read, SMTT(30)
<1>3. u \in Seq(Octet) /\ Len(u) = 1 + (n + Len(y))
  <2>1. m \o y \in Seq(Octet) /\ Len(m \o y) = n + Len(y)
    BY <1>1, Apart, ZenonT(30)
  <2> HIDE DEF y
  <2> QED
    BY <1>2, <2>1, OneMore, SMTT(30)
<1> HIDE DEF u, y, a, size, m
<1>4. b = SubSeq(<<5>> \o u, 1, k) /\ k \in 0..(1 + Len(u))
  BY <1>1, <1>2, <1>3, SMTT(30)
<1> HIDE DEF b
<1>5. CASE k = 0
  <2>1. b = << >>
    BY <1>2, <1>3, <1>4, <1>5, CutOne, SMTT(30)
  <2>2. o = Failed("eof", << >>)
    BY <2>1, AcceptArms, ZenonT(30)
  <2> QED
    <3>1. o.err # "none" /\ Len(o.replies) <= 1
      BY <2>2, FailedFields
    <3>2. size = 5 + n + Len(a) /\ ~(k >= size)
      BY <1>1, <1>2, <1>5, SMTT(30)
    <3> QED
      BY <3>1, <3>2, ZenonT(30) DEF Taken5, size
<1>6. CASE k >= 1
  <2> DEFINE d == SubSeq(u, 1, k - 1)  R == ReadAuthMethods(d)  j == k - (2 + n)  Q == ReadRequest5(R.rest, <<0>>)
  <2>1. b # << >> /\ b[1] = 5 /\ Tail(b) = d
    <3>1. ~(k = 0)
      BY <1>6, SMTT(30)
    <3> DEFINE c == SubSeq(<<5>> \o u, 1, k)
    <3>2. (k = 0 <=> c = << >>) /\ c[1] = 5 /\ Tail(c) = SubSeq(u, 1, k - 1)
      <4>1. k = 0 <=> c = << >>
        BY <1>2, <1>3, <1>4, CutOne, ZenonT(30)
      <4>2. c[1] = 5 /\ Tail(c) = SubSeq(u, 1, k - 1)
        BY <1>2, <1>3, <1>4, <1>6, CutOne, SMTT(30)
      <4> QED
        BY <4>1, <4>2, ZenonT(30)
    <3> QED
      BY <1>4, <3>1, <3>2, ZenonT(30)
  <2>2. o = Socks5(d)
    BY <2>1, AcceptArms, ZenonT(30)
  <2>3. k - 1 \in 0..(1 + n + Len(y))
    BY <1>1, <1>2, <1>6, SMTT(30)
  <2> HIDE DEF o
  <2>4. CASE k < 2 + n
    <3>1. k - 1 < 1 + n
      BY <1>2, <2>4, SMTT(30)
    <3>2. R.err = "eof"
      <4>1. MethodsAt(R, m, y, k - 1)
        BY <1>0, <2>3, ZenonT(30)
      <4> QED
        BY <3>1, <4>1, SMTT(30) DEF MethodsAt
    <3> HIDE DEF R, d
    <3>3. o = Failed("eof", << >>)
      BY <2>2, <3>2, Socks5Arms, SMTT(30) DEF R
    <3>4. k < size
      BY <1>1, <1>2, <2>4, SMTT(30)
    <3>5. ~(k >= size)
      BY <1>1, <1>2, <3>4, SMTT(30)
    <3>6. o.err # "none" /\ Len(o.replies) <= 1
      BY <3>3, FailedFields, SMTT(30)
    <3> QED
      BY <3>5, <3>6, ZenonT(30) DEF Taken5, size
  <2>5. CASE k >= 2 + n
    <3>1. k - 1 >= 1 + n /\ (k - 1) - (1 + n) = j /\ j \in 0..(3 + (Len(a) + Len(p)))
      BY <1>1, <1>2, <2>5, SMTT(30)
    <3>2. R.err = "none" /\ R.rest = SubSeq(y, 1, j) /\ (0 \in R.methods <=> 0 \in Range(m))
      <4>1. MethodsAt(R, m, y, k - 1)
        BY <1>0, <2>3, Zenon
      <4> QED
        BY <3>1, <4>1, SMTT(30) DEF MethodsAt
    <3>3. Q = ReadRequest5(SubSeq(y, 1, j), <<0>>)
      BY <3>2, ZenonT(30)
    <3>4. /\ j < 3 + Len(a) => Q = Failed("eof", <<0>>)
          /\ j >= 3 + Len(a) => Q = Request(q.command, q.host, q.port, SubSeq(p, 1, j - (3 + Len(a))), <<0>>)
      BY <1>b, <3>1, <3>3, ZenonT(30)
    <3>5. /\ (k < size <=> j < 3 + Len(a)) /\ (k >= size <=> ~(j < 3 + Len(a)))
          /\ (j >= 3 + Len(a) <=> ~(j < 3 + Len(a))) /\ j - (3 + Len(a)) = k - size
      <4>1. size = 5 + n + Len(a)
        BY <1>1, ZenonT(30)
      <4> HIDE DEF Q
      <4> QED
        BY <1>2, <4>1, SMTT(30)
    <3>6. /\ 0 \notin R.methods => o = Failed("auth", <<255>>)
          /\ 0 \in R.methods /\ (Q.err # "none" \/ Q.command \in {1, 3}) => o = Q
          /\ 0 \in R.methods /\ Q.err = "none" /\ Q.command \notin {1, 3} => o = Failed("command", <<0, 7>>)
      <4> HIDE DEF R, d, j
      <4>1. R = ReadAuthMethods(d)
        BY DEF R
      <4> QED
        BY <2>2, <3>2, <4>1, Socks5Arms, ZenonT(30)
    <3> HIDE DEF Q, R, j
    <3>7. CASE 0 \notin Range(m)
      <4>1. o = Failed("auth", <<255>>)
        BY <3>2, <3>6, <3>7, ZenonT(30)
      <4>2. o.err # "none" /\ Len(o.replies) <= 1
        BY <4>1, SMTT(30) DEF Failed
      <4> QED
        BY <3>7, <4>1, <4>2, ZenonT(30) DEF Taken5, size, m
    <3>8. CASE 0 \in Range(m) /\ j < 3 + Len(a)
      <4>1. Q = Failed("eof", <<0>>)
        BY <3>4, <3>8, ZenonT(30)
      <4>2. Q.err # "none" /\ Len(Q.replies) <= 1
        BY <4>1, SMTT(30) DEF Failed
      <4>3. o = Q /\ ~(k >= size)
        BY <3>2, <3>5, <3>6, <3>8, <4>2, ZenonT(30)
      <4> QED
        BY <4>2, <4>3, ZenonT(30) DEF Taken5, size
    <3>9. CASE 0 \in Range(m) /\ ~(j < 3 + Len(a))
      <4>1. Q = Request(q.command, q.host, q.port, SubSeq(p, 1, k - size), <<0>>)
        BY <3>4, <3>5, <3>9, ZenonT(30)
      <4>2. Q.err = "none" /\ Q.command = q.command
        BY <4>1, SMTT(30) DEF Request
      <4>3. o = IF q.command \in {1, 3} THEN Q ELSE Failed("command", <<0, 7>>)
        BY <3>2, <3>6, <3>9, <4>2, ZenonT(30)
      <4>4. ~(k < size)
        BY <3>5, <3>9, ZenonT(30)
      <4> QED
        BY <3>9, <4>1, <4>3, <4>4, ZenonT(30) DEF Taken5, size, m
    <3> QED
      BY <3>7, <3>8, <3>9, ZenonT(30)
  <2> QED
    BY <1>2, <2>4, <2>5, SMTT(30)
<1> QED
  BY <1>2, <1>5, <1>6, SMTT(30)

(* What is taken from the first k octets of a datagram of the relay. *)
TakenUdp(o, q, p, k) ==
    LET size == Len(RfcUdp(q)) IN
    /\ k < size => o.err # "none"
    /\ k >= size => o = IF q.frag # 0 THEN Failed("None", << >>)
                        ELSE Request(0, q.host, q.port, SubSeq(p, 1, k - size), << >>)

LEMMA HeaderArms ==
    ASSUME NEW b, NEW a, a = ReadAddress(From(b, 4))
    PROVE  LET o == HandleUdpRelayHeader(b) IN
           /\ Len(b) < 4 => o = Failed("Err", << >>)
           /\ ~(Len(b) < 4) /\ b[3] # 0 => o = Failed("None", << >>)
           /\ ~(Len(b) < 4) /\ b[3] = 0 /\ a.err = "eof" => o = Failed("Err", << >>)
           /\ ~(Len(b) < 4) /\ b[3] = 0 /\ a.err = "none" => o = Request(0, a.host, a.port, a.rest, << >>)
BY ZenonT(30) DEF HandleUdpRelayHeader

LEMMA UdpRead ==
    ASSUME NEW q, q.frag \in Octet, SocksHost(q.host), q.port \in U16, NEW p \in Seq(Octet),
           NEW k \in 0..Len(RfcUdp(q) \o p)
    PROVE  TakenUdp(HandleUdpRelayHeader(SubSeq(RfcUdp(q) \o p, 1, k)), q, p, k)
<1> DEFINE a == RfcAddress(q.host, q.port)  x == <<0, 0, q.frag>>  t == a \o p  n == Len(a)
           size == Len(RfcUdp(q))  b == SubSeq(RfcUdp(q) \o p, 1, k)  o == HandleUdpRelayHeader(b)
           A == ReadAddress(From(b, 4))
<1> SUFFICES TakenUdp(o, q, p, k)
  BY SMTT(30)
<1>1. a \in Seq(Octet)
  BY AddressForm, ZenonT(30)
<1>2. x \in Seq(Octet) /\ Len(x) = 3 /\ x[3] = q.frag
  BY SMTT(30) DEF Octet
<1>3. RfcUdp(q) = x \o a
  BY ZenonT(30) DEF RfcUdp
<1>4. ASSUME NEW j \in 0..(n + Len(p))
      PROVE  LET r == ReadAddress(SubSeq(t, 1, j)) IN
             /\ j < n => r.err = "eof"
             /\ j >= n => r = [err |-> "none", host |-> q.host, port |-> q.port, rest |-> SubSeq(p, 1, j - n)]
  BY AddressRead, ZenonT(30)
<1>5. n >= 4
  <2> DEFINE h == q.host
  <2>1. /\ h[1] = "ipv4" => n = 7
        /\ h[1] = "ipv6" => n = 19
        /\ h[1] = "name" => n = Len(h[2]) + 4
    BY AddressForm, ZenonT(30)
  <2>2. h[1] \in {"ipv4", "ipv6", "name"} /\ Len(h[2]) \in Nat
    BY SMTT(30) DEF SocksHost
  <2> HIDE DEF a, h
  <2>3. CASE h[1] = "name"
    BY <2>1, <2>2, <2>3, SMTT(30)
  <2>4. CASE h[1] = "ipv4"
    <3>1. n = 7
      BY <2>1, <2>4, ZenonT(30)
    <3> QED
      BY <3>1, SMTT(30)
  <2>5. CASE h[1] = "ipv6"
    <3>1. n = 19
      BY <2>1, <2>5, ZenonT(30)
    <3> QED
      BY <3>1, SMTT(30)
  <2> QED
    BY <2>2, <2>3, <2>4, <2>5, ZenonT(30)
<1> HIDE DEF x, a
<1>6. /\ x \o a \in Seq(Octet) /\ size = 3 + n
  <2>1. x \o a \in Seq(Octet) /\ Len(x \o a) = Len(x) + Len(a)
    BY <1>1, <1>2, Apart, ZenonT(30)
  <2> QED
    BY <1>2, <1>3, <2>1, SMTT(30)
<1>7. RfcUdp(q) \o p = x \o t
  <2>1. (x \o a) \o p = x \o (a \o p)
    BY <1>1, <1>2, Regroup, ZenonT(30) DEF Assoc
  <2> QED
    BY <1>3, <2>1
<1>8. t \in Seq(Octet) /\ Len(t) = n + Len(p)
  BY <1>1, Apart, SMTT(30)
<1> HIDE DEF t
<1>9. Len(x \o t) = Len(x) + Len(t)
  BY <1>2, <1>8, Apart, ZenonT(30)
<1>10. n \in Nat /\ Len(p) \in Nat /\ k \in Nat /\ k \in 0..(3 + (n + Len(p)))
  <2>1. k \in 0..Len(x \o t)
    BY <1>7, ZenonT(30)
  <2>2. n \in Nat /\ Len(p) \in Nat
    BY <1>1, SMTT(30)
  <2> QED
    BY <1>2, <1>8, <1>9, <2>1, <2>2, SMTT(30)
<1>11. b = SubSeq(x \o t, 1, k)
  BY <1>7, SMTT(30)
<1> HIDE DEF size, b
<1>12. /\ b \in Seq(Octet) /\ Len(b) = k /\ (k >= 3 => b[3] = q.frag)
       /\ k >= 3 => From(b, 4) = SubSeq(t, 1, k - 3)
  <2> DEFINE c == SubSeq(x \o t, 1, k)
  <2>1. k \in 0..(Len(x) + Len(t))
    BY <1>2, <1>8, <1>10, SMTT(30)
  <2>2. /\ c \in Seq(Octet) /\ Len(c) = k /\ \A i \in 1..k : i <= Len(x) => c[i] = x[i]
        /\ k >= Len(x) => From(c, Len(x) + 1) = SubSeq(t, 1, k - Len(x))
    BY <1>2, <1>8, <2>1, CutApart, ZenonT(60)
  <2> HIDE DEF c
  <2>3. /\ c \in Seq(Octet) /\ Len(c) = k /\ (k >= 3 => c[3] = q.frag)
        /\ k >= 3 => From(c, 4) = SubSeq(t, 1, k - 3)
    BY <1>2, <1>10, <2>2
  <2> QED
    BY <1>11, <2>3, ZenonT(30) DEF c
<1>13. CASE k < 4
  <2>1. Len(b) < 4
    BY <1>12, <1>13, SMTT(30)
  <2> HIDE DEF o
  <2>2. o = Failed("Err", << >>)
    BY <2>1, HeaderArms, SMTT(30) DEF o
  <2>3. o.err # "none"
    BY <2>2, SMTT(30) DEF Failed
  <2>4. ~(k >= size)
    BY <1>5, <1>6, <1>10, <1>13, SMTT(30)
  <2> QED
    BY <2>3, <2>4, ZenonT(30) DEF TakenUdp, size
<1>14. CASE k >= 4
  <2>1. ~(Len(b) < 4) /\ b[3] = q.frag /\ From(b, 4) = SubSeq(t, 1, k - 3) /\ k - 3 \in 0..(n + Len(p))
    BY <1>10, <1>12, <1>14, SMTT(30)
  <2>2. /\ k - 3 < n => A.err = "eof"
        /\ k - 3 >= n => A = [err |-> "none", host |-> q.host, port |-> q.port, rest |-> SubSeq(p, 1, (k - 3) - n)]
    BY <1>4, <2>1, ZenonT(30)
  <2>3. /\ (k < size <=> k - 3 < n) /\ (k >= size <=> ~(k - 3 < n)) /\ (k - 3 >= n <=> ~(k - 3 < n))
        /\ (k - 3) - n = k - size
    <3> HIDE DEF A, o
    <3> QED
      BY <1>6, <1>10, SMTT(30)
  <2> HIDE DEF o, A
  <2>4. /\ q.frag # 0 => o = Failed("None", << >>)
        /\ q.frag = 0 /\ A.err = "eof" => o = Failed("Err", << >>)
        /\ q.frag = 0 /\ A.err = "none" => o = Request(0, A.host, A.port, A.rest, << >>)
    <3>1. A = ReadAddress(From(b, 4))
      BY SMTT(30) DEF A
    <3> QED
      BY <2>1, <3>1, HeaderArms, ZenonT(30) DEF o
  <2>5. CASE q.frag # 0
    <3>1. o = Failed("None", << >>)
      BY <2>4, <2>5, ZenonT(30)
    <3>2. o.err # "none"
      BY <3>1, SMTT(30) DEF Failed
    <3> QED
      BY <2>5, <3>1, <3>2, ZenonT(30) DEF TakenUdp, size
  <2>6. CASE q.frag = 0 /\ k - 3 < n
    <3>1. o = Failed("Err", << >>)
      BY <2>2, <2>4, <2>6, ZenonT(30)
    <3>2. o.err # "none"
      BY <3>1, ZenonT(30) DEF Failed
    <3> QED
      BY <2>3, <2>6, <3>2, ZenonT(30) DEF TakenUdp, size
  <2>7. CASE q.frag = 0 /\ ~(k - 3 < n)
    <3>1. A = [err |-> "none", host |-> q.host, port |-> q.port, rest |-> SubSeq(p, 1, k - size)]
      BY <2>2, <2>3, <2>7, ZenonT(30)
    <3>2. A.err = "none" /\ A.host = q.host /\ A.port = q.port /\ A.rest = SubSeq(p, 1, k - size)
      BY <3>1, ZenonT(30)
    <3>3. o = Request(0, q.host, q.port, SubSeq(p, 1, k - size), << >>)
      BY <2>4, <2>7, <3>2, Zenon
    <3> QED
      BY <2>3, <2>7, <3>3, ZenonT(30) DEF TakenUdp, size
  <2> QED
    BY <2>5, <2>6, <2>7, ZenonT(30)
<1> QED
  BY <1>10, <1>13, <1>14, SMTT(30)

(* read_until(0) and pop() give the string and what follows its end. *)
LEMMA UntilZero ==
    ASSUME NEW u \in Seq(Octet), NEW z \in Seq(Octet), 0 \notin Range(u)
    PROVE  ReadUntilZero(u \o (<<0>> \o z)) = <<u, z>>
<1> DEFINE n == Len(u)  w == <<0>> \o z  b == u \o w  I == {i \in 1..Len(b) : b[i] = 0}
<1>1. n \in Nat /\ Len(z) \in Nat /\ 0 \in Octet
  BY SMTT(30) DEF Octet
<1>2. w \in Seq(Octet) /\ Len(w) = 1 + Len(z) /\ w[1] = 0 /\ \A i \in 1..Len(z) : w[i + 1] = z[i]
  BY <1>1, OneMore, ZenonT(30)
<1> HIDE DEF w
<1>3. /\ b \in Seq(Octet) /\ Len(b) = n + Len(w)
      /\ \A i \in 1..(n + Len(w)) : b[i] = IF i <= n THEN u[i] ELSE w[i - n]
  <2>1. w \in Seq(Octet)
    BY <1>2, SMTT(30)
  <2> HIDE DEF I
  <2> QED
    BY <2>1, ConcatProperties, SMTT(30)
<1>4. SubSeq(b, 1, n) = u
  BY <1>2, Apart, SMTT(30)
<1> HIDE DEF b
<1>5. \A i \in 1..n : u[i] # 0
  BY SMTT(30) DEF Range
<1>6. b[n + 1] = 0 /\ n + 1 \in 1..Len(b) /\ \A i \in 1..n : b[i] # 0
  <2>1. n + 1 \in 1..(n + Len(w)) /\ ~(n + 1 <= n) /\ (n + 1) - n = 1
    BY <1>1, <1>2, SMTT(30)
  <2>2. \A i \in 1..n : i \in 1..(n + Len(w)) /\ i <= n
    BY <1>1, <1>2, SMTT(30)
  <2> QED
    BY <1>2, <1>3, <1>5, <2>1, <2>2, ZenonT(30)
<1>7. n + 1 \in I /\ \A i \in I : n + 1 <= i
  BY <1>1, <1>2, <1>3, <1>6, SMTT(30)
<1>8. I \subseteq Nat
  BY <1>1, <1>3, SMTT(30)
<1> HIDE DEF I
<1>9. Min(I) = n + 1
  <2>1. \A i \in I : (\A j \in I : i <= j) => i = n + 1
    BY <1>1, <1>7, <1>8, SMTT(30)
  <2> QED
    BY <1>7, <2>1, SMTT(30) DEF Min
<1>10. (IF I = {} THEN Len(b) ELSE Min(I)) = n + 1
  BY <1>7, <1>9, Zenon
<1>11. SubSeq(b, n + 2, Len(b)) = z
  <2> DEFINE c == SubSeq(b, n + 2, Len(b))
  <2>1. c \in Seq(Octet) /\ Len(c) = Len(z) /\ \A i \in 1..Len(z) : c[i] = b[n + 1 + i]
    BY <1>1, <1>2, <1>3, SMTT(30)
  <2>2. \A i \in 1..Len(z) : /\ n + 1 + i \in 1..(n + Len(w)) /\ ~(n + 1 + i <= n)
                             /\ (n + 1 + i) - n = i + 1
    BY <1>1, <1>2, SMTT(30)
  <2>3. \A i \in 1..Len(z) : b[n + 1 + i] = z[i]
    BY <1>2, <1>3, <2>2, SMTT(30)
  <2> HIDE DEF c
  <2>4. c = z
    BY <2>1, <2>3, SeqEqual, SMTT(30)
  <2> QED
    BY <2>4, SMTT(30) DEF c
<1>12. n + 1 # 0 /\ (n + 1) - 1 = n /\ (n + 1) + 1 = n + 2
  BY <1>1, SMTT(30)
<1>13. ReadUntilZero(b) = <<SubSeq(b, 1, (n + 1) - 1), From(b, (n + 1) + 1)>>
  BY <1>10, <1>12, ZenonT(30) DEF ReadUntilZero, I
<1> QED
  BY <1>4, <1>11, <1>12, <1>13, ZenonT(30) DEF From, b, w

(* The fixed part of a SOCKS4 request after its first octet. *)
EightAt(w, y, h, t) ==
    LET b == Tail(w) IN
    /\ w # << >> /\ w[1] = y[1] /\ b \in Seq(Octet) /\ Len(b) = 7 + Len(t)
    /\ b[1] = y[2] /\ b[2] = y[3] /\ b[3] = y[4] /\ b[4] = h[1]
    /\ Octets(b, 4, 4) = h /\ From(b, 8) = t

LEMMA EightOctets ==
    ASSUME NEW y \in Seq(Octet), Len(y) = 4, NEW h \in Seq(Octet), Len(h) = 4, NEW t \in Seq(Octet)
    PROVE  EightAt((y \o h) \o t, y, h, t)
<1> DEFINE x == y \o h  w == x \o t  b == Tail(w)
<1>1. /\ x \in Seq(Octet) /\ Len(x) = 8
      /\ \A i \in 1..8 : x[i] = IF i <= 4 THEN y[i] ELSE h[i - 4]
  <2>1. /\ x \in Seq(Octet) /\ Len(x) = Len(y) + Len(h)
        /\ \A i \in 1..(Len(y) + Len(h)) : x[i] = IF i <= Len(y) THEN y[i] ELSE h[i - Len(y)]
    BY ConcatProperties, ZenonT(30)
  <2> HIDE DEF x
  <2> QED
    BY <2>1, SMTT(30)
<1>2. Len(t) \in Nat
  OBVIOUS
<1> HIDE DEF x
<1>3. /\ w \in Seq(Octet) /\ Len(w) = 8 + Len(t)
      /\ \A i \in 1..(8 + Len(t)) : w[i] = IF i <= 8 THEN x[i] ELSE t[i - 8]
  <2>1. /\ w \in Seq(Octet) /\ Len(w) = Len(x) + Len(t)
        /\ \A i \in 1..(Len(x) + Len(t)) : w[i] = IF i <= Len(x) THEN x[i] ELSE t[i - Len(x)]
    BY <1>1, ConcatProperties, ZenonT(30)
  <2> HIDE DEF w
  <2> QED
    BY <1>1, <2>1
<1> HIDE DEF w
<1>4. /\ b \in Seq(Octet) /\ Len(b) = 7 + Len(t) /\ \A i \in 1..(7 + Len(t)) : b[i] = w[i + 1]
  BY <1>2, <1>3
<1>5. w # << >> /\ w[1] = x[1]
  BY <1>2, <1>3, SMTT(30)
<1> HIDE DEF b
<1>6. \A i \in 1..7 : b[i] = x[i + 1]
  <2>1. \A i \in 1..7 : i \in 1..(7 + Len(t)) /\ i + 1 \in 1..(8 + Len(t)) /\ i + 1 <= 8
    BY <1>2, SMTT(30)
  <2> QED
    BY <1>3, <1>4, <2>1, SMTT(30)
<1>7. x[1] = y[1] /\ x[2] = y[2] /\ x[3] = y[3] /\ x[4] = y[4] /\ x[5] = h[1] /\ x[6] = h[2] /\ x[7] = h[3] /\ x[8] = h[4]
  BY <1>1, SMTT(30)
<1>8. /\ b[1] = y[2] /\ b[2] = y[3] /\ b[3] = y[4] /\ b[4] = h[1] /\ b[5] = h[2] /\ b[6] = h[3] /\ b[7] = h[4]
  <2>1. b[1] = x[2] /\ b[2] = x[3] /\ b[3] = x[4] /\ b[4] = x[5] /\ b[5] = x[6] /\ b[6] = x[7] /\ b[7] = x[8]
    BY <1>6, SMTT(30)
  <2> QED
    BY <1>7, <2>1, SMTT(30)
<1>9. Octets(b, 4, 4) = h
  <2> DEFINE c == SubSeq(b, 4, 7)
  <2>1. c \in Seq(Octet) /\ Len(c) = 4 /\ \A i \in 1..4 : c[i] = b[i + 3]
    BY <1>2, <1>4, SMTT(30)
  <2> HIDE DEF c
  <2>2. \A i \in 1..4 : c[i] = h[i]
    <3>1. c[1] = b[4] /\ c[2] = b[5] /\ c[3] = b[6] /\ c[4] = b[7]
      BY <2>1, SMTT(30)
    <3>2. \A i \in 1..4 : i = 1 \/ i = 2 \/ i = 3 \/ i = 4
      BY SMTT(30)
    <3> QED
      BY <1>8, <3>1, <3>2, SMTT(30)
  <2>3. c = h
    BY <2>1, <2>2, SeqEqual, ZenonT(30)
  <2> QED
    BY <2>3, SMTT(30) DEF Octets, c
<1>10. From(b, 8) = t
  <2> DEFINE c == SubSeq(b, 8, Len(b))
  <2>1. c \in Seq(Octet) /\ Len(c) = Len(t) /\ \A i \in 1..Len(t) : c[i] = b[i + 7]
    BY <1>2, <1>4, SMTT(30)
  <2>2. \A i \in 1..Len(t) : /\ i + 7 \in 1..(7 + Len(t)) /\ (i + 7) + 1 \in 1..(8 + Len(t))
                             /\ ~((i + 7) + 1 <= 8) /\ ((i + 7) + 1) - 8 = i
    BY <1>2, SMTT(30)
  <2>3. \A i \in 1..Len(t) : b[i + 7] = t[i]
    BY <1>3, <1>4, <2>2, ZenonT(30)
  <2> HIDE DEF c
  <2>4. c = t
    BY <2>1, <2>3, SeqEqual
  <2> QED
    BY <2>4 DEF From, c
<1> QED
  BY <1>4, <1>5, <1>7, <1>8, <1>9, <1>10, ZenonT(30) DEF EightAt, b, w, x

(* What is taken from a SOCKS4 request. *)
Taken4(o, q, p) ==
    o = IF q.command = 1 THEN Request(1, q.host, q.port, p, << >>) ELSE Failed("command", <<91>>)

(* v4::read_request *)
LEMMA Request4Arms ==
    ASSUME NEW b, ~(Len(b) < 7), NEW user, user = ReadUntilZero(From(b, 8))
    PROVE  /\ b[4] = 0 =>
                LET domain == ReadUntilZero(user[2]) IN
                ReadRequest4(b) = Request(b[1], <<"name", domain[1]>>, GetU16(b, 2), domain[2], << >>)
           /\ b[4] # 0 =>
                ReadRequest4(b) = Request(b[1], <<"ipv4", Octets(b, 4, 4)>>, GetU16(b, 2), user[2], << >>)
BY ZenonT(30) DEF ReadRequest4

LEMMA Socks4Read ==
    ASSUME NEW q, q.command \in {1, 2}, SocksHost(q.host), q.port \in U16,
           q.user \in Seq(Octet), 0 \notin Range(q.user), NEW p \in Seq(Octet),
           \/ q.host[1] = "ipv4" /\ q.host[2][1] # 0
           \/ q.host[1] = "name" /\ 0 \notin Range(q.host[2])
    PROVE  Taken4(OnSocksAccept(Socks4a(q) \o p), q, p)
<1> DEFINE g == q.host[2]  u == q.user  P == PutU16(q.port)  v == <<4, q.command>>  z == <<0>>
           h == IF q.host[1] = "ipv4" THEN g ELSE <<0, 0, 0, 1>>
           d == IF q.host[1] = "ipv4" THEN << >> ELSE Append(g, 0)
           y == v \o P  e == d \o p  t == u \o (z \o e)  w == Socks4a(q) \o p  b == Tail(w)  o == OnSocksAccept(w)
<1> SUFFICES Taken4(o, q, p)
  BY SMTT(30)
<1>1. /\ g \in Seq(Octet) /\ (q.host[1] = "ipv4" => Len(g) = 4) /\ q.host = <<q.host[1], g>>
  BY SMTT(30) DEF SocksHost
<1>2. P \in Seq(Octet) /\ Len(P) = 2 /\ Half(P[1], P[2]) = q.port
  BY Put16, SMTT(30)
<1>3. v \in Seq(Octet) /\ Len(v) = 2 /\ v[1] = 4 /\ v[2] = q.command /\ z \in Seq(Octet)
  BY SMTT(30) DEF Octet
<1>4. h \in Seq(Octet) /\ Len(h) = 4
  <2>1. CASE q.host[1] = "ipv4"
    BY <1>1, <2>1, SMTT(30)
  <2>2. CASE q.host[1] # "ipv4"
    BY <2>2, SMTT(30) DEF Octet
  <2> QED
    BY <2>1, <2>2, SMTT(30)
<1>5. d \in Seq(Octet)
  <2>1. << >> \in Seq(Octet) /\ 0 \in Octet
    BY DEF Octet
  <2>2. Append(g, 0) \in Seq(Octet)
    BY <1>1, AppendZero, ZenonT(30)
  <2> QED
    BY <2>1, <2>2, ZenonT(30)
<1>6. Socks4a(q) = ((((v \o P) \o h) \o u) \o z) \o d
  BY ZenonT(30) DEF Socks4a
<1>u. u \in Seq(Octet) /\ 0 \notin Range(u)
  BY SMTT(30)
<1> HIDE DEF P, v, h, d, z, u
<1>7. /\ y \in Seq(Octet) /\ Len(y) = 4 /\ y[1] = 4 /\ y[2] = q.command /\ y[3] = P[1] /\ y[4] = P[2]
  <2>1. /\ y \in Seq(Octet) /\ Len(y) = 4 /\ y[1] = v[1] /\ y[2] = v[2] /\ y[3] = P[1] /\ y[4] = P[2]
    BY <1>2, <1>3, Four, ZenonT(30)
  <2> QED
    BY <1>3, <2>1, ZenonT(30)
<1>8. e \in Seq(Octet) /\ z \o e \in Seq(Octet) /\ t \in Seq(Octet)
  <2>1. e \in Seq(Octet)
    BY <1>5, Apart, ZenonT(30)
  <2>2. z \o e \in Seq(Octet)
    BY <1>3, <2>1, Apart, ZenonT(30)
  <2> QED
    BY <1>u, <2>1, <2>2, Apart, ZenonT(30)
<1>9. w = (y \o h) \o t
  <2> DEFINE x == y \o h
  <2>a. x \in Seq(Octet)
    BY <1>4, <1>7, Apart, SMTT(30)
  <2>b. x \o u \in Seq(Octet)
    BY <1>u, <2>a, Apart, SMTT(30)
  <2>1. x \in Seq(Octet) /\ x \o u \in Seq(Octet) /\ (x \o u) \o z \in Seq(Octet)
    BY <1>3, <2>a, <2>b, Apart, SMTT(30)
  <2>2. w = (((x \o u) \o z) \o d) \o p
    BY <1>6, ZenonT(30)
  <2> HIDE DEF x, y
  <2>3. (((x \o u) \o z) \o d) \o p = ((x \o u) \o z) \o e
    BY <1>5, <2>1, Regroup, ZenonT(120) DEF Assoc
  <2> HIDE DEF e
  <2>4. ((x \o u) \o z) \o e = (x \o u) \o (z \o e)
    <3>1. Assoc(x \o u, z, e)
      BY <1>3, <1>8, <2>1, Regroup, ZenonT(30)
    <3> QED
      BY <3>1, Zenon DEF Assoc
  <2>5. (x \o u) \o (z \o e) = x \o t
    <3>1. Assoc(x, u, z \o e)
      BY <1>8, <1>u, <2>1, Regroup, ZenonT(30)
    <3> QED
      BY <3>1, ZenonT(30) DEF Assoc
  <2> HIDE DEF w, t
  <2> QED
    BY <2>2, <2>3, <2>4, <2>5, ZenonT(30) DEF x
<1> HIDE DEF y, e, t, w
<1>10. /\ w # << >> /\ w[1] = 4 /\ b \in Seq(Octet) /\ Len(b) = 7 + Len(t)
       /\ b[1] = q.command /\ b[2] = P[1] /\ b[3] = P[2] /\ b[4] = h[1]
       /\ Octets(b, 4, 4) = h /\ From(b, 8) = t
  <2>1. /\ w # << >> /\ w[1] = y[1] /\ b \in Seq(Octet) /\ Len(b) = 7 + Len(t)
        /\ b[1] = y[2] /\ b[2] = y[3] /\ b[3] = y[4] /\ b[4] = h[1]
        /\ Octets(b, 4, 4) = h /\ From(b, 8) = t
    <3>1. EightAt((y \o h) \o t, y, h, t)
      BY <1>4, <1>7, <1>8, EightOctets, ZenonT(30)
    <3>2. EightAt(w, y, h, t)
      BY <1>9, <3>1, ZenonT(30)
    <3> QED
      BY <3>2, ZenonT(30) DEF EightAt
  <2> QED
    BY <1>7, <2>1, ZenonT(30)
<1>11. ~(Len(b) < 7)
  <2>1. Len(t) \in Nat
    BY <1>8, SMTT(30)
  <2> HIDE DEF b
  <2> QED
    BY <1>10, <2>1, SMTT(30)
<1>12. GetU16(b, 2) = q.port
  <2>1. GetU16(b, 2) = Half(b[2], b[2 + 1])
    BY Gets, ZenonT(30)
  <2>2. 2 + 1 = 3
    BY SMTT(30)
  <2> HIDE DEF b
  <2> QED
    BY <1>2, <1>10, <2>1, <2>2, ZenonT(30)
<1>13. o = Socks4(b)
  BY <1>10, AcceptArms, ZenonT(30)
<1>14. ReadUntilZero(From(b, 8)) = <<u, e>>
  BY <1>8, <1>10, <1>u, UntilZero, ZenonT(30) DEF t, z
<1> HIDE DEF b
<1>15. ReadRequest4(b) = Request(q.command, q.host, q.port, p, << >>)
  <2>0. <<u, e>>[2] = e
    BY SMTT(30)
  <2>1. CASE q.host[1] = "ipv4"
    <3>1. h = g /\ d = << >>
      BY <2>1, ZenonT(30) DEF h, d
    <3>2. e = p
      BY <3>1, SMTT(30) DEF e
    <3>3. b[4] # 0
      BY <1>10, <2>1, <3>1, SMTT(30)
    <3>4. ReadRequest4(b) = Request(b[1], <<"ipv4", Octets(b, 4, 4)>>, GetU16(b, 2), <<u, e>>[2], << >>)
      BY <1>11, <1>14, <3>3, Request4Arms, ZenonT(30)
    <3> QED
      BY <1>1, <1>10, <1>12, <2>0, <2>1, <3>1, <3>2, <3>4, ZenonT(30)
  <2>2. CASE q.host[1] # "ipv4"
    <3>1. h = <<0, 0, 0, 1>> /\ d = Append(g, 0) /\ q.host[1] = "name" /\ 0 \notin Range(g)
      BY <2>2, ZenonT(30) DEF h, d
    <3>2. b[4] = 0
      BY <1>10, <3>1, SMTT(30)
    <3>3. e = g \o (z \o p)
      <4>1. d = g \o z
        BY <1>1, <3>1, AppendZero, ZenonT(30) DEF z
      <4>2. (g \o z) \o p = g \o (z \o p)
        BY <1>1, <1>3, Regroup, ZenonT(90) DEF Assoc
      <4> QED
        BY <4>1, <4>2, ZenonT(30) DEF e
    <3>4. ReadUntilZero(e) = <<g, p>>
      BY <1>1, <3>1, <3>3, UntilZero, ZenonT(30) DEF z
    <3>5. ReadRequest4(b) = Request(b[1], <<"name", <<g, p>>[1]>>, GetU16(b, 2), <<g, p>>[2], << >>)
      BY <1>11, <1>14, <2>0, <3>2, <3>4, Request4Arms, ZenonT(60)
    <3>6. <<g, p>>[1] = g /\ <<g, p>>[2] = p
      BY SMTT(30)
    <3> QED
      BY <1>1, <1>10, <1>12, <3>1, <3>5, <3>6, ZenonT(30)
  <2> QED
    BY <2>1, <2>2, ZenonT(30)
<1>16. ReadRequest4(b).err = "none" /\ ReadRequest4(b).command = q.command
  BY <1>15, SMTT(30) DEF Request
<1> HIDE DEF o
<1>17. o = IF q.command = 1 THEN ReadRequest4(b) ELSE Failed("command", <<91>>)
  BY <1>13, <1>16, ZenonT(30) DEF Socks4
<1> QED
  BY <1>15, <1>17, ZenonT(30) DEF Taken4

-----------------------------------------------------------------------------
(* The requests the applications make. *)
Fits5(i) ==
    /\ i.q.methods \in Seq(Octet) /\ Len(i.q.methods) < 256 /\ i.q.command \in 1..3
    /\ SocksHost(i.q.host) /\ i.q.port \in U16 /\ i.p \in Seq(Octet)
    /\ i.k \in 0..Len(Rfc1928(i.q) \o i.p)
Fits4(i) ==
    /\ i.q.command \in {1, 2} /\ SocksHost(i.q.host) /\ i.q.port \in U16
    /\ i.q.user \in Seq(Octet) /\ 0 \notin Range(i.q.user) /\ i.p \in Seq(Octet)
    /\ \/ i.q.host[1] = "ipv4" /\ i.q.host[2][1] # 0
       \/ i.q.host[1] = "name" /\ 0 \notin Range(i.q.host[2])
FitsUdp(i) ==
    /\ i.q.frag \in {0, 1} /\ SocksHost(i.q.host) /\ i.q.port \in U16 /\ i.p \in Seq(Octet)
    /\ i.k \in 0..Len(RfcUdp(i.q) \o i.p)

(* Each input is one the function can be given, and the output is what the *)
(* function returns for it.                                                *)
RunsTheFunction ==
    /\ kind = "frame" => in \in Frames /\ out \in {Nothing, <<Encode(in), Decode(Encode(in))>>}
    /\ kind = "bytes" => in \in Seq(Octet) /\ out \in {Nothing, <<Decode(in), FinalizedOpcode(in)>>}
    /\ kind = "http" =>
         /\ in \in HttpInputs
         /\ out \in {Nothing, <<Call(in.state, in.req, in.backendAnswers),
                                Call(in.state, [in.req EXCEPT !.path = "/other"], in.backendAnswers)>>}
    /\ kind = "socks5" =>
         Fits5(in) /\ out \in {Nothing, <<OnSocksAccept(SubSeq(Rfc1928(in.q) \o in.p, 1, in.k))>>}
    /\ kind = "socks4" => Fits4(in) /\ out \in {Nothing, <<OnSocksAccept(Socks4a(in.q) \o in.p)>>}
    /\ kind = "udp" =>
         FitsUdp(in) /\ out \in {Nothing, <<HandleUdpRelayHeader(SubSeq(RfcUdp(in.q) \o in.p, 1, in.k))>>}

LEMMA FrameFields ==
    ASSUME NEW f \in Frames
    PROVE  f.op \in Ops /\ f.host \in Seq(Octet) /\ f.data \in Seq(Octet)
<1>0. Hosts \subseteq Seq(Octet) /\ Payloads \subseteq Seq(Octet) /\ << >> \in Seq(Octet)
  BY FrameAssumption, SMTT(30)
<1> DEFINE Fine(g) == g.op \in Ops /\ g.host \in Seq(Octet) /\ g.data \in Seq(Octet)
<1>1. \A id \in Ids : Fine(Reset(id)) /\ Fine(Finish(id))
  BY <1>0, SMTT(30) DEF Reset, Finish, Ops
<1>2. \A id \in Ids, n \in Nums : Fine(Acknowledge(id, n))
  BY <1>0, SMTT(30) DEF Reset, Acknowledge, Ops
<1>3. \A h \in Hosts, p \in Ports, id \in Ids, n \in Nums : Fine(Connect(h, p, id, n))
  BY <1>0, SMTT(30) DEF Reset, Connect, Ops
<1>4. \A id \in Ids, d \in Payloads : Fine(Push(id, d))
  BY <1>0, SMTT(30) DEF Reset, Push, Ops
<1>5. \A id \in Ids, b \in {"Stream", "Datagram"}, h \in Hosts, p \in Ports : Fine(Bind(id, b, h, p))
  BY <1>0, SMTT(30) DEF Reset, Bind, Ops
<1>6. \A id \in Ids, h \in Hosts, p \in Ports, d \in Payloads : Fine(Datagram(id, h, p, d))
  BY <1>0, SMTT(30) DEF Reset, Datagram, Ops
<1> HIDE DEF Fine
<1>7. Fine(f)
  BY <1>1, <1>2, <1>3, <1>4, <1>5, <1>6, SMTT(30) DEF Frames
<1> QED
  BY <1>7, SMTT(30) DEF Fine

LEMMA ShortEncodes ==
    ASSUME NEW f \in Short
    PROVE  Encode(f) \in Seq(Octet) /\ Encode(f) # << >>
<1>1. f \in Frames /\ Len(f.host) <= 2
  BY SMTT(30) DEF Short
<1>2. f.op \in Ops /\ f.host \in Seq(Octet) /\ f.data \in Seq(Octet)
  BY <1>1, FrameFields, SMTT(30)
<1>3. Len(f.host) \in Nat /\ Len(f.data) \in Nat
  BY <1>2, SMTT(30)
<1>4. ~(f.op = "Datagram" /\ Len(f.host) > 255)
  BY <1>1, <1>3, SMTT(30)
<1>5. Encode(f) \in Seq(Octet) /\ Len(Encode(f)) = 5 + PayloadLen(f)
  BY <1>1, <1>4, RoundTrip, SMTT(30)
<1>6. PayloadLen(f) \in Nat
  <2>1. CASE f.op \in {"Connect", "Bind", "Datagram"}
    <3> DEFINE x == Len(f.host)  y == Len(f.data)
    <3>1. PayloadLen(f) \in {6 + x, 3 + x, 3 + x + y} /\ x \in Nat /\ y \in Nat
      BY <1>3, <2>1, ZenonT(30) DEF PayloadLen
    <3> HIDE DEF x, y
    <3> QED
      BY <3>1, SMTT(30)
  <2>2. CASE f.op \in {"Acknowledge", "Reset", "Finish", "Push"}
    BY <1>3, <2>2, ZenonT(30) DEF PayloadLen
  <2> QED
    BY <1>2, <2>1, <2>2, SMTT(30) DEF Ops
<1> QED
  BY <1>5, <1>6, SMTT(30)

LEMMA MangledOctets ==
    ASSUME NEW b \in Seq(Octet), b # << >>
    PROVE  Mangled(b) \subseteq Seq(Octet)
<1>1. \A k \in 0..Len(b) : SubSeq(b, 1, k) \in Seq(Octet)
  BY Together, SMTT(30)
<1>2. b \o <<9, 9>> \in Seq(Octet)
  <2>1. <<9, 9>> \in Seq(Octet)
    BY SMTT(30) DEF Octet
  <2> QED
    BY <2>1, Apart, SMTT(30)
<1>3. ASSUME NEW x \in FirstOctets PROVE <<x>> \o Tail(b) \in Seq(Octet)
  <2>1. x \in Octet
    BY SMTT(30) DEF Octet, FirstOctets
  <2>2. Tail(b) \in Seq(Octet)
    BY SMTT(30)
  <2> QED
    BY <2>1, <2>2, OneMore, SMTT(30)
<1> DEFINE A == {SubSeq(b, 1, k) : k \in 0..Len(b)}
           B == {<<x>> \o Tail(b) : x \in FirstOctets}
           c == b \o <<9, 9>>
<1>4. A \subseteq Seq(Octet)
  BY <1>1, SMTT(30)
<1>5. B \subseteq Seq(Octet)
  BY <1>3, ZenonT(30)
<1>6. Mangled(b) = A \cup {c} \cup B
  BY ZenonT(30) DEF Mangled
<1>7. c \in Seq(Octet)
  BY <1>2, SMTT(30)
<1> HIDE DEF A, B, c
<1> QED
  BY <1>4, <1>5, <1>6, <1>7, SMTT(30)

(* The requests of Init are such requests. *)
LEMMA RequestsFit ==
    ASSUME Init
    PROVE  /\ kind = "socks5" => Fits5(in)
           /\ kind = "socks4" => Fits4(in)
           /\ kind = "udp" => FitsUdp(in)
<1>1. \A h \in SocksHosts : SocksHost(h)
  <2> SUFFICES ASSUME NEW h \in SocksHosts PROVE SocksHost(h)
    OBVIOUS
  <2>1. /\ h \in {"ipv4", "ipv6", "name"} \X Seq(Octet)
        /\ CASE h[1] = "ipv4" -> Len(h[2]) = 4
             [] h[1] = "ipv6" -> Len(h[2]) = 16
             [] h[1] = "name" -> Len(h[2]) < 256
    BY SocksAssumption, Zenon
  <2>2. h[1] \in {"ipv4", "ipv6", "name"}
    BY <2>1, SMTT(30)
  <2> QED
    BY <2>1, <2>2, ZenonT(30) DEF SocksHost
<1>2. /\ \A port \in Ports : port \in U16
      /\ \A r \in Rests : r \in Seq(Octet)
      /\ \A u \in Users : u \in Seq(Octet)
      /\ \A m \in Methods : m \in Seq(Octet) /\ Len(m) < 256
  BY FrameAssumption, SocksAssumption, SMTT(30) DEF U16
<1>3. ASSUME kind = "socks5" PROVE Fits5(in)
  <2>1. PICK q \in [methods : Methods, command : 1..3, host : SocksHosts, port : Ports], p \in Rests :
          \E k \in Cuts(Rfc1928(q) \o p) : in = [q |-> q, p |-> p, k |-> k]
    BY <1>3, SMTT(30) DEF Init
  <2>2. PICK k \in 0..Len(Rfc1928(q) \o p) : in = [q |-> q, p |-> p, k |-> k]
    BY <2>1, ZenonT(30) DEF Cuts
  <2>3. in.q = q /\ in.p = p /\ in.k = k
    BY <2>2, SMTT(30)
  <2>4. q.methods \in Methods /\ q.command \in 1..3 /\ q.host \in SocksHosts /\ q.port \in Ports
    BY SMTT(30)
  <2> QED
    BY <1>1, <1>2, <2>3, <2>4, ZenonT(30) DEF Fits5
<1>4. ASSUME kind = "socks4" PROVE Fits4(in)
  <2>1. in \in [q : [command : {1, 2}, port : Ports, user : Socks4Users, host : Socks4Hosts], p : Rests]
    BY <1>4, ZenonT(30) DEF Init
  <2>2. /\ in.q.command \in {1, 2} /\ in.q.port \in Ports /\ in.q.user \in Socks4Users
        /\ in.q.host \in Socks4Hosts /\ in.p \in Rests
    BY <2>1, SMTT(30)
  <2>3. /\ in.q.host \in SocksHosts
        /\ \/ in.q.host[1] = "ipv4" /\ in.q.host[2][1] # 0
           \/ in.q.host[1] = "name" /\ 0 \notin Range(in.q.host[2])
    BY <2>2, ZenonT(30) DEF Socks4Hosts
  <2>4. in.q.user \in Users /\ 0 \notin Range(in.q.user)
    BY <2>2, ZenonT(30) DEF Socks4Users
  <2> QED
    BY <1>1, <1>2, <2>2, <2>3, <2>4, ZenonT(30) DEF Fits4
<1>5. ASSUME kind = "udp" PROVE FitsUdp(in)
  <2>1. PICK q \in [frag : {0, 1}, host : SocksHosts, port : Ports], p \in Rests :
          \E k \in Cuts(RfcUdp(q) \o p) : in = [q |-> q, p |-> p, k |-> k]
    BY <1>5, SMTT(30) DEF Init
  <2>2. PICK k \in 0..Len(RfcUdp(q) \o p) : in = [q |-> q, p |-> p, k |-> k]
    BY <2>1, ZenonT(30) DEF Cuts
  <2>3. in.q = q /\ in.p = p /\ in.k = k
    BY <2>2, SMTT(30)
  <2>4. q.frag \in {0, 1} /\ q.host \in SocksHosts /\ q.port \in Ports
    BY SMTT(30)
  <2> QED
    BY <1>1, <1>2, <2>3, <2>4, ZenonT(30) DEF FitsUdp
<1> QED
  BY <1>3, <1>4, <1>5, ZenonT(30)

(* Every step runs one function on the input the state holds. *)
THEOREM CodecsInductive == Spec => []RunsTheFunction
<1>1. Init => RunsTheFunction
  <2> SUFFICES ASSUME Init PROVE RunsTheFunction
    BY SMTT(30)
  <2>0. out = Nothing
    BY ZenonT(30) DEF Init
  <2>1. CASE kind = "frame"
    <3>1. in \in Frames
      BY <2>1, ZenonT(60) DEF Init
    <3> QED
      BY <2>0, <2>1, <3>1, SMTT(30) DEF RunsTheFunction
  <2>2. CASE kind = "bytes"
    <3>1. PICK f \in Short : in \in Mangled(Encode(f))
      BY <2>2, SMTT(30) DEF Init
    <3>2. Encode(f) \in Seq(Octet) /\ Encode(f) # << >>
      BY ShortEncodes, SMTT(30)
    <3>3. in \in Seq(Octet)
      BY <3>1, <3>2, MangledOctets, SMTT(30)
    <3> QED
      BY <2>0, <2>2, <3>3, SMTT(30) DEF RunsTheFunction
  <2>3. CASE kind = "http"
    <3>1. in \in HttpInputs
      BY <2>3, SMTT(30) DEF Init, HttpInputs
    <3> QED
      BY <2>0, <2>3, <3>1, SMTT(30) DEF RunsTheFunction
  <2>4. CASE kind \notin {"frame", "bytes", "http"}
    BY <2>0, <2>4, RequestsFit, ZenonT(30) DEF RunsTheFunction
  <2> QED
    BY <2>1, <2>2, <2>3, <2>4, SMTT(30)
<1>2. RunsTheFunction /\ [Next]_vars => RunsTheFunction'
  <2> SUFFICES ASSUME RunsTheFunction, [Next]_vars PROVE RunsTheFunction'
    BY SMTT(30)
  <2> USE DEF RunsTheFunction
  <2>1. CASE RunFrame
    BY <2>1, SMTT(30) DEF RunFrame, Run
  <2>2. CASE RunBytes
    BY <2>2, SMTT(30) DEF RunBytes, Run
  <2>3. CASE RunHttp
    BY <2>3, SMTT(30) DEF RunHttp, Run
  <2>4. CASE RunRemote
    BY <2>4, SMTT(30) DEF RunRemote, Run
  <2>5. CASE RunSocks5
    BY <2>5, SMTT(30) DEF RunSocks5, Run
  <2>6. CASE RunSocks4
    BY <2>6, SMTT(30) DEF RunSocks4, Run
  <2>7. CASE RunUdp
    BY <2>7, SMTT(30) DEF RunUdp, Run
  <2>8. CASE UNCHANGED vars
    BY <2>8, SMTT(30) DEF vars
  <2> QED
    BY <2>1, <2>2, <2>3, <2>4, <2>5, <2>6, <2>7, <2>8, ZenonT(30) DEF Next
<1> QED
  BY <1>1, <1>2, PTL DEF Spec

(* frame.rs: what Vec::from(&Frame) writes Frame::try_from reads, for      *)
(* hosts and data of any length and all numbers, except short Datagrams.   *)
THEOREM FramesComeBack == Spec => []FrameRoundTrip
<1>1. RunsTheFunction => FrameRoundTrip
  <2> SUFFICES ASSUME RunsTheFunction, kind = "frame", out # Nothing
               PROVE  IF in.op = "Datagram" /\ Len(in.host) > 255 THEN out[1] = Panic
                      ELSE /\ Len(out[1]) = 5 + PayloadLen(in)
                           /\ out[2] = IF in.op = "Datagram" /\ Len(in.data) < 4
                                         THEN Err("FrameTooShort") ELSE Ok(in)
    BY SMTT(30) DEF FrameRoundTrip, Has
  <2>1. in \in Frames /\ out = <<Encode(in), Decode(Encode(in))>>
    BY SMTT(30) DEF RunsTheFunction
  <2>2. out[1] = Encode(in) /\ out[2] = Decode(Encode(in))
    BY <2>1, SMTT(30)
  <2> QED
    BY <2>1, <2>2, RoundTrip, SMTT(30)
<1> QED
  BY <1>1, CodecsInductive, PTL

(* frame.rs: octets that Frame::try_from takes are the ones Vec::from      *)
(* writes for the frame, and FinalizedFrame::opcode agrees.                *)
THEOREM DecoderIsCanonical == Spec => []DecodeCanonical
<1>1. RunsTheFunction => DecodeCanonical
  <2> SUFFICES ASSUME RunsTheFunction, kind = "bytes", out # Nothing, out[1].err = "none"
               PROVE  /\ StartsWith(in, Encode(out[1].frame)) /\ out[2] = out[1].frame.op
                      /\ out[1].frame.op \notin {"Acknowledge", "Reset", "Finish"} => Encode(out[1].frame) = in
    BY SMTT(30) DEF DecodeCanonical, Has
  <2>1. in \in Seq(Octet) /\ out = <<Decode(in), FinalizedOpcode(in)>>
    BY SMTT(30) DEF RunsTheFunction
  <2>2. out[1] = Decode(in) /\ out[2] = FinalizedOpcode(in)
    BY <2>1, SMTT(30)
  <2> QED
    BY <2>1, <2>2, Canonical, SMTT(30)
<1> QED
  BY <1>1, CodecsInductive, PTL

(* service.rs: State::call upgrades the client's own request exactly when  *)
(* the PSK is right, and nothing but /ws; a refused /ws looks unknown.     *)
THEOREM UpgradeIsExact == Spec => []UpgradeExact
<1>1. RunsTheFunction => UpgradeExact
  <2> DEFINE h == in.req.headers
             right == in.state.ws_psk \in {Absent, h["x-penguin-psk"]}
             ok == out[1].status = 101
             other == [in.req EXCEPT !.path = "/other"]
  <2> SUFFICES ASSUME RunsTheFunction, kind = "http", out # Nothing
               PROVE  /\ ok => in.req.path = "/ws" /\ right
                      /\ in.req.path = "/ws" /\ ~ok => out[1] = out[2]
                      /\ in.req.path = "/ws" /\ in.req.method = "GET" /\ in.req.on_upgrade
                         /\ h = HandshakeHeaders(h["x-penguin-psk"], h["host"], Nothing) => (ok <=> right)
    BY ZenonT(30) DEF UpgradeExact, Has
  <2>1. /\ in \in HttpInputs
        /\ out = <<Call(in.state, in.req, in.backendAnswers), Call(in.state, other, in.backendAnswers)>>
    BY SMTT(30) DEF RunsTheFunction
  <2>2. /\ out[1] = Call(in.state, in.req, in.backendAnswers)
        /\ out[2] = Call(in.state, other, in.backendAnswers)
    BY <2>1, SMTT(30)
  <2>3. in.req \in Requests
    BY <2>1, SMTT(30) DEF HttpInputs
  <2>4. other.path = "/other"
    BY <2>3, SMTT(30) DEF Requests
  <2> HIDE DEF other
  <2>5. /\ ok <=> (in.req.path = "/ws" /\ WsHandlerAccepts(in.state, in.req))
        /\ in.req.path = "/ws" /\ ~ok => out[1] = BackendOr404(in.state, in.backendAnswers)
        /\ out[2] = BackendOr404(in.state, in.backendAnswers)
    BY <2>2, <2>4, UpgradeOnly, SMTT(30)
  <2>6. PskMatches(in.state, in.req) <=> right
    BY SMTT(30) DEF PskMatches
  <2> HIDE DEF right, ok
  <2>7. WsHandlerAccepts(in.state, in.req) => right
    BY <2>6, SMTT(30) DEF WsHandlerAccepts
  <2>8. ASSUME in.req.method = "GET", in.req.on_upgrade, right,
               h = HandshakeHeaders(h["x-penguin-psk"], h["host"], Nothing)
        PROVE  WsHandlerAccepts(in.state, in.req)
    <3>1. /\ h["connection"] = "Upgrade" /\ h["upgrade"] = "websocket" /\ h["sec-websocket-key"] = "key"
          /\ h["sec-websocket-version"] = "13" /\ h["sec-websocket-protocol"] = PROTOCOL_VERSION
      BY <2>8, ClientHeaders, SMTT(30)
    <3> QED
      BY <2>6, <2>8, <3>1, SMTT(30) DEF WsHandlerAccepts, HeaderMatches, Lower, Absent, PROTOCOL_VERSION
  <2> QED
    BY <2>5, <2>7, <2>8, ZenonT(30)
<1> QED
  BY <1>1, CodecsInductive, PTL

(* socks.rs, v4.rs and v5.rs: what the server takes from a request is what *)
(* the application put in and the rest of the stream, for requests with    *)
(* names, users and methods of any length; a SOCKS5 request or relay       *)
(* header cut at any octet is not taken for one.                           *)
THEOREM SocksIsExact == Spec => []SocksExact
<1>1. RunsTheFunction => SocksExact
  <2> SUFFICES ASSUME RunsTheFunction PROVE SocksExact
    BY SMTT(30)
  <2> DEFINE q == in.q  o == out[1]  p == in.p  k == in.k
  <2>1. ASSUME kind = "socks5", out # Nothing
        PROVE  LET whole == k >= Len(Rfc1928(q)) IN
               /\ (o.err = "none") <=> (whole /\ q.command # 2 /\ 0 \in Range(q.methods))
               /\ o.err = "none" =>
                    /\ <<o.command, o.host, o.port>> = <<q.command, q.host, q.port>>
                    /\ o.rest = SubSeq(p, 1, k - Len(Rfc1928(q)))
               /\ ~whole => Len(o.replies) <= 1
    <3> DEFINE size == Len(Rfc1928(q))
    <3>1. Fits5(in) /\ out = <<OnSocksAccept(SubSeq(Rfc1928(q) \o p, 1, k))>>
      BY <2>1, ZenonT(30) DEF RunsTheFunction
    <3>2. o = OnSocksAccept(SubSeq(Rfc1928(q) \o p, 1, k))
      BY <3>1, SMTT(30)
    <3>3. /\ q.methods \in Seq(Octet) /\ Len(q.methods) < 256 /\ q.command \in 1..3
          /\ SocksHost(q.host) /\ q.port \in U16 /\ p \in Seq(Octet) /\ k \in 0..Len(Rfc1928(q) \o p)
      BY <3>1, ZenonT(30) DEF Fits5
    <3>4. q.command \in Octet
      BY <3>3, SMTT(30) DEF Octet
    <3>5. Taken5(o, q, p, k)
      BY <3>2, <3>3, <3>4, Socks5Read, ZenonT(30)
    <3>6. size \in Nat /\ k \in Nat
      <4> DEFINE m == Len(q.methods)  a == RfcAddress(q.host, q.port)  n == Len(a)  l == Len(p)
      <4>1. size = 5 + m + n /\ Len(Rfc1928(q) \o p) = 5 + m + n + l /\ a \in Seq(Octet)
        BY <3>3, <3>4, Rfc1928Form, ZenonT(30)
      <4>2. m \in Nat /\ n \in Nat /\ l \in Nat
        <5> HIDE DEF a
        <5> QED
          BY <3>3, <4>1, SMTT(30)
      <4>3. k \in 0..(5 + m + n + l)
        BY <3>3, <4>1, ZenonT(30)
      <4>4. size = 5 + m + n
        BY <4>1, ZenonT(30)
      <4> HIDE DEF size, m, n, l
      <4> QED
        BY <4>2, <4>3, <4>4, SMTT(30)
    <3> HIDE DEF o, q, p, k, size
    <3>7. CASE k < size
      <4>1. o.err # "none" /\ Len(o.replies) <= 1
        BY <3>5, <3>7, ZenonT(30) DEF Taken5, size
      <4>2. ~(k >= size)
        BY <3>6, <3>7, SMTT(30)
      <4> QED
        BY <4>1, <4>2, ZenonT(30) DEF size
    <3>8. CASE k >= size
      <4>1. o = IF 0 \notin Range(q.methods) THEN Failed("auth", <<255>>)
                ELSE IF q.command \in {1, 3}
                  THEN Request(q.command, q.host, q.port, SubSeq(p, 1, k - size), <<0>>)
                ELSE Failed("command", <<0, 7>>)
        BY <3>5, <3>8, ZenonT(30) DEF Taken5, size
      <4>2. CASE 0 \in Range(q.methods) /\ q.command \in {1, 3}
        <5>1. o = Request(q.command, q.host, q.port, SubSeq(p, 1, k - size), <<0>>)
          BY <4>1, <4>2, ZenonT(30)
        <5>2. /\ o.err = "none" /\ o.command = q.command /\ o.host = q.host /\ o.port = q.port
              /\ o.rest = SubSeq(p, 1, k - size)
          BY <5>1, ZenonT(30) DEF Request
        <5>3. q.command # 2
          BY <4>2
        <5> QED
          BY <3>8, <4>2, <5>2, <5>3, ZenonT(30) DEF size
      <4>3. CASE ~(0 \in Range(q.methods) /\ q.command \in {1, 3})
        <5>1. o = Failed("auth", <<255>>) \/ o = Failed("command", <<0, 7>>)
          BY <4>1, <4>3, ZenonT(30)
        <5>2. o.err # "none"
          BY <5>1, SMTT(30) DEF Failed
        <5>3. q.command = 2 \/ 0 \notin Range(q.methods)
          BY <3>3, <4>3, SMTT(30)
        <5> QED
          BY <3>8, <5>2, <5>3, Zenon DEF size
      <4> QED
        BY <4>2, <4>3, ZenonT(30)
    <3> QED
      BY <3>6, <3>7, <3>8, SMTT(30)
  <2>2. ASSUME kind = "socks4", out # Nothing
        PROVE  /\ (o.err = "none") <=> (q.command = 1)
               /\ o.err = "none" => <<o.host, o.port, o.rest>> = <<q.host, q.port, p>>
    <3>1. Fits4(in) /\ out = <<OnSocksAccept(Socks4a(q) \o p)>>
      BY <2>2, ZenonT(30) DEF RunsTheFunction
    <3>2. o = OnSocksAccept(Socks4a(q) \o p)
      BY <3>1, SMTT(30)
    <3>3. Taken4(o, q, p)
      <4>1. /\ q.command \in {1, 2} /\ SocksHost(q.host) /\ q.port \in U16
            /\ q.user \in Seq(Octet) /\ 0 \notin Range(q.user) /\ p \in Seq(Octet)
            /\ \/ q.host[1] = "ipv4" /\ q.host[2][1] # 0
               \/ q.host[1] = "name" /\ 0 \notin Range(q.host[2])
        BY <3>1, ZenonT(30) DEF Fits4
      <4>2. Taken4(OnSocksAccept(Socks4a(q) \o p), q, p)
        <5> HIDE DEF q, p, o
        <5> QED
          BY <4>1, Socks4Read, SMTT(30)
      <4> QED
        BY <3>2, <4>2, ZenonT(30)
    <3> HIDE DEF o, q, p
    <3>4. CASE q.command = 1
      <4>1. o = Request(1, q.host, q.port, p, << >>)
        BY <3>3, <3>4, ZenonT(30) DEF Taken4
      <4> QED
        BY <3>4, <4>1, ZenonT(30) DEF Request
    <3>5. CASE q.command # 1
      <4>1. o = Failed("command", <<91>>)
        BY <3>3, <3>5, ZenonT(30) DEF Taken4
      <4>2. o.err # "none"
        BY <4>1, ZenonT(30) DEF Failed
      <4> QED
        BY <3>5, <4>2, ZenonT(30)
    <3> QED
      BY <3>4, <3>5, ZenonT(30)
  <2>3. ASSUME kind = "udp", out # Nothing
        PROVE  LET whole == k >= Len(RfcUdp(q)) IN
               /\ (o.err = "none") <=> (whole /\ q.frag = 0)
               /\ o.err = "none" =>
                    <<o.host, o.port, o.rest>> = <<q.host, q.port, SubSeq(p, 1, k - Len(RfcUdp(q)))>>
    <3> DEFINE size == Len(RfcUdp(q))
    <3>1. FitsUdp(in) /\ out = <<HandleUdpRelayHeader(SubSeq(RfcUdp(q) \o p, 1, k))>>
      BY <2>3, ZenonT(30) DEF RunsTheFunction
    <3>2. o = HandleUdpRelayHeader(SubSeq(RfcUdp(q) \o p, 1, k))
      BY <3>1, ZenonT(30)
    <3>3. /\ q.frag \in {0, 1} /\ SocksHost(q.host) /\ q.port \in U16 /\ p \in Seq(Octet)
          /\ k \in 0..Len(RfcUdp(q) \o p)
      BY <3>1, ZenonT(30) DEF FitsUdp
    <3>4. q.frag \in Octet
      BY <3>3, SMTT(30) DEF Octet
    <3>5. TakenUdp(o, q, p, k)
      BY <3>2, <3>3, <3>4, UdpRead, ZenonT(30)
    <3>6. size \in Nat /\ k \in Nat
      <4>1. RfcAddress(q.host, q.port) \in Seq(Octet)
        BY <3>3, AddressForm, ZenonT(30)
      <4>2. <<0, 0, q.frag>> \in Seq(Octet)
        BY <3>4, SMTT(30) DEF Octet
      <4>3. RfcUdp(q) \in Seq(Octet)
        BY <4>1, <4>2, Apart, ZenonT(30) DEF RfcUdp
      <4>4. RfcUdp(q) \o p \in Seq(Octet)
        BY <3>3, <4>3, Apart, ZenonT(30)
      <4> HIDE DEF q, p, k
      <4>5. size \in Nat /\ Len(RfcUdp(q) \o p) \in Nat
        BY <4>3, <4>4, SMTT(30)
      <4> QED
        BY <3>3, <4>5, SMTT(30)
    <3> HIDE DEF o, q, p, k, size
    <3>7. CASE k < size
      <4>1. o.err # "none"
        BY <3>5, <3>7, ZenonT(30) DEF TakenUdp, size
      <4>2. ~(k >= size)
        BY <3>6, <3>7
      <4> QED
        BY <4>1, <4>2, ZenonT(30) DEF size
    <3>8. CASE k >= size /\ q.frag # 0
      <4>1. o = Failed("None", << >>)
        BY <3>5, <3>8, ZenonT(30) DEF TakenUdp, size
      <4>2. o.err # "none"
        BY <4>1, ZenonT(30) DEF Failed
      <4> QED
        BY <3>8, <4>2, ZenonT(30)
    <3>9. CASE k >= size /\ q.frag = 0
      <4>1. o = Request(0, q.host, q.port, SubSeq(p, 1, k - size), << >>)
        BY <3>5, <3>9, ZenonT(30) DEF TakenUdp, size
      <4>2. o.err = "none" /\ o.host = q.host /\ o.port = q.port /\ o.rest = SubSeq(p, 1, k - size)
        BY <4>1, ZenonT(30) DEF Request
      <4> QED
        BY <3>9, <4>2, ZenonT(30) DEF size
    <3> QED
      BY <3>6, <3>7, <3>8, <3>9, SMTT(30)
  <2> QED
    BY <2>1, <2>2, <2>3, ZenonT(30) DEF SocksExact, Has
<1> QED
  BY <1>1, CodecsInductive, PTL
=============================================================================
