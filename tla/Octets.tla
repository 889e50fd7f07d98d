------------------------------- MODULE Octets -------------------------------
(* Sequences of octets and integers in network byte order: the operations  *)
(* of bytes::Buf and bytes::BufMut (external) that the codecs use.         *)
EXTENDS Naturals, Sequences

PutU16(n) == <<n \div 256, n % 256>>
PutU32(n) == PutU16(n \div 65536) \o PutU16(n % 65536)

(* n octets from a position, and all from a position *)
Octets(b, from, n) == SubSeq(b, from, from + n - 1)
From(b, from) == SubSeq(b, from, Len(b))

StartsWith(b, e) == Len(e) <= Len(b) /\ Octets(b, 1, Len(e)) = e

GetU16(b, i) == 256 * b[i] + b[i + 1]
GetU32(b, i) == 65536 * GetU16(b, i) + GetU16(b, i + 2)
=============================================================================
