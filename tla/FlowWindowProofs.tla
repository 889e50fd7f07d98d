-------------------------- MODULE FlowWindowProofs --------------------------
(***************************************************************************)
(* The credit window is exact for every choice of the two `rwnd` options   *)
(* and of the threshold.  Credits <= Rwnd is not inductive alone: an        *)
(* `Acknowledge` in transit must be known to carry RwndThreshold credits,   *)
(* and a reader must never count further than that, so the inductive        *)
(* invariant joins TypeOK, AckIsThreshold and CreditConserved.              *)
(***************************************************************************)
EXTENDS FlowWindow, TLAPS

(* The threshold of a stream is a positive number, because the two options *)
(* it is the minimum of are.                                               *)
LEMMA ThresholdType == RwndThreshold \in Nat /\ RwndThreshold > 0
BY OptionsAssumption DEF RwndThreshold

(* The credits that n `Acknowledge` frames carry. *)
LEMMA AckCredits ==
    \A n \in Nat :
        /\ n * RwndThreshold \in Nat
        /\ (n + 1) * RwndThreshold = n * RwndThreshold + RwndThreshold
        /\ n > 0 => n * RwndThreshold = (n - 1) * RwndThreshold + RwndThreshold
BY ThresholdType

(* Fewer `Acknowledge` frames carry no more credits. *)
LEMMA FewerAcks ==
    \A m, n \in Nat : m <= n => m * RwndThreshold <= n * RwndThreshold
BY ThresholdType

IInv == TypeOK /\ AckIsThreshold /\ CreditConserved

LEMMA InitIInv == Init => IInv
<1> SUFFICES ASSUME Init PROVE IInv
  OBVIOUS
<1>a. /\ remaining \in Nat /\ pushes \in Nat /\ chan \in Nat /\ since \in Nat
      /\ acks \in Seq(Nat)
  BY OptionsAssumption DEF Init
<1>b. /\ wslot \in BOOLEAN /\ rslot \in BOOLEAN
      /\ rhandle \in BOOLEAN /\ link \in BOOLEAN
  BY Zenon DEF Init
<1>1. TypeOK
  BY <1>a, <1>b, Zenon DEF TypeOK
<1>2. AckIsThreshold
  BY ThresholdType DEF Init, AckIsThreshold
<1>3. Returning = 0
  BY ThresholdType DEF Init, Returning
<1>4. CreditConserved
  BY <1>3, OptionsAssumption DEF Init, CreditConserved, Credits
<1> QED
  BY <1>1, <1>2, <1>4 DEF IInv

(* The types that the arithmetic of the window needs. *)
LEMMA CounterTypes ==
    TypeOK => /\ remaining \in Nat /\ pushes \in Nat /\ chan \in Nat /\ since \in Nat
              /\ acks \in Seq(Nat) /\ Len(acks) \in Nat /\ Returning \in Nat
              /\ Rwnd \in Nat
BY AckCredits, OptionsAssumption DEF TypeOK, Returning

(* A frame in transit is a credit that is not in the channel: what         *)
(* `Dispatch` needs.                                                       *)
LEMMA RoomForPush == TypeOK /\ CreditConserved => chan + pushes <= Rwnd
BY CounterTypes, SMTT(30) DEF CreditConserved, Credits

(* An `Acknowledge` in transit returns credits that are not with the       *)
(* writer: what `Acknowledge` needs.                                       *)
LEMMA RoomForAck == IInv /\ acks # << >> => remaining + Head(acks) <= Rwnd
<1> SUFFICES ASSUME IInv, acks # << >> PROVE remaining + Head(acks) <= Rwnd
  OBVIOUS
<1>1. Len(acks) \in Nat /\ Len(acks) > 0 /\ Head(acks) = acks[1] /\ acks[1] = RwndThreshold
  BY DEF IInv, TypeOK, AckIsThreshold
<1>2. Returning >= RwndThreshold
  BY <1>1, FewerAcks, ThresholdType DEF Returning
<1> QED
  BY <1>1, <1>2, CounterTypes, ThresholdType, SMTT(30) DEF IInv, CreditConserved, Credits

LEMMA NextIInv == IInv /\ [Next]_vars => IInv'
<1> SUFFICES ASSUME TypeOK, AckIsThreshold, CreditConserved, [Next]_vars
             PROVE  TypeOK' /\ AckIsThreshold' /\ CreditConserved'
  BY DEF IInv
<1>t. /\ remaining \in Nat /\ pushes \in Nat /\ chan \in Nat /\ since \in Nat
      /\ acks \in Seq(Nat) /\ Len(acks) \in Nat /\ Returning \in Nat
      /\ Rwnd \in Nat
  BY CounterTypes
<1>c. remaining + pushes + chan + since + Returning <= Rwnd
  BY DEF CreditConserved, Credits
<1>r. acks' = acks => Returning' = Returning
  BY DEF Returning
<1>1. CASE Write
  <2>1. TypeOK'
    BY <1>1 DEF Write, TypeOK
  <2>2. AckIsThreshold'
    BY <1>1 DEF Write, AckIsThreshold
  <2>3. CreditConserved'
    BY <1>1, <1>t, <1>r DEF Write, CreditConserved, Credits
  <2> QED
    BY <2>1, <2>2, <2>3
<1>3. CASE CloseWriter
  BY <1>3, <1>t, <1>r, ZenonT(30) DEF CloseWriter, TypeOK, AckIsThreshold, CreditConserved, Credits
<1>4. CASE Dispatch
  <2>0. chan + pushes <= Rwnd
    BY RoomForPush
  <2>1. TypeOK'
    BY <1>4 DEF Dispatch, TypeOK
  <2>2. AckIsThreshold'
    BY <1>4 DEF Dispatch, AckIsThreshold
  <2>3. /\ remaining' = remaining /\ pushes' = pushes - 1 /\ since' = since
        /\ Returning' = Returning
    BY <1>4, <1>r DEF Dispatch
  <2>4. CASE rslot /\ rhandle
    <3>1. chan' = chan + 1
      BY <1>4, <1>t, <2>0, <2>4 DEF Dispatch
    <3>2. Credits' = Credits
      BY <2>3, <3>1, <1>t DEF Credits
    <3>3. CreditConserved'
      BY <1>4, <3>2, <2>4, Zenon DEF Dispatch, CreditConserved
    <3> QED
      BY <2>1, <2>2, <3>3
  <2>5. CASE ~(rslot /\ rhandle)
    <3>1. chan' = chan /\ ~(rslot' /\ rhandle')
      BY <1>4, <2>5, ZenonT(30) DEF Dispatch
    <3>2. Credits' <= Rwnd
      BY <2>3, <3>1, <1>t DEF CreditConserved, Credits
    <3> QED
      BY <2>1, <2>2, <3>1, <3>2 DEF CreditConserved
  <2> QED
    BY <2>4, <2>5
<1>5. CASE Read
  <2>1. CASE since + 1 >= RwndThreshold
    <3>1. since + 1 = RwndThreshold
      BY <2>1, <1>t, ThresholdType DEF AckIsThreshold
    <3>2. TypeOK'
      <4>1. chan' \in Nat
        BY <1>5 DEF Read, TypeOK
      <4>2. since' = 0 /\ acks' = IF link THEN Append(acks, since + 1) ELSE acks
        BY <1>5, <2>1, ZenonT(30) DEF Read
      <4>3. since' \in Nat /\ acks' \in Seq(Nat)
        BY <4>2 DEF TypeOK
      <4> QED
        BY <1>5, <4>1, <4>3, ZenonT(30) DEF Read, TypeOK
    <3>3. since' < RwndThreshold
      BY <1>5, <2>1, ThresholdType DEF Read
    <3>4. CASE link
      <4>1. acks' = Append(acks, RwndThreshold) /\ since' = 0 /\ chan' = chan - 1
        BY <1>5, <2>1, <3>1, <3>4 DEF Read
      <4>2. AckIsThreshold'
        BY <4>1, <3>3, <1>t, ThresholdType DEF AckIsThreshold
      <4>3. Returning' = Returning + RwndThreshold
        BY <4>1, <1>t, AckCredits DEF Returning
      <4>4. Credits' = Credits
        BY <1>5, <4>1, <4>3, <3>1, <1>t, ThresholdType DEF Read, Credits
      <4> QED
        BY <1>5, <3>2, <4>2, <4>4 DEF Read, CreditConserved
    <3>5. CASE ~link
      <4>1. AckIsThreshold'
        BY <1>5, <2>1, <3>3, <3>5 DEF Read, AckIsThreshold
      <4>2. CreditConserved'
        BY <1>5, <2>1, <3>5, <1>t, <1>r DEF Read, CreditConserved, Credits
      <4> QED
        BY <3>2, <4>1, <4>2
    <3> QED
      BY <3>4, <3>5
  <2>2. CASE ~(since + 1 >= RwndThreshold)
    BY <1>5, <2>2, <1>t, <1>r, ThresholdType
       DEF Read, TypeOK, AckIsThreshold, CreditConserved, Credits
  <2> QED
    BY <2>1, <2>2
<1>6. CASE Acknowledge
  <2>1. /\ acks # << >> /\ Len(acks) > 0 /\ Head(acks) = RwndThreshold
        /\ Len(Tail(acks)) = Len(acks) - 1
    BY <1>6, <1>t DEF Acknowledge, AckIsThreshold
  <2>2. remaining + Head(acks) <= MaxU32
    BY RoomForAck, <2>1, <1>t, ThresholdType, OptionsAssumption DEF IInv
  <2>3. remaining' = IF wslot THEN remaining + RwndThreshold ELSE remaining
    BY <1>6, <2>1, <2>2 DEF Acknowledge, U32
  <2>4. TypeOK'
    BY <1>6, <2>1, <2>3, <1>t, ThresholdType DEF Acknowledge, TypeOK
  <2>5. AckIsThreshold'
    BY <1>6, <2>1, <1>t DEF Acknowledge, AckIsThreshold
  <2>6. Returning = Returning' + RwndThreshold /\ Returning' \in Nat
    BY <1>6, <2>1, <1>t, AckCredits DEF Acknowledge, Returning
  <2>7. CASE wslot
    <3>1. /\ remaining' = remaining + RwndThreshold
          /\ pushes' = pushes /\ chan' = chan /\ since' = since
      BY <1>6, <2>3, <2>7 DEF Acknowledge
    <3>2. Credits' = Credits
      BY <3>1, <2>6, <1>t, ThresholdType DEF Credits
    <3> QED
      BY <1>6, <2>4, <2>5, <3>2 DEF Acknowledge, CreditConserved
  <2>8. CASE ~wslot
    <3>1. remaining' = remaining /\ pushes' = pushes /\ chan' = chan /\ since' = since
      BY <1>6, <2>3, <2>8 DEF Acknowledge
    <3>2. Credits' <= Rwnd
      <4>1. PICK r \in Nat : r = Returning' /\ Returning = r + RwndThreshold
        BY <2>6
      <4>2. Credits' = remaining + pushes + chan + since + r
        BY <3>1, <4>1 DEF Credits
      <4>3. Returning = r + RwndThreshold
        BY <4>1
      <4>4. remaining + pushes + chan + since + r <= Rwnd
        BY <4>3, <1>c, <1>t, ThresholdType
      <4> QED
        BY <4>2, <4>4, Zenon
    <3>3. ~wslot'
      BY <1>6, <2>8 DEF Acknowledge
    <3> QED
      BY <2>4, <2>5, <3>2, <3>3 DEF CreditConserved
  <2> QED
    BY <2>7, <2>8
<1>7. CASE CloseReader
  BY <1>7, <1>t, <1>r, ZenonT(30) DEF CloseReader, TypeOK, AckIsThreshold, CreditConserved, Credits
<1>8. CASE DropReader
  <2>1. TypeOK' /\ AckIsThreshold'
    BY <1>8, ZenonT(30) DEF DropReader, TypeOK, AckIsThreshold
  <2>2. CreditConserved'
    BY <1>8, <1>t, <1>r DEF DropReader, CreditConserved, Credits
  <2> QED
    BY <2>1, <2>2
<1>9. CASE LinkDown
  <2>1. PICK k \in 0..Len(acks) : acks' = SubSeq(acks, 1, k)
    BY <1>9 DEF LinkDown
  <2>2. /\ acks' \in Seq(Nat) /\ Len(acks') = k /\ k \in Nat /\ k <= Len(acks)
        /\ \A i \in 1..k : acks'[i] = acks[i]
    BY <2>1, <1>t
  <2>3. pushes' \in Nat /\ pushes' <= pushes
    BY <1>9, <1>t DEF LinkDown
  <2>4. TypeOK'
    <3>1. /\ wslot' \in BOOLEAN /\ rslot' \in BOOLEAN
          /\ rhandle' \in BOOLEAN /\ link' \in BOOLEAN
      BY <1>9, Zenon DEF LinkDown, TypeOK
    <3>2. remaining' \in Nat /\ chan' \in Nat /\ since' \in Nat
      BY <1>9, <1>t DEF LinkDown
    <3> QED
      BY <2>2, <2>3, <3>1, <3>2, Zenon DEF TypeOK
  <2>5. AckIsThreshold'
    BY <1>9, <2>2, <1>t DEF LinkDown, AckIsThreshold
  <2>6. Returning' <= Returning /\ Returning' \in Nat
    BY <2>2, <1>t, FewerAcks, AckCredits DEF Returning
  <2>7. Credits' <= Rwnd
    <3>1. remaining' = remaining /\ chan' = chan /\ since' = since
      BY <1>9 DEF LinkDown
    <3> QED
      <4>1. PICK r \in Nat : r = Returning' /\ r <= Returning
        BY <2>6
      <4>2. PICK p \in Nat : p = pushes' /\ p <= pushes
        BY <2>3
      <4>3. Credits' = remaining + p + chan + since + r
        BY <3>1, <4>1, <4>2 DEF Credits
      <4>4. r <= Returning /\ p <= pushes
        BY <4>1, <4>2
      <4>5. remaining + p + chan + since + r <= Rwnd
        BY <4>4, <1>c, <1>t
      <4> QED
        BY <4>3, <4>5, Zenon
  <2>8. CreditConserved'
    BY <1>9, <2>7 DEF LinkDown, CreditConserved
  <2> QED
    BY <2>4, <2>5, <2>8
<1>10. CASE UNCHANGED vars
  BY <1>10 DEF vars, TypeOK, AckIsThreshold, CreditConserved, Credits, Returning
<1> QED
  BY <1>1, <1>3, <1>4, <1>5, <1>6, <1>7, <1>8, <1>9, <1>10 DEF Next

-----------------------------------------------------------------------------

(* Every reachable state satisfies the inductive invariant. *)
THEOREM Inductive == Spec => []IInv
BY InitIInv, NextIInv, PTL DEF Spec

(* The counters of a stream never leave their types, for every window.     *)
THEOREM TypeCorrect == Spec => []TypeOK
<1>1. IInv => TypeOK
  BY DEF IInv
<1> QED
  BY <1>1, Inductive, PTL

(* For every pair of windows and every threshold: no interleaving of       *)
(* writes, reads and `Acknowledge`s creates a credit, and none is lost     *)
(* while the stream is up.                                                 *)
THEOREM WindowIsExact == Spec => [](CreditConserved /\ AckIsThreshold)
<1>1. IInv => CreditConserved /\ AckIsThreshold
  BY DEF IInv
<1> QED
  BY <1>1, Inductive, PTL

(* Between conforming ends the channel of `rwnd` frames is never full when *)
(* a `Push` arrives, so no stream is reset for overrunning its window.     *)
THEOREM NeverOverrun == Spec => []NeverFull
<1>1. IInv => NeverFull
  BY RoomForPush, CounterTypes DEF IInv, NeverFull
<1> QED
  BY <1>1, Inductive, PTL

(* The 32-bit credit counter never wraps. *)
THEOREM CounterNeverWraps == Spec => []NoWrap
<1>1. IInv => NoWrap
  <2> SUFFICES ASSUME IInv, acks # << >> PROVE remaining + Head(acks) <= MaxU32
    BY DEF NoWrap
  <2>1. remaining \in Nat /\ Head(acks) \in Nat /\ Rwnd \in Nat
    BY CounterTypes DEF IInv
  <2> QED
    BY <2>1, RoomForAck, OptionsAssumption
<1> QED
  BY <1>1, Inductive, PTL

=============================================================================
