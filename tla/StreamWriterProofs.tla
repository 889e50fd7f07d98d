------------------------- MODULE StreamWriterProofs -------------------------
(***************************************************************************)
(* The atomics of a stream implement FlowWindow for every choice of the    *)
(* options, and the closing of its write side is decided once.             *)
(*                                                                         *)
(* The refinement needs the inductive invariant of FlowWindow in the state *)
(* the mapping gives (WindowInv): a `Push` reaches the peer's channel only *)
(* because the window has room for it.  The other conjuncts say who may    *)
(* still queue the `Finish` or the `Reset`, and who may still push.        *)
(***************************************************************************)
EXTENDS StreamWriter, TLAPS

Proven == INSTANCE FlowWindowProofs WITH
    pushes  <- pushes + (IF wpc = "send" /\ txOpen THEN 1 ELSE 0),
    wslot   <- slot,
    rslot   <- TRUE,
    rhandle <- TRUE,
    link    <- txOpen

TypeOK ==
    /\ finishSent \in BOOLEAN /\ rst \in BOOLEAN /\ slot \in BOOLEAN
    /\ txOpen \in BOOLEAN /\ resetSeen \in BOOLEAN
    /\ wpc \in {"idle", "parked", "check", "load", "register", "cas", "send", "finish", "gone"}
    /\ mpc \in {"idle", "wake", "reset"}
    /\ wind \in {"no", "disallowed", "closed", "done"}
    /\ pushes \in Nat /\ late \in Nat
    /\ terminal \in Seq({"Finish", "Reset"})

(* The window as the mapping shows it, and the value of the exchange. *)
WindowInv == Proven!IInv /\ (wpc = "cas" => original \in Nat \ {0})

(* Whoever sets finish_sent first, and nobody else, may queue the terminal *)
(* frame, and does so once.                                                *)
OneCloser ==
    /\ Len(terminal) <= 1
    /\ ~finishSent => terminal = << >> /\ wpc # "finish" /\ ~rst /\ mpc # "reset"
    /\ wpc = "finish" => terminal = << >> /\ ~rst /\ mpc # "reset"
    /\ rst => terminal = << >> /\ mpc = "wake"
    /\ mpc = "reset" => terminal = << >>

(* A writer beyond the check of finish_sent has not pushed since. *)
OneBeyondCheck ==
    /\ late <= 1
    /\ ~finishSent \/ wpc \in {"load", "cas", "send"} => late = 0

(* Until the task winds down, a closed stream has told its peer or will.   *)
Telling ==
    /\ ~slot => finishSent
    /\ wind \in {"no", "disallowed"} => txOpen
    /\ wind = "no" /\ finishSent /\ ~resetSeen
         => Len(terminal) = 1 \/ wpc = "finish" \/ rst \/ mpc = "reset"

IInv == TypeOK /\ WindowInv /\ OneCloser /\ OneBeyondCheck /\ Telling

-----------------------------------------------------------------------------
(* Closing the write side. *)

LEMMA TypeStep == TypeOK /\ [Next]_vars => TypeOK'
<1> SUFFICES ASSUME TypeOK, [Next]_vars PROVE TypeOK'
  OBVIOUS
<1>1. CASE LoadFinishSent
  BY <1>1 DEF LoadFinishSent, TypeOK, user, history
<1>2. CASE LoadRemaining
  BY <1>2 DEF LoadRemaining, TypeOK, user, history
<1>3. CASE Register
  BY <1>3 DEF Register, TypeOK, user, history
<1>4. CASE ExchangeOk
  BY <1>4 DEF ExchangeOk, TypeOK, user, history
<1>5. CASE ExchangeFails
  BY <1>5 DEF ExchangeFails, TypeOK, user, history
<1>6. CASE SendPush
  BY <1>6 DEF SendPush, TypeOK, user, history
<1>7. CASE SendFinish
  BY <1>7 DEF SendFinish, TypeOK, user, history
<1>8. CASE PollWrite
  BY <1>8 DEF PollWrite, TypeOK, user, history
<1>9. CASE Shutdown
  BY <1>9 DEF Shutdown, TypeOK, user, history
<1>10. CASE DropStream
  BY <1>10 DEF DropStream, TypeOK, user, history
<1>11. CASE Acknowledge
  BY <1>11 DEF Acknowledge, Receiving, TypeOK, user, history
<1>12. CASE RecvReset
  BY <1>12, ZenonT(30) DEF RecvReset, ClosePort, Receiving, TypeOK, user, history
<1>13. CASE RecvPushFull
  BY <1>13, ZenonT(30) DEF RecvPushFull, ClosePort, Receiving, TypeOK, user, history
<1>14. CASE ProcessDropped
  BY <1>14, ZenonT(30) DEF ProcessDropped, ClosePort, TypeOK, user, history
<1>15. CASE Wake
  BY <1>15, ZenonT(30) DEF Wake, TypeOK, user, history
<1>16. CASE SendReset
  BY <1>16 DEF SendReset, TypeOK, user, history
<1>17. CASE WindDown
  BY <1>17 DEF WindDown, TypeOK, user, history
<1>18. CASE CloseTx
  BY <1>18, ZenonT(30) DEF CloseTx, TypeOK, user, history
<1>19. CASE DrainFlows
  BY <1>19, ZenonT(30) DEF DrainFlows, ClosePort, TypeOK, user, history
<1>20. CASE PeerDispatch
  BY <1>20 DEF PeerDispatch, TypeOK, user, history
<1>21. CASE PeerRead
  BY <1>21 DEF PeerRead, TypeOK, user, history
<1>22. CASE UNCHANGED vars
  BY <1>22 DEF vars, user, history, TypeOK, user, history
<1> QED
  BY <1>1, <1>2, <1>3, <1>4, <1>5, <1>6, <1>7, <1>8, <1>9, <1>10, <1>11, <1>12, <1>13, <1>14, <1>15, <1>16, <1>17, <1>18, <1>19, <1>20, <1>21, <1>22, SMTT(30) DEF Next, Writing

LEMMA CloserStep == TypeOK /\ OneCloser /\ [Next]_vars => OneCloser'
<1> SUFFICES ASSUME TypeOK, OneCloser, [Next]_vars PROVE OneCloser'
  OBVIOUS
<1>1. CASE LoadFinishSent
  BY <1>1 DEF LoadFinishSent, TypeOK, OneCloser, user, history
<1>2. CASE LoadRemaining
  BY <1>2 DEF LoadRemaining, TypeOK, OneCloser, user, history
<1>3. CASE Register
  BY <1>3 DEF Register, TypeOK, OneCloser, user, history
<1>4. CASE ExchangeOk
  BY <1>4 DEF ExchangeOk, TypeOK, OneCloser, user, history
<1>5. CASE ExchangeFails
  BY <1>5 DEF ExchangeFails, TypeOK, OneCloser, user, history
<1>6. CASE SendPush
  BY <1>6 DEF SendPush, TypeOK, OneCloser, user, history
<1>7. CASE SendFinish
  BY <1>7 DEF SendFinish, TypeOK, OneCloser, user, history
<1>8. CASE PollWrite
  BY <1>8 DEF PollWrite, TypeOK, OneCloser, user, history
<1>9. CASE Shutdown
  BY <1>9 DEF Shutdown, TypeOK, OneCloser, user, history
<1>10. CASE DropStream
  BY <1>10 DEF DropStream, TypeOK, OneCloser, user, history
<1>11. CASE Acknowledge
  BY <1>11 DEF Acknowledge, Receiving, TypeOK, OneCloser, user, history
<1>12. CASE RecvReset
  BY <1>12 DEF RecvReset, ClosePort, Receiving, TypeOK, OneCloser, user, history
<1>13. CASE RecvPushFull
  BY <1>13 DEF RecvPushFull, ClosePort, Receiving, TypeOK, OneCloser, user, history
<1>14. CASE ProcessDropped
  BY <1>14 DEF ProcessDropped, ClosePort, TypeOK, OneCloser, user, history
<1>15. CASE Wake
  BY <1>15 DEF Wake, TypeOK, OneCloser, user, history
<1>16. CASE SendReset
  BY <1>16 DEF SendReset, TypeOK, OneCloser, user, history
<1>17. CASE WindDown
  BY <1>17 DEF WindDown, TypeOK, OneCloser, user, history
<1>18. CASE CloseTx
  BY <1>18 DEF CloseTx, TypeOK, OneCloser, user, history
<1>19. CASE DrainFlows
  BY <1>19 DEF DrainFlows, ClosePort, TypeOK, OneCloser, user, history
<1>20. CASE PeerDispatch
  BY <1>20 DEF PeerDispatch, TypeOK, OneCloser, user, history
<1>21. CASE PeerRead
  BY <1>21 DEF PeerRead, TypeOK, OneCloser, user, history
<1>22. CASE UNCHANGED vars
  BY <1>22, SMTT(30) DEF vars, user, history, TypeOK, OneCloser, user, history
<1> QED
  BY <1>1, <1>2, <1>3, <1>4, <1>5, <1>6, <1>7, <1>8, <1>9, <1>10, <1>11, <1>12, <1>13, <1>14, <1>15, <1>16, <1>17, <1>18, <1>19, <1>20, <1>21, <1>22 DEF Next, Writing

LEMMA LateStep == TypeOK /\ OneBeyondCheck /\ [Next]_vars => OneBeyondCheck'
<1> SUFFICES ASSUME TypeOK, OneBeyondCheck, [Next]_vars PROVE OneBeyondCheck'
  OBVIOUS
<1>1. CASE LoadFinishSent
  BY <1>1 DEF LoadFinishSent, TypeOK, OneBeyondCheck, user, history
<1>2. CASE LoadRemaining
  BY <1>2 DEF LoadRemaining, TypeOK, OneBeyondCheck, user, history
<1>3. CASE Register
  BY <1>3 DEF Register, TypeOK, OneBeyondCheck, user, history
<1>4. CASE ExchangeOk
  BY <1>4 DEF ExchangeOk, TypeOK, OneBeyondCheck, user, history
<1>5. CASE ExchangeFails
  BY <1>5 DEF ExchangeFails, TypeOK, OneBeyondCheck, user, history
<1>6. CASE SendPush
  BY <1>6 DEF SendPush, TypeOK, OneBeyondCheck, user, history
<1>7. CASE SendFinish
  BY <1>7 DEF SendFinish, TypeOK, OneBeyondCheck, user, history
<1>8. CASE PollWrite
  BY <1>8 DEF PollWrite, TypeOK, OneBeyondCheck, user, history
<1>9. CASE Shutdown
  BY <1>9 DEF Shutdown, TypeOK, OneBeyondCheck, user, history
<1>10. CASE DropStream
  BY <1>10 DEF DropStream, TypeOK, OneBeyondCheck, user, history
<1>11. CASE Acknowledge
  BY <1>11 DEF Acknowledge, Receiving, TypeOK, OneBeyondCheck, user, history
<1>12. CASE RecvReset
  BY <1>12 DEF RecvReset, ClosePort, Receiving, TypeOK, OneBeyondCheck, user, history
<1>13. CASE RecvPushFull
  BY <1>13 DEF RecvPushFull, ClosePort, Receiving, TypeOK, OneBeyondCheck, user, history
<1>14. CASE ProcessDropped
  BY <1>14 DEF ProcessDropped, ClosePort, TypeOK, OneBeyondCheck, user, history
<1>15. CASE Wake
  BY <1>15 DEF Wake, TypeOK, OneBeyondCheck, user, history
<1>16. CASE SendReset
  BY <1>16 DEF SendReset, TypeOK, OneBeyondCheck, user, history
<1>17. CASE WindDown
  BY <1>17 DEF WindDown, TypeOK, OneBeyondCheck, user, history
<1>18. CASE CloseTx
  BY <1>18 DEF CloseTx, TypeOK, OneBeyondCheck, user, history
<1>19. CASE DrainFlows
  BY <1>19 DEF DrainFlows, ClosePort, TypeOK, OneBeyondCheck, user, history
<1>20. CASE PeerDispatch
  BY <1>20 DEF PeerDispatch, TypeOK, OneBeyondCheck, user, history
<1>21. CASE PeerRead
  BY <1>21 DEF PeerRead, TypeOK, OneBeyondCheck, user, history
<1>22. CASE UNCHANGED vars
  BY <1>22 DEF vars, user, history, TypeOK, OneBeyondCheck, user, history
<1> QED
  BY <1>1, <1>2, <1>3, <1>4, <1>5, <1>6, <1>7, <1>8, <1>9, <1>10, <1>11, <1>12, <1>13, <1>14, <1>15, <1>16, <1>17, <1>18, <1>19, <1>20, <1>21, <1>22 DEF Next, Writing

LEMMA TellingStep == TypeOK /\ OneCloser /\ Telling /\ [Next]_vars => Telling'
<1> SUFFICES ASSUME TypeOK, OneCloser, Telling, [Next]_vars PROVE Telling'
  OBVIOUS
<1>1. CASE LoadFinishSent
  BY <1>1 DEF LoadFinishSent, TypeOK, OneCloser, Telling, user, history
<1>2. CASE LoadRemaining
  BY <1>2 DEF LoadRemaining, TypeOK, OneCloser, Telling, user, history
<1>3. CASE Register
  BY <1>3 DEF Register, TypeOK, OneCloser, Telling, user, history
<1>4. CASE ExchangeOk
  BY <1>4 DEF ExchangeOk, TypeOK, OneCloser, Telling, user, history
<1>5. CASE ExchangeFails
  BY <1>5 DEF ExchangeFails, TypeOK, OneCloser, Telling, user, history
<1>6. CASE SendPush
  BY <1>6 DEF SendPush, TypeOK, OneCloser, Telling, user, history
<1>7. CASE SendFinish
  BY <1>7 DEF SendFinish, TypeOK, OneCloser, Telling, user, history
<1>8. CASE PollWrite
  BY <1>8 DEF PollWrite, TypeOK, OneCloser, Telling, user, history
<1>9. CASE Shutdown
  BY <1>9 DEF Shutdown, TypeOK, OneCloser, Telling, user, history
<1>10. CASE DropStream
  BY <1>10 DEF DropStream, TypeOK, OneCloser, Telling, user, history
<1>11. CASE Acknowledge
  BY <1>11 DEF Acknowledge, Receiving, TypeOK, OneCloser, Telling, user, history
<1>12. CASE RecvReset
  BY <1>12 DEF RecvReset, ClosePort, Receiving, TypeOK, OneCloser, Telling, user, history
<1>13. CASE RecvPushFull
  BY <1>13 DEF RecvPushFull, ClosePort, Receiving, TypeOK, OneCloser, Telling, user, history
<1>14. CASE ProcessDropped
  BY <1>14 DEF ProcessDropped, ClosePort, TypeOK, OneCloser, Telling, user, history
<1>15. CASE Wake
  BY <1>15 DEF Wake, TypeOK, OneCloser, Telling, user, history
<1>16. CASE SendReset
  BY <1>16 DEF SendReset, TypeOK, OneCloser, Telling, user, history
<1>17. CASE WindDown
  BY <1>17 DEF WindDown, TypeOK, OneCloser, Telling, user, history
<1>18. CASE CloseTx
  BY <1>18 DEF CloseTx, TypeOK, OneCloser, Telling, user, history
<1>19. CASE DrainFlows
  BY <1>19 DEF DrainFlows, ClosePort, TypeOK, OneCloser, Telling, user, history
<1>20. CASE PeerDispatch
  BY <1>20 DEF PeerDispatch, TypeOK, OneCloser, Telling, user, history
<1>21. CASE PeerRead
  BY <1>21 DEF PeerRead, TypeOK, OneCloser, Telling, user, history
<1>22. CASE UNCHANGED vars
  BY <1>22 DEF vars, user, history, TypeOK, OneCloser, Telling, user, history
<1> QED
  BY <1>1, <1>2, <1>3, <1>4, <1>5, <1>6, <1>7, <1>8, <1>9, <1>10, <1>11, <1>12, <1>13, <1>14, <1>15, <1>16, <1>17, <1>18, <1>19, <1>20, <1>21, <1>22, SMTT(30) DEF Next, Writing

-----------------------------------------------------------------------------
(* The window. *)

LEMMA OptionsHold == Proven!OptionsAssumption
BY WriterAssumption DEF Proven!OptionsAssumption

LEMMA InitWindow == Init => Window!Init /\ Proven!Init
BY DEF Init, Window!Init, Proven!Init

(* What FlowWindow's invariant says here. *)
LEMMA WindowTypes ==
    TypeOK /\ WindowInv =>
        /\ remaining \in Nat /\ chan \in Nat /\ since \in Nat /\ acks \in Seq(Nat)
        /\ chan + pushes + (IF wpc = "send" /\ txOpen THEN 1 ELSE 0) <= Rwnd
<1> SUFFICES ASSUME TypeOK, WindowInv
             PROVE  /\ remaining \in Nat /\ chan \in Nat /\ since \in Nat /\ acks \in Seq(Nat)
                    /\ chan + pushes + (IF wpc = "send" /\ txOpen THEN 1 ELSE 0) <= Rwnd
  OBVIOUS
<1>1. Proven!TypeOK /\ Proven!CreditConserved
  BY DEF WindowInv, Proven!IInv
<1>2. chan + (pushes + (IF wpc = "send" /\ txOpen THEN 1 ELSE 0)) <= Rwnd
  BY <1>1, OptionsHold, Proven!RoomForPush, SMTT(30)
<1> QED
  BY <1>1, <1>2, WriterAssumption DEF Proven!TypeOK, TypeOK

(* The instance of the proofs is the instance of the specification. *)
LEMMA SameWindow == [Proven!Next]_(Proven!vars) => [Window!Next]_(Window!vars)
BY DEF Proven!Next, Window!Next, Proven!vars, Window!vars, Proven!Write, Window!Write,
       Proven!CloseWriter, Window!CloseWriter, Proven!Dispatch, Window!Dispatch,
       Proven!Read, Window!Read, Proven!Acknowledge, Window!Acknowledge,
       Proven!CloseReader, Window!CloseReader, Proven!DropReader, Window!DropReader,
       Proven!LinkDown, Window!LinkDown, Proven!U32, Window!U32,
       Proven!RwndThreshold, Window!RwndThreshold

(* Every step is a step of the window or leaves it alone. *)
LEMMA StepRefines == TypeOK /\ WindowInv /\ [Next]_vars => [Proven!Next]_(Proven!vars)
<1> SUFFICES ASSUME TypeOK, WindowInv, [Next]_vars PROVE [Proven!Next]_(Proven!vars)
  OBVIOUS
<1>t. /\ remaining \in Nat /\ chan \in Nat /\ since \in Nat /\ acks \in Seq(Nat)
      /\ chan + pushes + (IF wpc = "send" /\ txOpen THEN 1 ELSE 0) <= Rwnd
      /\ pushes \in Nat /\ Rwnd \in Nat
  BY WindowTypes, WriterAssumption DEF TypeOK
<1>1. CASE PollWrite
  <2>1. UNCHANGED Proven!vars
    BY <1>1 DEF PollWrite, Proven!vars, user, peer
  <2> QED
    BY <2>1
<1>2. CASE LoadFinishSent
  <2>1. UNCHANGED Proven!vars
    BY <1>2 DEF LoadFinishSent, Proven!vars, user, peer
  <2> QED
    BY <2>1
<1>3. CASE LoadRemaining
  <2>1. UNCHANGED Proven!vars
    BY <1>3 DEF LoadRemaining, Proven!vars, user, peer
  <2> QED
    BY <2>1
<1>4. CASE Register
  <2>1. UNCHANGED Proven!vars
    BY <1>4 DEF Register, Proven!vars, user, peer
  <2> QED
    BY <2>1
<1>5. CASE ExchangeFails
  <2>1. UNCHANGED Proven!vars
    BY <1>5 DEF ExchangeFails, Proven!vars, user, peer
  <2> QED
    BY <2>1
<1>6. CASE Shutdown
  <2>1. UNCHANGED Proven!vars
    BY <1>6 DEF Shutdown, Proven!vars, user, peer
  <2> QED
    BY <2>1
<1>7. CASE SendFinish
  <2>1. UNCHANGED Proven!vars
    BY <1>7 DEF SendFinish, Proven!vars, user, peer
  <2> QED
    BY <2>1
<1>8. CASE DropStream
  <2>1. UNCHANGED Proven!vars
    BY <1>8 DEF DropStream, Proven!vars, user, peer
  <2> QED
    BY <2>1
<1>9. CASE Wake
  <2>1. UNCHANGED Proven!vars
    BY <1>9 DEF Wake, Proven!vars, user, peer
  <2> QED
    BY <2>1
<1>10. CASE SendReset
  <2>1. UNCHANGED Proven!vars
    BY <1>10 DEF SendReset, Proven!vars, user, peer
  <2> QED
    BY <2>1
<1>11. CASE WindDown
  <2>1. UNCHANGED Proven!vars
    BY <1>11 DEF WindDown, Proven!vars, user, peer
  <2> QED
    BY <2>1
<1>12. CASE ExchangeOk
  <2>1. remaining > 0
    BY <1>12, <1>t DEF ExchangeOk, WindowInv
  <2>2. Proven!Write
    BY <1>12, <1>t, <2>1 DEF ExchangeOk, Proven!Write, peer
  <2> QED
    BY <2>2 DEF Proven!Next
<1>13. CASE SendPush
  <2>1. UNCHANGED Proven!vars
    BY <1>13, <1>t DEF SendPush, Proven!vars, peer
  <2> QED
    BY <2>1
<1>14. CASE Acknowledge
  <2>1. Proven!Acknowledge
    BY <1>14 DEF Acknowledge, Proven!Acknowledge, Proven!U32, Window!U32, user, peer
  <2> QED
    BY <2>1 DEF Proven!Next
<1>15. ASSUME slot, slot' = FALSE, UNCHANGED <<remaining, wpc, txOpen, pushes, chan, since, acks>>
       PROVE  [Proven!Next]_(Proven!vars)
  <2>1. Proven!CloseWriter
    BY <1>15 DEF Proven!CloseWriter
  <2> QED
    BY <2>1 DEF Proven!Next
<1>16. ASSUME UNCHANGED <<slot, remaining, wpc, txOpen, pushes, chan, since, acks>>
       PROVE  [Proven!Next]_(Proven!vars)
  BY <1>16 DEF Proven!vars
<1>17. CASE RecvReset \/ RecvPushFull
  BY <1>15, <1>17 DEF RecvReset, RecvPushFull, ClosePort, user, peer
<1>18. CASE ProcessDropped \/ DrainFlows
  BY <1>15, <1>16, <1>18 DEF ProcessDropped, DrainFlows, ClosePort, user, peer
<1>19. CASE CloseTx
  <2>1. CASE txOpen
    <3>1. SubSeq(acks, 1, Len(acks)) = acks /\ Len(acks) \in 0..Len(acks)
      BY <1>t
    <3>2. UNCHANGED <<remaining, wpc, slot, pushes, chan, since, acks>> /\ txOpen' = FALSE
      BY <1>19 DEF CloseTx, user, peer
    <3>3. (pushes + (IF wpc = "send" /\ txOpen THEN 1 ELSE 0))'
             \in 0..(pushes + (IF wpc = "send" /\ txOpen THEN 1 ELSE 0))
      BY <1>t, <3>2, SMTT(30)
    <3>4. \E k \in 0..Len(acks) : acks' = SubSeq(acks, 1, k)
      BY <3>1, <3>2, ZenonT(30)
    <3>5. Proven!LinkDown
      BY <2>1, <3>2, <3>3, <3>4, Zenon DEF Proven!LinkDown
    <3> QED
      BY <3>5 DEF Proven!Next
  <2>2. CASE ~txOpen
    <3>1. txOpen' = txOpen
      BY <1>19, <2>2, ZenonT(30) DEF CloseTx, TypeOK
    <3> QED
      BY <1>16, <1>19, <3>1 DEF CloseTx, user, peer
  <2> QED
    BY <2>1, <2>2
<1>20. CASE PeerDispatch
  <2>1. chan < Rwnd
    BY <1>20, <1>t DEF PeerDispatch
  <2>2. Proven!Dispatch
    BY <1>20, <1>t, <2>1 DEF PeerDispatch, Proven!Dispatch, user
  <2> QED
    BY <2>2 DEF Proven!Next
<1>21. CASE PeerRead
  <2>1. Proven!Read
    BY <1>21 DEF PeerRead, Proven!Read, RwndThreshold, Window!RwndThreshold, Proven!RwndThreshold, user
  <2> QED
    BY <2>1 DEF Proven!Next
<1>22. CASE UNCHANGED vars
  BY <1>16, <1>22 DEF vars, user, peer
<1> QED
  BY <1>1, <1>2, <1>3, <1>4, <1>5, <1>6, <1>7, <1>8, <1>9, <1>10, <1>11, <1>12, <1>13, <1>14, <1>17, <1>18, <1>19, <1>20, <1>21, <1>22, ZenonT(30) DEF Next, Writing

(* The exchange of ExchangeOk never takes a credit that is not there. *)
LEMMA WindowStep == TypeOK /\ WindowInv /\ [Next]_vars => WindowInv'
<1> SUFFICES ASSUME TypeOK, WindowInv, [Next]_vars PROVE WindowInv'
  OBVIOUS
<1>1. Proven!IInv'
  BY OptionsHold, StepRefines, Proven!NextIInv DEF WindowInv
<1>2. wpc' = "cas" => original' \in Nat \ {0}
  <2>1. CASE LoadRemaining
    BY <2>1, WindowTypes DEF LoadRemaining
  <2>2. CASE ~LoadRemaining
    <3>1. wpc' = "cas" => wpc = "cas" /\ original' = original
      BY <2>2, ZenonT(30) DEF Next, Writing, LoadFinishSent, Register, ExchangeOk, ExchangeFails, SendPush, SendFinish,
         PollWrite, Shutdown, DropStream, Acknowledge, RecvReset, RecvPushFull, ProcessDropped, Wake,
         SendReset, WindDown, CloseTx, DrainFlows, PeerDispatch, PeerRead, vars, user
    <3> QED
      BY <3>1 DEF WindowInv
  <2> QED
    BY <2>1, <2>2
<1> QED
  BY <1>1, <1>2 DEF WindowInv

-----------------------------------------------------------------------------
(* The theorems. *)

(* IInv holds in every state of every behaviour. *)
THEOREM WriterInductive == Spec => []IInv
<1>1. Init => IInv
  <2> SUFFICES ASSUME Init PROVE IInv
    OBVIOUS
  <2>1. TypeOK /\ OneCloser /\ OneBeyondCheck /\ Telling
    <3>1. /\ finishSent \in BOOLEAN /\ rst \in BOOLEAN /\ slot \in BOOLEAN
          /\ txOpen \in BOOLEAN /\ resetSeen \in BOOLEAN
      BY Zenon DEF Init
    <3> QED
      BY <3>1 DEF Init, TypeOK, OneCloser, OneBeyondCheck, Telling
  <2>2. Proven!IInv
    BY InitWindow, OptionsHold, Proven!InitIInv
  <2> QED
    BY <2>1, <2>2 DEF IInv, WindowInv, Init
<1>2. IInv /\ [Next]_vars => IInv'
  BY TypeStep, WindowStep, CloserStep, LateStep, TellingStep, Zenon DEF IInv
<1> QED
  BY <1>1, <1>2, PTL DEF Spec

(* The exchange, the fetch_add and the queue of a stream implement the     *)
(* credit window: every interleaving of the user's task with the mux task  *)
(* is a behaviour of FlowWindow.                                           *)
THEOREM WriterImplementsWindow == Spec => ImplementsWindow
<1>1. Init => Window!Init
  BY InitWindow
<1>2. IInv /\ [Next]_vars => [Window!Next]_(Window!vars)
  BY StepRefines, SameWindow DEF IInv
<1> QED
  BY <1>1, <1>2, WriterInductive, PTL DEF Spec, ImplementsWindow, Window!Spec

(* shutdown_inner and close_port_local never both queue a terminal frame,  *)
(* and neither queues two.                                                 *)
THEOREM TerminalOnce == Spec => []OneTerminal
<1>1. IInv => OneTerminal
  BY DEF IInv, OneCloser, OneTerminal
<1> QED
  BY <1>1, WriterInductive, PTL

(* poll_obtain_write_permission lets at most one `Push` past the closing.  *)
THEOREM LatePushOnce == Spec => []OneLatePush
<1>1. IInv => OneLatePush
  BY DEF IInv, OneBeyondCheck, OneLatePush
<1> QED
  BY <1>1, WriterInductive, PTL

(* A dropped stream leaves the flow table of a running task only with the  *)
(* peer told.                                                              *)
THEOREM DropTellsPeer == Spec => []PeerTold
<1>1. IInv => PeerTold
  BY DEF IInv, TypeOK, OneCloser, Telling, PeerTold
<1> QED
  BY <1>1, WriterInductive, PTL

=============================================================================
