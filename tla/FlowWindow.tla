----------------------------- MODULE FlowWindow -----------------------------
(***************************************************************************)
(* The credit window of one direction of one established stream: what      *)
(* `psh_send_remaining`, `psh_recvd_since` and the `Acknowledge` frames     *)
(* promise together, whatever the scheduling of the two multiplexors.       *)
(*                                                                         *)
(* The writing end holds `remaining` credits and spends one per `Push`.     *)
(* The reading end keeps at most Rwnd frames in the bounded channel of its  *)
(* `MuxStream` and returns credits in `Acknowledge` frames, one every       *)
(* RwndThreshold frames read.  Frames queued for the WebSocket and frames   *)
(* on the wire are not told apart here: both are in transit, in order.      *)
(***************************************************************************)
EXTENDS Naturals, Sequences

CONSTANTS
    Rwnd,             \* `rwnd` option of the reading end
    PeerRwnd,         \* `rwnd` option of the writing end
    DefaultThreshold, \* `default_rwnd_threshold` option of the reading end
    MaxU32            \* largest value of the `AtomicU32` counter

(* `config::Options` asserts that every one of these options is positive.  *)
ASSUME OptionsAssumption ==
    /\ Rwnd \in Nat \ {0}
    /\ PeerRwnd \in Nat \ {0}
    /\ DefaultThreshold \in Nat \ {0}
    /\ MaxU32 \in Nat
    /\ Rwnd <= MaxU32

VARIABLES
    remaining,  \* psh_send_remaining of the writing stream
    pushes,     \* number of `Push` frames in transit
    chan,       \* number of frames in the reading stream's `frame_rx`
    since,      \* psh_recvd_since of the reading stream
    acks,       \* values of the `Acknowledge` frames in transit, oldest first
    wslot,      \* the writing end still has the stream in its flow table
    rslot,      \* the reading end has it there, with a `sender` to dispatch to
    rhandle,    \* the reading end's `MuxStream` has not been dropped
    link        \* both multiplexor tasks still move frames

vars == <<remaining, pushes, chan, since, acks, wslot, rslot, rhandle, link>>

-----------------------------------------------------------------------------

(* Frames read between two `Acknowledge`s. *)
RwndThreshold == IF DefaultThreshold <= PeerRwnd THEN DefaultThreshold ELSE PeerRwnd

(* fetch_add on the u32 counter wraps. *)
U32(n) == IF n <= MaxU32 THEN n ELSE n - (MaxU32 + 1)

Init ==
    /\ remaining = Rwnd
    /\ pushes = 0
    /\ chan = 0
    /\ since = 0
    /\ acks = << >>
    /\ wslot = TRUE
    /\ rslot = TRUE
    /\ rhandle = TRUE
    /\ link = TRUE

-----------------------------------------------------------------------------

(* A write that decrements without looking for a credit. *)
WriteUnchecked ==
    /\ remaining' = remaining - 1
    /\ pushes' = IF link THEN pushes + 1 ELSE pushes
    /\ UNCHANGED <<chan, since, acks, wslot, rslot, rhandle, link>>

(* poll_write: take a credit and queue a `Push`.  With the task gone the   *)
(* send fails after the credit was taken.  finish_sent stops writers, but  *)
(* one that passed its check before may still write, so the window cannot  *)
(* depend on it and it is not a variable here.                             *)
Write ==
    /\ remaining > 0
    /\ remaining' = remaining - 1
    /\ pushes' = IF link THEN pushes + 1 ELSE pushes
    /\ UNCHANGED <<chan, since, acks, wslot, rslot, rhandle, link>>

(* close_port at the writing end. *)
CloseWriter ==
    /\ wslot
    /\ wslot' = FALSE
    /\ UNCHANGED <<remaining, pushes, chan, since, acks, rslot, rhandle, link>>

(* The next `Push` reaches the reading end: it goes into the channel, it   *)
(* is discarded when the `MuxStream` or the slot is gone, and a full       *)
(* channel closes the port.                                                *)
Dispatch ==
    /\ pushes > 0
    /\ pushes' = pushes - 1
    /\ chan' = IF rslot /\ rhandle /\ chan < Rwnd THEN chan + 1 ELSE chan
    /\ rslot' = (rslot /\ (rhandle => chan < Rwnd))
    /\ UNCHANGED <<remaining, since, acks, wslot, rhandle, link>>

(* A read that acknowledges one frame too many. *)
ReadOverAck ==
    /\ rhandle
    /\ chan > 0
    /\ chan' = chan - 1
    /\ LET new == since + 1 IN
         IF new >= RwndThreshold
           THEN /\ since' = 0
                /\ acks' = IF link THEN Append(acks, new + 1) ELSE acks
           ELSE /\ since' = new
                /\ acks' = acks
    /\ UNCHANGED <<remaining, pushes, wslot, rslot, rhandle, link>>

(* A read that forgets to restart the count. *)
ReadNoReset ==
    /\ rhandle
    /\ chan > 0
    /\ chan' = chan - 1
    /\ since' = since + 1
    /\ acks' = IF link /\ since + 1 >= RwndThreshold THEN Append(acks, since + 1) ELSE acks
    /\ UNCHANGED <<remaining, pushes, wslot, rslot, rhandle, link>>

(* A read that acknowledges only beyond the threshold. *)
ReadLateAck ==
    /\ rhandle
    /\ chan > 0
    /\ chan' = chan - 1
    /\ LET new == since + 1 IN
         IF new > Rwnd
           THEN /\ since' = 0
                /\ acks' = IF link THEN Append(acks, new) ELSE acks
           ELSE /\ since' = new
                /\ acks' = acks
    /\ UNCHANGED <<remaining, pushes, wslot, rslot, rhandle, link>>

(* poll_fill_buf takes one frame, increment_psh_recvd_since counts it. *)
Read ==
    /\ rhandle
    /\ chan > 0
    /\ chan' = chan - 1
    /\ LET new == since + 1 IN
         IF new >= RwndThreshold
           THEN /\ since' = 0
                /\ acks' = IF link THEN Append(acks, new) ELSE acks
           ELSE /\ since' = new
                /\ acks' = acks
    /\ UNCHANGED <<remaining, pushes, wslot, rslot, rhandle, link>>

(* The next `Acknowledge` reaches the writing end; without a slot it is    *)
(* answered with a `Reset` and its credits are gone.                       *)
Acknowledge ==
    /\ acks # << >>
    /\ acks' = Tail(acks)
    /\ remaining' = IF wslot THEN U32(remaining + Head(acks)) ELSE remaining
    /\ UNCHANGED <<pushes, chan, since, wslot, rslot, rhandle, link>>

(* The reading end stops dispatching: `Finish` processed, or close_port.   *)
CloseReader ==
    /\ rslot
    /\ rslot' = FALSE
    /\ UNCHANGED <<remaining, pushes, chan, since, acks, wslot, rhandle, link>>

(* The reading end's `MuxStream` is dropped with what its channel holds.   *)
DropReader ==
    /\ rhandle
    /\ rhandle' = FALSE
    /\ chan' = 0
    /\ UNCHANGED <<remaining, pushes, since, acks, wslot, rslot, link>>

(* A multiplexor task stops forwarding frames (select! of `start` returns  *)
(* and wind_down closes the frame queue): some of what is in transit still *)
(* arrives, the rest is lost, and nothing is queued any more.              *)
LinkDown ==
    /\ link
    /\ link' = FALSE
    /\ pushes' \in 0..pushes
    /\ \E k \in 0..Len(acks) : acks' = SubSeq(acks, 1, k)
    /\ UNCHANGED <<remaining, chan, since, wslot, rslot, rhandle>>

Next ==
    \/ Write
    \/ CloseWriter
    \/ Dispatch
    \/ Read
    \/ Acknowledge
    \/ CloseReader
    \/ DropReader
    \/ LinkDown

Spec == Init /\ [][Next]_vars

(* The tasks keep moving frames and the reading application keeps reading; *)
(* nobody has to write, close or fail.                                     *)
Fairness == WF_vars(Dispatch) /\ WF_vars(Read) /\ WF_vars(Acknowledge)

FairSpec == Spec /\ Fairness

-----------------------------------------------------------------------------

(* Every variable stays in its type; the counters never go negative. *)
TypeOK ==
    /\ remaining \in Nat
    /\ pushes \in Nat
    /\ chan \in Nat
    /\ since \in Nat
    /\ acks \in Seq(Nat)
    /\ wslot \in BOOLEAN
    /\ rslot \in BOOLEAN
    /\ rhandle \in BOOLEAN
    /\ link \in BOOLEAN

(* The credits on their way back to the writer. *)
Returning == Len(acks) * RwndThreshold

(* Every credit of the window, wherever it is. *)
Credits == remaining + pushes + chan + since + Returning

(* Each `Acknowledge` returns exactly the frames counted since the last    *)
(* one (increment_psh_recvd_since, stream.rs:177-194).                     *)
AckIsThreshold ==
    /\ since < RwndThreshold
    /\ \A i \in 1..Len(acks) : acks[i] = RwndThreshold

(* No credit is ever created, and while both ends have the stream none is  *)
(* lost: a window that leaks stalls the writer in the end, one that grows  *)
(* overruns the reader (acknowledge, poll_obtain_write_permission).        *)
CreditConserved ==
    /\ Credits <= Rwnd
    /\ (link /\ wslot /\ rslot /\ rhandle) => Credits = Rwnd

(* A `Push` between conforming ends never finds the channel full, so the   *)
(* `TrySendError::Full` branch of process_frame is never taken             *)
(* (task.rs:434-439: "this should not happen in normal circumstances").    *)
NeverFull == pushes > 0 /\ rslot => chan < Rwnd

(* fetch_add never wraps the u32 (acknowledge, lib.rs:382). *)
NoWrap == acks # << >> /\ wslot => remaining + Head(acks) <= MaxU32

(* A writer without credit gets one back while the stream is up and the    *)
(* peer's application reads (acknowledge wakes it, lib.rs:384).            *)
CreditReturns ==
    (remaining = 0) ~> (remaining > 0 \/ ~(link /\ wslot /\ rslot /\ rhandle))

=============================================================================
