---------------------------- MODULE StreamWriter ----------------------------
(***************************************************************************)
(* One `MuxStream` and the multiplexor task it shares atomics with.        *)
(*                                                                         *)
(* The user's task writes, shuts down and drops the stream; the mux task   *)
(* acknowledges, closes the port and winds down.  They run on different    *)
(* threads and meet in `finish_sent`, `psh_send_remaining`, the            *)
(* `AtomicWaker` and the frame queue, so every access to one of these is a *)
(* step of its own.  Accesses are sequentially consistent, which is        *)
(* stronger than the orderings in the code.  The peer reads what it is     *)
(* sent and returns credits as FlowWindow says; this module implements     *)
(* FlowWindow (property Window!Spec).                                      *)
(***************************************************************************)
EXTENDS Naturals, Sequences

CONSTANTS
    Rwnd,             \* the peer's `rwnd`: our initial credit
    PeerRwnd,         \* our own `rwnd`, as the peer was told
    DefaultThreshold, \* the peer's `default_rwnd_threshold`
    MaxU32

(* As in FlowWindow: config::Options asserts that its options are          *)
(* positive, and rwnd is a u32.                                            *)
ASSUME WriterAssumption ==
    /\ Rwnd \in Nat \ {0} /\ PeerRwnd \in Nat \ {0} /\ DefaultThreshold \in Nat \ {0}
    /\ MaxU32 \in Nat /\ Rwnd <= MaxU32

VARIABLES
    finishSent, \* finish_sent
    remaining,  \* psh_send_remaining
    waker,      \* writer_waker holds the waker of the user's task
    wpc,        \* where the user's task is
    original,   \* its local of poll_obtain_write_permission
    notified,   \* the user's task was woken and is not polled yet
    mpc,        \* where the mux task is in acknowledge or close_port_local
    rst,        \* local of close_port_local: a `Reset` is due
    slot,       \* the flow table has the stream as Established
    wind,       \* progress of wind_down
    txOpen,     \* tx_frame_rx is not closed
    dropped,    \* the flow id is in the dropped_ports queue
    resetSeen,  \* history: the peer sent `Reset`
    terminal,   \* history: `Finish` and `Reset` frames queued
    late,       \* history: `Push` frames queued after finish_sent was set
    pushes, chan, since, acks \* in transit and at the peer, as in FlowWindow

user == <<wpc, original>>
history == <<resetSeen, terminal, late>>
peer == <<chan, since>>
vars == <<finishSent, remaining, waker, user, notified, mpc, rst, slot, wind,
          txOpen, dropped, history, pushes, peer, acks>>

Window == INSTANCE FlowWindow WITH
    pushes  <- pushes + (IF wpc = "send" /\ txOpen THEN 1 ELSE 0),
    wslot   <- slot,
    rslot   <- TRUE,
    rhandle <- TRUE,
    link    <- txOpen

RwndThreshold == Window!RwndThreshold

Init ==
    /\ finishSent = FALSE
    /\ remaining = Rwnd
    /\ waker = FALSE
    /\ wpc = "idle"
    /\ original = 0
    /\ notified = FALSE
    /\ mpc = "idle"
    /\ rst = FALSE
    /\ slot = TRUE
    /\ wind = "no"
    /\ txOpen = TRUE
    /\ dropped = FALSE
    /\ resetSeen = FALSE
    /\ terminal = << >>
    /\ late = 0
    /\ pushes = 0
    /\ chan = 0
    /\ since = 0
    /\ acks = << >>

-----------------------------------------------------------------------------
(* The user's task. *)

(* A write is polled: by the user, because the task was woken, or again    *)
(* while pending (CopyBidirectional polls both directions).                *)
PollWrite ==
    /\ wpc \in {"idle", "parked"}
    /\ wpc' = "check"
    /\ notified' = FALSE
    /\ UNCHANGED <<finishSent, remaining, waker, original, mpc, rst, slot, wind,
                   txOpen, dropped, history, pushes, peer, acks>>

(* The check at the head of poll_obtain_write_permission is missing. *)
SkipFinishCheck ==
    /\ wpc = "check"
    /\ wpc' = "load"
    /\ UNCHANGED <<finishSent, remaining, waker, original, notified, mpc, rst, slot,
                   wind, txOpen, dropped, history, pushes, peer, acks>>

(* Load finish_sent; `BrokenPipe` when it is set. *)
LoadFinishSent ==
    /\ wpc = "check"
    /\ wpc' = IF finishSent THEN "idle" ELSE "load"
    /\ UNCHANGED <<finishSent, remaining, waker, original, notified, mpc, rst, slot,
                   wind, txOpen, dropped, history, pushes, peer, acks>>

(* Load psh_send_remaining. *)
LoadRemaining ==
    /\ wpc = "load"
    /\ original' = remaining
    /\ wpc' = IF remaining = 0 THEN "register" ELSE "cas"
    /\ UNCHANGED <<finishSent, remaining, waker, notified, mpc, rst, slot, wind,
                   txOpen, dropped, history, pushes, peer, acks>>

(* Register the waker and return `Poll::Pending`. *)
Register ==
    /\ wpc = "register"
    /\ waker' = TRUE
    /\ wpc' = "parked"
    /\ UNCHANGED <<finishSent, remaining, original, notified, mpc, rst, slot, wind,
                   txOpen, dropped, history, pushes, peer, acks>>

(* A store of the loaded value where the exchange compares. *)
StoreWithoutCompare ==
    /\ wpc = "cas"
    /\ remaining' = original - 1
    /\ wpc' = "send"
    /\ UNCHANGED <<finishSent, waker, original, notified, mpc, rst, slot, wind,
                   txOpen, dropped, history, pushes, peer, acks>>

(* compare_exchange_weak takes a credit ... *)
ExchangeOk ==
    /\ wpc = "cas"
    /\ remaining = original
    /\ remaining' = original - 1
    /\ wpc' = "send"
    /\ UNCHANGED <<finishSent, waker, original, notified, mpc, rst, slot, wind,
                   txOpen, dropped, history, pushes, peer, acks>>

(* ... or fails, perhaps spuriously. *)
ExchangeFails ==
    /\ wpc = "cas"
    /\ wpc' = "load"
    /\ UNCHANGED <<finishSent, remaining, waker, original, notified, mpc, rst, slot,
                   wind, txOpen, dropped, history, pushes, peer, acks>>

(* poll_write queues the `Push`; `BrokenPipe` when the queue is closed. *)
SendPush ==
    /\ wpc = "send"
    /\ wpc' = "idle"
    /\ pushes' = IF txOpen THEN pushes + 1 ELSE pushes
    /\ late' = IF txOpen /\ finishSent THEN late + 1 ELSE late
    /\ UNCHANGED <<finishSent, remaining, waker, original, notified, mpc, rst, slot,
                   wind, txOpen, dropped, resetSeen, terminal, peer, acks>>

(* shutdown_inner with a load where it swaps. *)
ShutdownLoad ==
    /\ wpc \in {"idle", "parked"}
    /\ wpc' = IF finishSent THEN "idle" ELSE "finish"
    /\ UNCHANGED <<finishSent, remaining, waker, original, notified, mpc, rst, slot,
                   wind, txOpen, dropped, history, pushes, peer, acks>>

(* shutdown_inner: swap finish_sent; a pending write is given up. *)
Shutdown ==
    /\ wpc \in {"idle", "parked"}
    /\ finishSent' = TRUE
    /\ wpc' = IF finishSent THEN "idle" ELSE "finish"
    /\ UNCHANGED <<remaining, waker, original, notified, mpc, rst, slot, wind,
                   txOpen, dropped, history, pushes, peer, acks>>

(* shutdown_inner: queue the `Finish`. *)
SendFinish ==
    /\ wpc = "finish"
    /\ wpc' = "idle"
    /\ terminal' = IF txOpen THEN Append(terminal, "Finish") ELSE terminal
    /\ UNCHANGED <<finishSent, remaining, waker, original, notified, mpc, rst, slot,
                   wind, txOpen, dropped, resetSeen, late, pushes, peer, acks>>

(* MuxStream::drop *)
DropStream ==
    /\ wpc \in {"idle", "parked"}
    /\ wpc' = "gone"
    /\ dropped' = TRUE
    /\ UNCHANGED <<finishSent, remaining, waker, original, notified, mpc, rst, slot,
                   wind, txOpen, history, pushes, peer, acks>>

-----------------------------------------------------------------------------
(* The mux task. *)

(* Frames are processed by process_ws_next and, while winding down, after  *)
(* the queue is closed.                                                    *)
Receiving == mpc = "idle" /\ wind \in {"no", "closed"}

(* EstablishedStreamData::acknowledge adds the credits and will wake. *)
Acknowledge ==
    /\ Receiving
    /\ acks # << >>
    /\ acks' = Tail(acks)
    /\ remaining' = IF slot THEN Window!U32(remaining + Head(acks)) ELSE remaining
    /\ mpc' = IF slot THEN "wake" ELSE "idle"
    /\ UNCHANGED <<finishSent, waker, user, notified, rst, slot, wind, txOpen,
                   dropped, history, pushes, peer>>

(* close_port that never answers. *)
ClosePortSilent(inhibit_rst) ==
    /\ slot' = FALSE
    /\ finishSent' = TRUE
    /\ rst' = FALSE
    /\ mpc' = "wake"

(* disallow_write without the wake. *)
ClosePortNoWake(inhibit_rst) ==
    /\ slot' = FALSE
    /\ finishSent' = TRUE
    /\ rst' = FALSE
    /\ mpc' = IF inhibit_rst \/ finishSent THEN "idle" ELSE "reset"

(* close_port and close_port_local up to the swap of disallow_write. *)
ClosePort(inhibit_rst) ==
    /\ slot' = FALSE
    /\ finishSent' = TRUE
    /\ rst' = (~finishSent /\ ~inhibit_rst)
    /\ mpc' = "wake"

(* The peer sent `Reset`. *)
RecvReset ==
    /\ Receiving
    /\ slot
    /\ ClosePort(TRUE)
    /\ resetSeen' = TRUE
    /\ UNCHANGED <<remaining, waker, user, notified, wind, txOpen, dropped,
                   terminal, late, pushes, peer, acks>>

(* The peer overran our channel: the `TrySendError::Full` branch. *)
RecvPushFull ==
    /\ Receiving
    /\ slot
    /\ ClosePort(FALSE)
    /\ UNCHANGED <<remaining, waker, user, notified, wind, txOpen, dropped,
                   history, pushes, peer, acks>>

(* process_dropped_ports_task *)
ProcessDropped ==
    /\ mpc = "idle"
    /\ wind = "no"
    /\ dropped
    /\ dropped' = FALSE
    /\ IF slot THEN ClosePort(FALSE) ELSE UNCHANGED <<slot, finishSent, rst, mpc>>
    /\ UNCHANGED <<remaining, waker, user, notified, wind, txOpen, history,
                   pushes, peer, acks>>

(* writer_waker.wake() after fetch_add or swap. *)
Wake ==
    /\ mpc = "wake"
    /\ notified' = (notified \/ waker)
    /\ waker' = FALSE
    /\ mpc' = IF rst THEN "reset" ELSE "idle"
    /\ rst' = FALSE
    /\ UNCHANGED <<finishSent, remaining, user, slot, wind, txOpen, dropped,
                   history, pushes, peer, acks>>

(* close_port_local queues the `Reset`. *)
SendReset ==
    /\ mpc = "reset"
    /\ mpc' = "idle"
    /\ terminal' = IF txOpen THEN Append(terminal, "Reset") ELSE terminal
    /\ UNCHANGED <<finishSent, remaining, waker, user, notified, rst, slot, wind,
                   txOpen, dropped, resetSeen, late, pushes, peer, acks>>

(* wind_down: disallow_write on every established stream ... *)
WindDown ==
    /\ mpc = "idle"
    /\ wind = "no"
    /\ wind' = "disallowed"
    /\ finishSent' = (finishSent \/ slot)
    /\ mpc' = IF slot THEN "wake" ELSE "idle"
    /\ UNCHANGED <<remaining, waker, user, notified, rst, slot, txOpen, dropped,
                   history, pushes, peer, acks>>

(* ... close the frame queue ... *)
CloseTx ==
    /\ mpc = "idle"
    /\ wind = "disallowed"
    /\ wind' = "closed"
    /\ txOpen' = FALSE
    /\ UNCHANGED <<finishSent, remaining, waker, user, notified, mpc, rst, slot,
                   dropped, history, pushes, peer, acks>>

(* ... and, after the remaining messages, drain the flow table. *)
DrainFlows ==
    /\ mpc = "idle"
    /\ wind = "closed"
    /\ wind' = "done"
    /\ IF slot THEN ClosePort(TRUE) ELSE UNCHANGED <<slot, finishSent, rst, mpc>>
    /\ UNCHANGED <<remaining, waker, user, notified, txOpen, dropped, history,
                   pushes, peer, acks>>

-----------------------------------------------------------------------------
(* The peer. *)

PeerDispatch ==
    /\ pushes > 0
    /\ pushes' = pushes - 1
    /\ chan' = chan + 1
    /\ UNCHANGED <<finishSent, remaining, waker, user, notified, mpc, rst, slot,
                   wind, txOpen, dropped, history, since, acks>>

PeerRead ==
    /\ chan > 0
    /\ chan' = chan - 1
    /\ LET due == since + 1 >= RwndThreshold IN
         /\ since' = IF due THEN 0 ELSE since + 1
         /\ acks' = IF due /\ txOpen THEN Append(acks, since + 1) ELSE acks
    /\ UNCHANGED <<finishSent, remaining, waker, user, notified, mpc, rst, slot,
                   wind, txOpen, dropped, history, pushes>>

Writing ==
    \/ LoadFinishSent \/ LoadRemaining \/ Register \/ ExchangeOk \/ ExchangeFails
    \/ SendPush \/ SendFinish

Next ==
    \/ PollWrite \/ Writing \/ Shutdown \/ DropStream
    \/ Acknowledge \/ RecvReset \/ RecvPushFull \/ ProcessDropped
    \/ Wake \/ SendReset \/ WindDown \/ CloseTx \/ DrainFlows
    \/ PeerDispatch \/ PeerRead

Spec == Init /\ [][Next]_vars

(* A running task makes its next step, a woken task is polled, the mux     *)
(* task processes what is queued and finishes what it began, the peer's    *)
(* application reads.  Nobody has to start a write, shut down, drop, reset *)
(* or wind down.                                                           *)
Fairness ==
    /\ WF_vars(Writing)
    /\ WF_vars(notified /\ PollWrite)
    /\ WF_vars(Acknowledge)
    /\ WF_vars(ProcessDropped)
    /\ WF_vars(Wake \/ SendReset \/ CloseTx \/ DrainFlows)
    /\ WF_vars(PeerDispatch)
    /\ WF_vars(PeerRead)

FairSpec == Spec /\ Fairness

-----------------------------------------------------------------------------

(* The atomics keep the credit window exact: this module implements        *)
(* FlowWindow (compare_exchange_weak and fetch_add on psh_send_remaining). *)
ImplementsWindow == Window!Spec

(* The swap of finish_sent decides between shutdown_inner and              *)
(* close_port_local: a stream never says both `Finish` and `Reset`, nor    *)
(* either of them twice.                                                   *)
OneTerminal == Len(terminal) <= 1

(* At most one `Push` follows the closing of the write side: the one whose *)
(* writer had already passed the check of finish_sent (stream.rs:202-206). *)
OneLatePush == late <= 1

(* Once a dropped stream is out of the flow table the peer has been told,  *)
(* by `Finish` or by `Reset`, unless it was the one to reset               *)
(* (MuxStream::drop, "send a Reset frame if the stream is still open").    *)
PeerTold ==
    wpc = "gone" /\ ~slot /\ mpc = "idle" /\ wind = "no" /\ ~resetSeen
        => Len(terminal) = 1

(* A writer that registered its waker while the window was exhausted and   *)
(* open is woken, by an `Acknowledge` or by the closing of the stream.     *)
ParkedIsWoken ==
    (wpc = "parked" /\ waker /\ remaining = 0 /\ ~finishSent) ~> (wpc # "parked")

(* lib.rs:378-381: a writer that saw the old count and returned            *)
(* `Poll::Pending` is woken by the `Waker` anyway.                         *)
AckWakesWriter ==
    (wpc = "parked" /\ remaining > 0) ~> (wpc # "parked" \/ finishSent)

=============================================================================
