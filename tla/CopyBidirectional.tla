------------------------- MODULE CopyBidirectional -------------------------
(***************************************************************************)
(* tcp_forwarder_on_channel and the future it ends in: the copy between a  *)
(* MuxStream, "us", and a socket, "other".                                 *)
(*                                                                         *)
(* A poll of the future runs poll_read_us, then poll_write_us, and then    *)
(* looks at the two results; every iteration of their loops is a step, and *)
(* the stream and the socket change in between.  The future is polled      *)
(* again only if something it registered its waker with has changed; the   *)
(* waker stays there until it is used.                                     *)
(* Data is numbered, so that order and completeness can be seen; a write   *)
(* to the socket may take any part of the buffer.  A socket that was reset *)
(* reports the error once, to a read or to a write; afterwards it is at    *)
(* its end, and dead for writes.                                           *)
(***************************************************************************)
EXTENDS Naturals, Sequences, SequencesExt

CONSTANTS
    UsFrames,     \* the frames the peer will send: a sequence of sequences
    OtherChunks,  \* what the application at the socket will send
    Credit        \* `Push` frames that may be under way

(* Frames and chunks are not empty (stream.rs:155, and an empty chunk is   *)
(* the end of the socket).                                                 *)
Chunk == Seq(Nat) \ {<< >>}

ASSUME CopyAssumption ==
    Credit \in Nat \ {0} /\ UsFrames \in Seq(Chunk) /\ OtherChunks \in Seq(Chunk)

VARIABLES
    pc,           \* "connect", "parked", "read", "write", "register", "end", "returned"
    woken, reg,   \* the task was woken; what it has registered with
    r, w,         \* results of poll_read_us and poll_write_us
    res,          \* what the future returned
    read_state, write_state,
    buf,          \* MuxStream::buf
    us,           \* the stream: [left, rx, eof, fin, credit], and whether the last
                  \* credit came between the load and the registration (history)
    sock,         \* the socket: [left, rx, eof, reset, dead]
    toOther, toPeer, \* history: data written to the socket and to the stream
    otherShut, finished \* history: the socket was shut down, `Finish` was sent

vars == <<pc, woken, reg, r, w, res, read_state, write_state, buf, us, sock,
          toOther, toPeer, otherShut, finished>>

Init ==
    /\ pc = "connect" /\ woken = TRUE /\ reg = {}
    /\ r = "pending" /\ w = "pending" /\ res = "none"
    /\ read_state = "Transferring" /\ write_state = "Transferring"
    /\ buf = << >>
    /\ us = [left |-> UsFrames, rx |-> << >>, eof |-> FALSE, fin |-> FALSE, credit |-> Credit,
             late |-> FALSE]
    /\ sock = [left |-> OtherChunks, rx |-> << >>, eof |-> FALSE, reset |-> FALSE, dead |-> FALSE]
    /\ toOther = << >> /\ toPeer = << >>
    /\ otherShut = FALSE /\ finished = FALSE

-----------------------------------------------------------------------------
(* The forwarder, and the future. *)

(* TcpStream::connect; an error drops the channel. *)
Connect ==
    /\ pc = "connect"
    /\ \/ pc' = "parked" /\ UNCHANGED res
       \/ pc' = "returned" /\ res' = "err"
    /\ UNCHANGED <<woken, reg, r, w, read_state, write_state, buf, us, sock, toOther, toPeer,
                   otherShut, finished>>

PollStart ==
    /\ pc = "parked" /\ woken
    /\ pc' = "read" /\ woken' = FALSE
    /\ UNCHANGED <<reg, r, w, res, read_state, write_state, buf, us, sock, toOther, toPeer,
                   otherShut, finished>>

(* The socket was reset; the error is reported once. *)
Broken == sock.reset \/ sock.dead
Reported == [sock EXCEPT !.reset = FALSE, !.dead = TRUE, !.eof = TRUE]

(* poll_read_us returns. *)
ReadReturns(result, source) ==
    /\ pc' = "write" /\ r' = result /\ reg' = reg \cup source

(* Data is there: from the buffer to the socket, as much as it takes; all  *)
(* of the buffer is consumed.                                              *)
ReadUsAll(n) ==
    /\ toOther' = toOther \o SubSeq(buf, 1, n)
    /\ buf' = << >>

ReadUs(n) ==
    /\ toOther' = toOther \o SubSeq(buf, 1, n)
    /\ buf' = SubSeq(buf, n + 1, Len(buf))

(* An iteration of poll_read_us in state Transferring. *)
PollReadUs ==
    /\ pc = "read" /\ read_state = "Transferring"
    /\ \/ /\ buf = << >> /\ us.rx # << >>
          /\ buf' = Head(us.rx) /\ us' = [us EXCEPT !.rx = Tail(@)]
          /\ UNCHANGED <<pc, r, reg, read_state, toOther>>
       \/ /\ buf = << >> /\ us.rx = << >> /\ ~us.eof
          /\ ReadReturns("pending", {"us"})
          /\ UNCHANGED <<read_state, buf, us, toOther>>
       \/ /\ buf = << >> /\ us.rx = << >> /\ us.eof
          /\ read_state' = "ShuttingDown"
          /\ UNCHANGED <<pc, r, reg, buf, us, toOther>>
       \/ /\ buf # << >> /\ ~Broken
          /\ \E n \in 1..Len(buf) : ReadUs(n)
          /\ UNCHANGED <<pc, r, reg, read_state, us>>
       \/ /\ buf # << >>
          /\ IF Broken THEN ReadReturns("err", {}) ELSE ReadReturns("pending", {"other_w"})
          /\ UNCHANGED <<read_state, buf, us, toOther>>
    /\ sock' = IF r' = "err" THEN Reported ELSE sock
    /\ UNCHANGED <<woken, w, res, write_state, toPeer, otherShut, finished>>

(* A pending shutdown that is not tried again. *)
PollShutdownOnce ==
    /\ pc = "read" /\ read_state \in {"ShuttingDown", "Done"}
    /\ ReadReturns("pending", {"other_w"})
    /\ UNCHANGED <<otherShut, read_state, woken, w, res, write_state, buf, us, sock, toOther,
                   toPeer, finished>>

(* The socket is shut down, in this poll or in a later one. *)
PollShutdown ==
    /\ pc = "read" /\ read_state \in {"ShuttingDown", "Done"}
    /\ \/ ReadReturns("ok", {}) /\ read_state' = "Done" /\ otherShut' = TRUE
       \/ /\ read_state = "ShuttingDown"
          /\ IF Broken THEN ReadReturns("err", {}) ELSE ReadReturns("pending", {"other_w"})
          /\ UNCHANGED <<otherShut, read_state>>
    /\ UNCHANGED <<woken, w, res, write_state, buf, us, sock, toOther, toPeer, finished>>

(* poll_write_us returns. *)
WriteReturns(result, source) ==
    /\ pc' = "end" /\ w' = result /\ reg' = reg \cup source

(* An iteration of poll_write_us in state Transferring: nothing to read,   *)
(* so flush; the end; an error; or a buffer that goes out as one frame.    *)
PollWriteUs ==
    /\ pc = "write" /\ write_state = "Transferring"
    /\ \/ /\ sock.rx = << >> /\ ~sock.eof /\ ~sock.reset
          /\ \/ WriteReturns("pending", {"other_r"})
             \/ WriteReturns("pending", {"other_r", "other_w"})
          /\ UNCHANGED <<write_state, us, sock, toPeer, finished>>
       \/ /\ sock.rx = << >> /\ sock.reset
          /\ WriteReturns("err", {})
          /\ sock' = Reported
          /\ UNCHANGED <<write_state, us, toPeer, finished>>
       \/ /\ sock.rx = << >> /\ sock.eof /\ ~sock.reset
          /\ WriteReturns("ok", {})
          /\ write_state' = "Done"
          /\ finished' = (finished \/ ~us.fin) /\ us' = [us EXCEPT !.fin = TRUE]
          /\ UNCHANGED <<sock, toPeer>>
       \/ /\ sock.rx # << >>
          /\ \/ us.fin /\ WriteReturns("err", {}) /\ UNCHANGED <<us, sock, toPeer>>
             \/ ~us.fin /\ us.credit = 0 /\ pc' = "register" /\ UNCHANGED <<w, reg, us, sock, toPeer>>
             \/ /\ ~us.fin /\ us.credit > 0
                /\ us' = [us EXCEPT !.credit = @ - 1]
                /\ toPeer' = toPeer \o Head(sock.rx) /\ sock' = [sock EXCEPT !.rx = Tail(@)]
                /\ UNCHANGED <<pc, w, reg>>
          /\ UNCHANGED <<write_state, finished>>
    /\ UNCHANGED <<woken, r, res, read_state, buf, toOther, otherShut>>

(* The end of poll_obtain_write_permission when there was no credit: the   *)
(* waker is registered after the load, and nothing is looked at again.     *)
RegisterWriter ==
    /\ pc = "register"
    /\ WriteReturns("pending", {"permit"})
    /\ UNCHANGED <<woken, r, res, read_state, write_state, buf, us, sock, toOther, toPeer,
                   otherShut, finished>>

PollWriteDone ==
    /\ pc = "write" /\ write_state = "Done"
    /\ WriteReturns("ok", {})
    /\ UNCHANGED <<woken, r, res, read_state, write_state, buf, us, sock, toOther, toPeer,
                   otherShut, finished>>

(* Future::poll: ready!(r)?, and only then ready!(w)?. *)
PollEnd ==
    /\ pc = "end"
    /\ IF r = "pending" \/ (r = "ok" /\ w = "pending")
         THEN pc' = "parked" /\ UNCHANGED res
         ELSE pc' = "returned" /\ res' = IF r = "err" THEN r ELSE w
    /\ UNCHANGED <<woken, reg, r, w, read_state, write_state, buf, us, sock, toOther, toPeer,
                   otherShut, finished>>

-----------------------------------------------------------------------------
(* The stream and the socket (external here).  Sources that change wake    *)
(* the task if it has registered with them, and forget its waker.          *)

Wake(sources) ==
    /\ woken' = (woken \/ sources \cap reg # {}) /\ reg' = reg \ sources
    /\ UNCHANGED <<pc, r, w, res, read_state, write_state, buf, toOther, toPeer, otherShut,
                   finished>>

FrameArrives ==
    /\ us.left # << >> /\ ~us.eof
    /\ us' = [us EXCEPT !.left = Tail(@), !.rx = Append(@, Head(us.left))]
    /\ Wake({"us"}) /\ UNCHANGED sock

(* The peer's Finish, or the end of the stream in both directions. *)
StreamEnds ==
    /\ ~us.eof
    /\ \/ us' = [us EXCEPT !.eof = TRUE] /\ Wake({"us"})
       \/ us' = [us EXCEPT !.eof = TRUE, !.fin = TRUE] /\ Wake({"us", "permit"})
    /\ UNCHANGED sock

CreditReturns ==
    /\ us.credit < Credit
    /\ us' = [us EXCEPT !.credit = @ + 1, !.late = (pc = "register")]
    /\ Wake({"permit"}) /\ UNCHANGED sock

DataArrives ==
    /\ sock.left # << >> /\ ~sock.eof /\ ~sock.reset
    /\ sock' = [sock EXCEPT !.left = Tail(@), !.rx = Append(@, Head(sock.left))]
    /\ Wake({"other_r"}) /\ UNCHANGED us

SocketEnds ==
    /\ ~sock.eof /\ ~sock.reset
    /\ sock' \in {[sock EXCEPT !.eof = TRUE], [sock EXCEPT !.reset = TRUE]}
    /\ Wake({"other_r", "other_w"}) /\ UNCHANGED us

SocketWritable ==
    /\ "other_w" \in reg /\ ~woken
    /\ Wake({"other_w"}) /\ UNCHANGED <<us, sock>>

-----------------------------------------------------------------------------

Poll ==
    \/ Connect \/ PollStart \/ PollReadUs \/ PollShutdown \/ PollWriteUs \/ RegisterWriter
    \/ PollWriteDone \/ PollEnd

Next ==
    \/ Poll \/ FrameArrives \/ StreamEnds \/ CreditReturns \/ DataArrives \/ SocketEnds
    \/ SocketWritable

Spec == Init /\ [][Next]_vars

(* A woken task is polled; credits return and the socket takes data in the *)
(* end (a shutdown that is tried for ever succeeds or fails).  Nobody has  *)
(* to send, close or fail.                                                 *)
Fairness ==
    /\ WF_vars(Poll) /\ WF_vars(CreditReturns) /\ WF_vars(SocketWritable)
    /\ SF_vars(PollReadUs /\ toOther' # toOther)
    /\ SF_vars(PollShutdown /\ r' # "pending")

FairSpec == Spec /\ Fairness

-----------------------------------------------------------------------------

Data(chunks) == FlattenSeq(chunks)

(* Each side gets a prefix of what the other has sent, and a copy that     *)
(* returns Ok has moved everything that arrived and has passed both ends   *)
(* of file on (stream.rs:260-265).                                         *)
CopyFaithful ==
    /\ IsPrefix(toOther, Data(UsFrames))
    /\ IsPrefix(toPeer, Data(OtherChunks))
    /\ otherShut => us.rx = << >> /\ buf = << >> /\ us.eof
    /\ res = "ok" => otherShut /\ us.fin /\ sock.rx = << >>

(* The future sleeps although a credit is there: it came after the load    *)
(* and before the registration (stream.rs:215-220).                        *)
MissedCredit ==
    pc = "parked" /\ ~woken /\ "permit" \in reg /\ us.credit > 0 /\ us.late

(* The future sleeps although poll_write_us has failed: the error was      *)
(* dropped because poll_read_us was pending (stream.rs:415).               *)
DroppedError == pc = "parked" /\ ~woken /\ w = "err" /\ r = "pending"

(* An end of file is passed on although the other direction goes on: the   *)
(* socket is shut down after the peer's Finish, and Finish is sent after   *)
(* the socket's end, or else the copy returns an error.  Only two things   *)
(* keep a Finish back, and they do for good: a wake that was missed, and a *)
(* write error that was dropped.                                           *)
HalfClosePassedOn ==
    /\ (us.eof /\ pc # "connect") ~> (otherShut \/ res = "err")
    /\ [](sock.eof /\ pc # "connect" =>
          <>(us.fin \/ res = "err" \/ []MissedCredit \/ []DroppedError))
=============================================================================
