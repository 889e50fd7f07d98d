-------------------------------- MODULE Mux --------------------------------
(***************************************************************************)
(* Two multiplexors over one WebSocket: the flow table, the handshake, the *)
(* streams, bind requests, and the life of the task from `start` to the    *)
(* end of wind_down, at both ends.                                         *)
(*                                                                         *)
(* ep[e] is everything one end owns.  The three branches of `start` are    *)
(* one tokio task and interleave only where they await; what the users do  *)
(* interleaves with them at every step.  A handler that locks the flow     *)
(* table and then queues frames is one step.  wire[e] holds the messages   *)
(* end e has written and its peer has not read; the WebSocket is reliable  *)
(* and ordered until it breaks (external).                                 *)
(***************************************************************************)
EXTENDS Naturals, Sequences, FiniteSets

CONSTANTS
    FlowIds,     \* the flow ids that random_range may return
    Rwnd,        \* [End -> `rwnd`]
    Threshold,   \* [End -> `default_rwnd_threshold`]
    AcceptCap,   \* `stream_buffer_size`
    DatagramCap, \* `datagram_buffer_size`
    Scenarios    \* what the users may do: one is chosen for each behaviour

End == {"A", "B"}
Peer(e) == IF e = "A" THEN "B" ELSE "A"

ASSUME ConstantsAssumption ==
    /\ 0 \notin FlowIds
    /\ Rwnd \in [End -> Nat \ {0}] /\ Threshold \in [End -> Nat \ {0}]
    /\ {AcceptCap, DatagramCap} \subseteq Nat \ {0}
    /\ \A x \in Scenarios :
         /\ x.ids \subseteq FlowIds
         /\ x.retries \in Nat \ {0} /\ {x.bindCap, x.datagrams} \subseteq Nat
         /\ {x.streams, x.binds, x.writes} \subseteq [End -> Nat]
         /\ {x.close, x.drop, x.cancel} \subseteq SUBSET End
         /\ x.break \in BOOLEAN

VARIABLES
    sc,    \* the scenario: ids that may be drawn, `max_flow_id_retries`, `bind_buffer_size`,
           \* bounds on calls, writes and datagrams, who may close, drop, cancel, break
    ep,    \* [End -> the state of a multiplexor, its task and its users]
    wire,  \* [End -> messages written by that end and not yet read]
    link,  \* the connection is up
    used   \* history: [End -> flow ids drawn so far]

vars == <<sc, ep, wire, link, used>>

-----------------------------------------------------------------------------
(* Frames, slots, streams and calls. *)

Connect(id, rwnd) == [op |-> "Connect", id |-> id, v |-> rwnd]
Ack(id, n) == [op |-> "Acknowledge", id |-> id, v |-> n]
Finish(id) == [op |-> "Finish", id |-> id]
Reset(id) == [op |-> "Reset", id |-> id]
Push(id, s, n) == [op |-> "Push", id |-> id, v |-> <<s, n>>]
Bind(id) == [op |-> "Bind", id |-> id]
Datagram(n) == [op |-> "Datagram", id |-> 0, v |-> n]
Close == [op |-> "Close", id |-> 0]

NoSlot == [k |-> "none"]
Requested(c) == [k |-> "requested", call |-> c]
BindRequested(c) == [k |-> "bind", call |-> c]
Established(s) == [k |-> "established", st |-> s, rx |-> TRUE]

NoHold == [k |-> "none"]

(* Multiplexor::new *)
NewEnd ==
    [flows  |-> [id \in FlowIds |-> NoSlot],
     strm   |-> << >>,      \* every MuxStream ever made
     call   |-> << >>,      \* calls of new_stream_channel and request_bind
     tx     |-> << >>,      \* tx_frame channel
     txOpen |-> TRUE,
     drops  |-> << >>,      \* dropped_ports channel, 0 for the Multiplexor
     acc    |-> << >>,      \* con_recv_stream channel
     bnd    |-> << >>,      \* bnd_request channel
     dgm    |-> << >>,      \* datagram channel
     dsent  |-> 0,          \* history: datagrams the user sent ...
     dgot   |-> << >>,      \* ... and got
     held   |-> {},         \* BindRequests in the hands of the user
     granted |-> {},        \* history: bind requests the user accepted
     hold   |-> NoHold,     \* what process_frame is blocked on delivering
     pc     |-> "run",
     drain  |-> FALSE,      \* should_drain_frame_rx
     srcEnd |-> FALSE,      \* the peer's Close was read
     err    |-> FALSE,      \* process_frame returned Err
     cut    |-> FALSE,      \* history: wind_down returned before its last step
     alive  |-> TRUE]       \* the Multiplexor is not dropped

Init ==
    /\ sc \in Scenarios
    /\ ep = [e \in End |-> NewEnd]
    /\ wire = [e \in End |-> << >>]
    /\ link = TRUE
    /\ used = [e \in End |-> {}]

(* tx_frame_tx.send; an error is ignored. *)
Send(p, f) == IF p.txOpen THEN [p EXCEPT !.tx = Append(@, f)] ELSE p

Pending(call) == call.st \in {"send", "wait"}

(* Sending into the oneshot of a call, or dropping its sender. *)
Oneshot(p, c, res) == IF Pending(p.call[c]) THEN [p EXCEPT !.call[c].res = res] ELSE p

(* Drop for MuxStream *)
DropStream(p, s) ==
    [p EXCEPT !.strm[s] = [@ EXCEPT !.own = "gone", !.q = << >>],
              !.drops = IF p.pc = "done" THEN @ ELSE Append(@, p.strm[s].id)]

(* A MuxStream and its slot; credit is psh_send_remaining. *)
AddStream(e, p, id, credit, peer_rwnd, own) ==
    [p EXCEPT !.strm = Append(@,
        [id |-> id, own |-> own, fin |-> FALSE, credit |-> credit, since |-> 0,
         thr |-> IF Threshold[e] <= peer_rwnd THEN Threshold[e] ELSE peer_rwnd,
         q |-> << >>, sent |-> 0, got |-> << >>]),
      !.flows[id] = Established(Len(p.strm) + 1)]

(* A stream that starts with its own window as credit. *)
NewStreamOwnWindow(e, p, id, peer_rwnd, own) == AddStream(e, p, id, Rwnd[e], peer_rwnd, own)

(* new_stream_shared, and the insertion in the flow table. *)
NewStream(e, p, id, peer_rwnd, own) == AddStream(e, p, id, peer_rwnd, peer_rwnd, own)

-----------------------------------------------------------------------------
(* close_port *)

(* EOF the local end and tell the peer, or answer the call. *)
ClosePortLocal(p, slot, id, inhibit_rst) ==
    CASE slot.k = "established" ->
           LET q == [p EXCEPT !.strm[slot.st].fin = TRUE] IN
           IF ~p.strm[slot.st].fin /\ ~inhibit_rst THEN Send(q, Reset(id)) ELSE q
      [] slot.k = "requested" -> Oneshot(p, slot.call, "none")
      [] slot.k = "bind" -> Oneshot(p, slot.call, "no")
      [] slot.k = "none" -> p

(* The port is closed without a word to the peer. *)
ClosePortSilent(p, id, inhibit_rst) ==
    ClosePortLocal([p EXCEPT !.flows[id] = NoSlot], p.flows[id], id, TRUE)

(* Take the port out of the table. *)
ClosePort(p, id, inhibit_rst) ==
    ClosePortLocal([p EXCEPT !.flows[id] = NoSlot], p.flows[id], id, inhibit_rst)

-----------------------------------------------------------------------------
(* process_frame, one operator per kind of frame. *)

(* con_recv_stream_tx.send(stream).await: deliver, block, or fail because  *)
(* the Multiplexor was dropped.                                            *)
OfferStream(p, s) ==
    IF ~p.alive THEN [DropStream(p, s) EXCEPT !.err = TRUE, !.hold = NoHold]
    ELSE IF Len(p.acc) < AcceptCap
      THEN [p EXCEPT !.acc = Append(@, s), !.strm[s].own = "queue", !.hold = NoHold]
      ELSE [p EXCEPT !.hold = [k |-> "stream", v |-> s]]

(* sender.send(request).await; a request that cannot be delivered is       *)
(* dropped and so rejected.                                                *)
OfferBind(p, id) ==
    IF ~p.alive THEN [Send(p, Reset(id)) EXCEPT !.hold = NoHold]
    ELSE IF Len(p.bnd) < sc.bindCap
      THEN [p EXCEPT !.bnd = Append(@, id), !.hold = NoHold]
      ELSE [p EXCEPT !.hold = [k |-> "bind", v |-> id]]

(* A Connect that is never acknowledged. *)
ProcessConnectNoAck(e, p, f) ==
    IF p.flows[f.id] # NoSlot THEN Send(p, Reset(f.id))
    ELSE LET q == NewStream(e, p, f.id, f.v, "hold") IN OfferStream(q, Len(q.strm))

(* con_recv_new_stream *)
ProcessConnect(e, p, f) ==
    IF p.flows[f.id] # NoSlot THEN Send(p, Reset(f.id))
    ELSE LET q == NewStream(e, p, f.id, f.v, "hold")
             s == Len(q.strm)
         IN  IF q.txOpen THEN OfferStream(Send(q, Ack(f.id, Rwnd[e])), s)
                         ELSE [DropStream(q, s) EXCEPT !.err = TRUE]

(* ack_recv_new_stream: establish the slot and hand the stream to the      *)
(* call; without a receiver the stream is dropped and the task ends.       *)
AckRecvNewStream(e, p, f) ==
    LET c == p.flows[f.id].call
        q == NewStream(e, p, f.id, f.v, "oneshot")
        s == Len(q.strm)
    IN  IF Pending(p.call[c])
          THEN [Oneshot(q, c, "stream") EXCEPT !.call[c].s = s]
          ELSE [DropStream(q, s) EXCEPT !.err = TRUE]

ProcessAcknowledge(e, p, f) ==
    LET slot == p.flows[f.id] IN
    CASE slot.k = "established" -> [p EXCEPT !.strm[slot.st].credit = @ + f.v]
      [] slot.k = "requested" -> AckRecvNewStream(e, p, f)
      [] OTHER -> Send(p, Reset(f.id))

(* A Finish that throws away what the reader has not read. *)
ProcessFinishDiscards(p, f) ==
    LET slot == p.flows[f.id] IN
    CASE slot.k = "none" -> Send(p, Reset(f.id))
      [] slot.k = "established" -> [p EXCEPT !.flows[f.id].rx = FALSE, !.strm[slot.st].q = << >>]
      [] OTHER -> p

ProcessFinish(p, f) ==
    LET slot == p.flows[f.id] IN
    CASE slot.k = "none" -> Send(p, Reset(f.id))
      [] slot.k = "bind" -> Oneshot([p EXCEPT !.flows[f.id] = NoSlot], slot.call, "yes")
      [] slot.k = "requested" ->
           Send(Oneshot([p EXCEPT !.flows[f.id] = NoSlot], slot.call, "dropped"), Reset(f.id))
      [] slot.k = "established" -> [p EXCEPT !.flows[f.id].rx = FALSE]

(* FlowSlot::dispatch and the match on its result. *)
ProcessPush(e, p, f) ==
    LET slot == p.flows[f.id] IN
    IF slot.k = "established" /\ slot.rx
      THEN IF p.strm[slot.st].own = "gone" THEN p
           ELSE IF Len(p.strm[slot.st].q) >= Rwnd[e] THEN ClosePort(p, f.id, FALSE)
           ELSE [p EXCEPT !.strm[slot.st].q = Append(@, f.v)]
      ELSE Send(p, Reset(f.id))

ProcessBind(p, f) ==
    IF sc.bindCap = 0 THEN Send(p, Reset(f.id))
    ELSE IF p.pc # "run" THEN p ELSE OfferBind(p, f.id)

(* A full datagram queue taken for a closed one. *)
ProcessDatagramEnds(p, f) ==
    IF p.alive /\ Len(p.dgm) < DatagramCap THEN [p EXCEPT !.dgm = Append(@, f.v)]
    ELSE [p EXCEPT !.err = TRUE]

(* datagram_tx.try_send: a full queue loses the datagram, a closed one     *)
(* ends the task.                                                          *)
ProcessDatagram(p, f) ==
    IF ~p.alive THEN [p EXCEPT !.err = TRUE]
    ELSE IF Len(p.dgm) < DatagramCap THEN [p EXCEPT !.dgm = Append(@, f.v)] ELSE p

-----------------------------------------------------------------------------
(* The task. *)

(* The future of a call blocked in process_ws_next is dropped. *)
CancelHold(p) ==
    CASE p.hold.k = "stream" -> [DropStream(p, p.hold.v) EXCEPT !.hold = NoHold]
      [] p.hold.k = "bind" -> [Send(p, Reset(p.hold.v)) EXCEPT !.hold = NoHold]
      [] p.hold.k = "none" -> p

(* A branch of the select! in `start` returned. *)
Exit(p, drain) == [CancelHold(p) EXCEPT !.pc = "disallow", !.drain = drain, !.err = FALSE]

(* The task returns: what it owned is dropped, and the flow table with it  *)
(* when the Multiplexor is gone already.                                   *)
TaskDone(p) ==
    [p EXCEPT !.pc = "done",
              !.err = FALSE,
              !.flows = IF p.alive THEN @ ELSE [id \in FlowIds |-> NoSlot]]

(* The Err of a handler ends process_ws_next, or makes wind_down return    *)
(* before it reaches the flow table.                                       *)
Handled(p) ==
    IF ~p.err THEN p ELSE IF p.pc = "run" THEN Exit(p, FALSE)
    ELSE [TaskDone(p) EXCEPT !.cut = TRUE]

Reading(p) == p.pc \in {"run", "remaining"} /\ p.hold = NoHold

(* The message that is read next. *)
Incoming(e) == Head(wire[Peer(e)])

(* process_ws_next and the last loop of wind_down read one message; the    *)
(* handler leaves the end as q.                                            *)
Recv(e, op, q) ==
    /\ Reading(ep[e])
    /\ wire[Peer(e)] # << >>
    /\ Incoming(e).op = op
    /\ ep' = [ep EXCEPT ![e] = Handled(q)]
    /\ wire' = [wire EXCEPT ![Peer(e)] = Tail(@)]
    /\ UNCHANGED <<sc, link, used>>

RecvConnect(e) == Recv(e, "Connect", ProcessConnect(e, ep[e], Incoming(e)))
RecvAcknowledge(e) == Recv(e, "Acknowledge", ProcessAcknowledge(e, ep[e], Incoming(e)))
RecvFinish(e) == Recv(e, "Finish", ProcessFinish(ep[e], Incoming(e)))
RecvReset(e) == Recv(e, "Reset", ClosePort(ep[e], Incoming(e).id, TRUE))
RecvPush(e) == Recv(e, "Push", ProcessPush(e, ep[e], Incoming(e)))
RecvBind(e) == Recv(e, "Bind", ProcessBind(ep[e], Incoming(e)))
RecvDatagram(e) == Recv(e, "Datagram", ProcessDatagram(ep[e], Incoming(e)))

(* A Close that does not end process_ws_next. *)
RecvCloseIgnored(e) == Recv(e, "Close", [ep[e] EXCEPT !.srcEnd = TRUE])

RecvClose(e) ==
    LET q == [ep[e] EXCEPT !.srcEnd = TRUE] IN
    Recv(e, "Close", IF q.pc = "run" THEN Exit(q, FALSE) ELSE q)

(* A handler blocked in send().await goes on: there is room, or the        *)
(* receiver was dropped.                                                   *)
Unblock(e) ==
    /\ ep[e].pc = "run"
    /\ \/ ep[e].hold.k = "stream" /\ (Len(ep[e].acc) < AcceptCap \/ ~ep[e].alive)
          /\ ep' = [ep EXCEPT ![e] = Handled(OfferStream(@, @.hold.v))]
       \/ ep[e].hold.k = "bind" /\ (Len(ep[e].bnd) < sc.bindCap \/ ~ep[e].alive)
          /\ ep' = [ep EXCEPT ![e] = OfferBind(@, @.hold.v)]
    /\ UNCHANGED <<sc, wire, link, used>>

(* The source yields None or an error in process_ws_next. *)
SourceBroken(e) ==
    /\ ~link
    /\ ep[e].pc = "run"
    /\ Reading(ep[e])
    /\ wire[Peer(e)] = << >>
    /\ ep' = [ep EXCEPT ![e] = Exit(@, FALSE)]
    /\ UNCHANGED <<sc, wire, link, used>>

(* A dropped stream that is only taken off the queue. *)
DroppedPortsIgnored(e) ==
    /\ ep[e].pc = "run"
    /\ ep[e].drops # << >>
    /\ ep' = [ep EXCEPT ![e].drops = Tail(@)]
    /\ UNCHANGED <<sc, wire, link, used>>

(* process_dropped_ports_task *)
DroppedPorts(e) ==
    /\ ep[e].pc = "run"
    /\ ep[e].drops # << >>
    /\ LET id == Head(ep[e].drops)
           p == [ep[e] EXCEPT !.drops = Tail(@)]
       IN  ep' = [ep EXCEPT ![e] = IF id = 0 THEN Exit(p, TRUE) ELSE ClosePort(p, id, FALSE)]
    /\ UNCHANGED <<sc, wire, link, used>>

(* process_frame_recv_task writes one frame, or fails. *)
FrameRecv(e) ==
    /\ ep[e].pc = "run"
    /\ ep[e].tx # << >>
    /\ IF link
         THEN /\ wire' = [wire EXCEPT ![e] = Append(@, Head(ep[e].tx))]
              /\ ep' = [ep EXCEPT ![e].tx = Tail(@)]
         ELSE /\ ep' = [ep EXCEPT ![e] = Exit(@, FALSE)]
              /\ wire' = wire
    /\ UNCHANGED <<sc, link, used>>

(* finish_sent is set in every stream of the table. *)
Finished(p) ==
    [p EXCEPT !.strm = [s \in 1..Len(@) |->
        IF \E id \in FlowIds : p.flows[id].k = "established" /\ p.flows[id].st = s
          THEN [@[s] EXCEPT !.fin = TRUE] ELSE @[s]]]

(* wind_down: no stream may write any more. *)
WindDownDisallow(e) ==
    /\ ep[e].pc = "disallow"
    /\ ep' = [ep EXCEPT ![e] = [Finished(@) EXCEPT !.pc = "closetx"]]
    /\ UNCHANGED <<sc, wire, link, used>>

(* wind_down: close the queue, send what is left in it if our own user     *)
(* closed, close the sink.  Nobody can add to a closed queue, so the loop  *)
(* is one step.                                                            *)
WindDownClose(e) ==
    /\ ep[e].pc = "closetx"
    /\ wire' = IF link
                 THEN [wire EXCEPT ![e] =
                          @ \o (IF ep[e].drain THEN ep[e].tx ELSE << >>) \o <<Close>>]
                 ELSE wire
    /\ ep' = [ep EXCEPT ![e].pc = "remaining", ![e].txOpen = FALSE, ![e].tx = << >>]
    /\ UNCHANGED <<sc, link, used>>

(* wind_down returns when the source ends, with the table as it is. *)
WindDownNoEof(e) ==
    /\ ep[e].pc = "remaining"
    /\ Reading(ep[e])
    /\ ep[e].srcEnd \/ (~link /\ wire[Peer(e)] = << >>)
    /\ ep' = [ep EXCEPT ![e] = TaskDone(@)]
    /\ UNCHANGED <<sc, wire, link, used>>

(* flows.drain(): close_port_local for every slot. *)
DrainFlows(p) ==
    [Finished(p) EXCEPT
        !.flows = [id \in FlowIds |-> NoSlot],
        !.call = [c \in 1..Len(@) |->
            CASE Pending(@[c]) /\ (\E id \in FlowIds : p.flows[id] = Requested(c)) ->
                   [@[c] EXCEPT !.res = "none"]
              [] Pending(@[c]) /\ (\E id \in FlowIds : p.flows[id] = BindRequested(c)) ->
                   [@[c] EXCEPT !.res = "no"]
              [] OTHER -> @[c]]]

(* wind_down: the source has ended, EOF every stream. *)
WindDownEof(e) ==
    /\ ep[e].pc = "remaining"
    /\ Reading(ep[e])
    /\ ep[e].srcEnd \/ (~link /\ wire[Peer(e)] = << >>)
    /\ ep' = [ep EXCEPT ![e] = TaskDone(DrainFlows(@))]
    /\ UNCHANGED <<sc, wire, link, used>>

(* The connection breaks: a suffix of what is on its way is lost. *)
BreakLink ==
    /\ sc.break
    /\ link
    /\ link' = FALSE
    /\ \E a \in 0..Len(wire["A"]), b \in 0..Len(wire["B"]) :
         wire' = [e \in End |-> SubSeq(wire[e], 1, IF e = "A" THEN a ELSE b)]
    /\ UNCHANGED <<sc, ep, used>>

-----------------------------------------------------------------------------
(* The users. *)

(* next_available_key.  Of 2^32 - 2 random ids one is drawn a second time  *)
(* only by the other end, while the first request for it is unanswered.    *)
CanDraw(e, id) ==
    /\ id \in sc.ids
    /\ ep[e].flows[id] = NoSlot
    /\ id \notin used[e]
    /\ \/ id \notin used[Peer(e)]
       \/ ep[Peer(e)].flows[id].k \in {"requested", "bind"}

Slot(kind, c) == IF kind = "stream" THEN Requested(c) ELSE BindRequested(c)

Calls(e, kind) == Cardinality({c \in 1..Len(ep[e].call) : ep[e].call[c].kind = kind})

(* new_stream_channel and request_bind draw a flow id and enter it in the  *)
(* table ...                                                               *)
StartCall(e, kind) ==
    /\ ep[e].alive
    /\ \E id \in FlowIds :
         /\ CanDraw(e, id)
         /\ ep' = [ep EXCEPT
                ![e].call = Append(@, [kind |-> kind, id |-> id, st |-> "send",
                                       tries |-> sc.retries - 1, res |-> "empty", s |-> 0]),
                ![e].flows[id] = Slot(kind, Len(ep[e].call) + 1)]
         /\ used' = [used EXCEPT ![e] = @ \cup {id}]
    /\ UNCHANGED <<sc, wire, link>>

NewStreamChannel(e) == Calls(e, "stream") < sc.streams[e] /\ StartCall(e, "stream")
RequestBind(e) == Calls(e, "bind") < sc.binds[e] /\ StartCall(e, "bind")

(* ... queue the frame, which fails when the task is winding down ... *)
SendRequest(e, c) ==
    LET call == ep[e].call[c]
        f == IF call.kind = "stream" THEN Connect(call.id, Rwnd[e]) ELSE Bind(call.id)
    IN  /\ call.st = "send"
        /\ ep' = [ep EXCEPT ![e] =
                    [Send(@, f) EXCEPT !.call[c].st = IF ep[e].txOpen THEN "wait" ELSE "closed"]]
        /\ UNCHANGED <<sc, wire, link, used>>

(* ... and return what arrives in the oneshot, or try another flow id. *)
ResumeCall(e, c) ==
    LET call == ep[e].call[c] IN
    /\ call.st = "wait"
    /\ call.res # "empty"
    /\ \/ /\ call.res = "stream"
          /\ ep' = [ep EXCEPT ![e].call[c].st = "ok", ![e].strm[call.s].own = "user"]
          /\ UNCHANGED used
       \/ /\ call.res = "none" /\ call.tries > 0
          /\ \E id \in FlowIds :
               /\ CanDraw(e, id)
               /\ ep' = [ep EXCEPT ![e].flows[id] = Requested(c),
                                   ![e].call[c] = [call EXCEPT !.st = "send", !.id = id,
                                        !.tries = call.tries - 1, !.res = "empty"]]
               /\ used' = [used EXCEPT ![e] = @ \cup {id}]
       \/ /\ call.res \in {"dropped", "yes", "no"} \/ (call.res = "none" /\ call.tries = 0)
          /\ ep' = [ep EXCEPT ![e].call[c].st =
                      CASE call.res = "none" -> "rejected"
                        [] call.res = "dropped" -> "closed"
                        [] call.res = "yes" -> "ok"
                        [] call.res = "no" -> "refused"]
          /\ UNCHANGED used
    /\ UNCHANGED <<sc, wire, link>>

(* The future of a call is dropped while it waits. *)
CancelCall(e, c) ==
    LET call == ep[e].call[c]
        p == [ep[e] EXCEPT !.call[c].st = "cancelled"]
    IN  /\ e \in sc.cancel
        /\ call.st = "wait"
        /\ ep' = [ep EXCEPT ![e] = IF call.res = "stream" THEN DropStream(p, call.s) ELSE p]
        /\ UNCHANGED <<sc, wire, link, used>>

(* accept_stream_channel *)
AcceptStream(e) ==
    /\ ep[e].alive
    /\ ep[e].acc # << >>
    /\ ep' = [ep EXCEPT ![e].acc = Tail(@), ![e].strm[Head(ep[e].acc)].own = "user"]
    /\ UNCHANGED <<sc, wire, link, used>>

(* send_datagram, for a host that is not too long *)
SendDatagram(e) ==
    /\ ep[e].alive
    /\ ep[e].txOpen
    /\ ep[e].dsent < sc.datagrams
    /\ ep' = [ep EXCEPT ![e] = [Send(@, Datagram(ep[e].dsent + 1)) EXCEPT !.dsent = ep[e].dsent + 1]]
    /\ UNCHANGED <<sc, wire, link, used>>

(* get_datagram *)
GetDatagram(e) ==
    /\ ep[e].alive
    /\ ep[e].dgm # << >>
    /\ ep' = [ep EXCEPT ![e].dgm = Tail(@), ![e].dgot = Append(@, Head(ep[e].dgm))]
    /\ UNCHANGED <<sc, wire, link, used>>

(* A write without a look at the credit. *)
WriteUnchecked(e, s) ==
    LET st == ep[e].strm[s] IN
    /\ st.own = "user" /\ ~st.fin /\ st.sent < sc.writes[e]
    /\ ep' = [ep EXCEPT ![e] =
                [Send(@, Push(st.id, s, st.sent + 1)) EXCEPT
                    !.strm[s].credit = @ - 1, !.strm[s].sent = @ + 1]]
    /\ UNCHANGED <<sc, wire, link, used>>

(* poll_write *)
Write(e, s) ==
    LET st == ep[e].strm[s] IN
    /\ st.own = "user"
    /\ ~st.fin
    /\ st.credit > 0
    /\ st.sent < sc.writes[e]
    /\ ep' = [ep EXCEPT ![e] =
                [Send(@, Push(st.id, s, st.sent + 1)) EXCEPT
                    !.strm[s] = [st EXCEPT !.credit = st.credit - 1,
                                           !.sent = IF ep[e].txOpen THEN st.sent + 1 ELSE st.sent]]]
    /\ UNCHANGED <<sc, wire, link, used>>

(* A read that leaves the frame in the channel. *)
ReadNoPop(e, s) ==
    LET st == ep[e].strm[s] IN
    /\ st.own = "user" /\ st.q # << >> /\ Len(st.got) < sc.writes[Peer(e)] + 1
    /\ ep' = [ep EXCEPT ![e].strm[s].got = Append(@, Head(st.q))]
    /\ UNCHANGED <<sc, wire, link, used>>

(* poll_fill_buf and increment_psh_recvd_since *)
Read(e, s) ==
    LET st == ep[e].strm[s]
        due == st.since + 1 >= st.thr
        p == [ep[e] EXCEPT !.strm[s] = [st EXCEPT !.q = Tail(st.q),
                                                  !.got = Append(st.got, Head(st.q)),
                                                  !.since = IF due THEN 0 ELSE st.since + 1]]
    IN  /\ st.own = "user"
        /\ st.q # << >>
        /\ ep' = [ep EXCEPT ![e] = IF due THEN Send(p, Ack(st.id, st.since + 1)) ELSE p]
        /\ UNCHANGED <<sc, wire, link, used>>

(* poll_shutdown *)
Shutdown(e, s) ==
    LET st == ep[e].strm[s] IN
    /\ e \in sc.close
    /\ st.own = "user"
    /\ ~st.fin
    /\ ep' = [ep EXCEPT ![e] = Send([@ EXCEPT !.strm[s].fin = TRUE], Finish(st.id))]
    /\ UNCHANGED <<sc, wire, link, used>>

Drop(e, s) ==
    /\ e \in sc.close
    /\ ep[e].strm[s].own = "user"
    /\ ep' = [ep EXCEPT ![e] = DropStream(@, s)]
    /\ UNCHANGED <<sc, wire, link, used>>

(* next_bind_request *)
NextBindRequest(e) ==
    /\ ep[e].alive
    /\ ep[e].bnd # << >>
    /\ ep' = [ep EXCEPT ![e].bnd = Tail(@),
                        ![e].held = @ \cup {[id |-> Head(ep[e].bnd), reply |-> "no"]}]
    /\ UNCHANGED <<sc, wire, link, used>>

(* A request that is dropped before it is accepted. *)
AcceptBindLate(e, r) ==
    /\ r.reply = "no"
    /\ ep' = [ep EXCEPT ![e] =
                Send(Send([@ EXCEPT !.held = @ \ {r}, !.granted = @ \cup {r.id}],
                          Reset(r.id)), Finish(r.id))]
    /\ UNCHANGED <<sc, wire, link, used>>

(* BindRequest::reply(true); rejecting is what the drop does. *)
AcceptBind(e, r) ==
    /\ r.reply = "no"
    /\ ep' = [ep EXCEPT ![e] =
                Send([@ EXCEPT !.held = (ep[e].held \ {r}) \cup {[r EXCEPT !.reply = "yes"]},
                               !.granted = ep[e].granted \cup {r.id}],
                     Finish(r.id))]
    /\ UNCHANGED <<sc, wire, link, used>>

(* Drop for BindRequest replies `Reset`, answered or not. *)
DropBind(e, r) ==
    /\ ep' = [ep EXCEPT ![e] = Send([@ EXCEPT !.held = ep[e].held \ {r}], Reset(r.id))]
    /\ UNCHANGED <<sc, wire, link, used>>

(* Drop for Multiplexor, then its fields: 0 is queued before the streams   *)
(* of the accept queue are dropped; queued bind requests are rejected.     *)
(* Calls borrow the Multiplexor, so none is pending.                       *)
DropMux(e) ==
    LET p == ep[e]
        queued == {p.acc[i] : i \in 1..Len(p.acc)}
        q == [p EXCEPT
                !.alive = FALSE,
                !.drops = IF p.pc = "done" THEN @
                          ELSE @ \o <<0>> \o [i \in 1..Len(p.acc) |-> p.strm[p.acc[i]].id],
                !.strm = [s \in 1..Len(@) |->
                            IF s \in queued THEN [@[s] EXCEPT !.own = "gone", !.q = << >>] ELSE @[s]],
                !.tx = IF p.txOpen THEN @ \o [i \in 1..Len(p.bnd) |-> Reset(p.bnd[i])] ELSE @,
                !.acc = << >>, !.bnd = << >>, !.dgm = << >>]
    IN  /\ e \in sc.drop
        /\ p.alive
        /\ \A c \in 1..Len(p.call) : ~Pending(p.call[c])
        /\ ep' = [ep EXCEPT ![e] = IF p.pc = "done" THEN TaskDone(q) ELSE q]
        /\ UNCHANGED <<sc, wire, link, used>>

-----------------------------------------------------------------------------

Task(e) ==
    \/ RecvConnect(e) \/ RecvAcknowledge(e) \/ RecvFinish(e) \/ RecvReset(e)
    \/ RecvPush(e) \/ RecvBind(e) \/ RecvDatagram(e) \/ RecvClose(e)
    \/ Unblock(e) \/ SourceBroken(e)
    \/ WindDownDisallow(e) \/ WindDownClose(e) \/ WindDownEof(e)

Call(e) == \E c \in 1..Len(ep[e].call) : SendRequest(e, c) \/ ResumeCall(e, c)

Accept(e) == AcceptStream(e) \/ NextBindRequest(e) \/ GetDatagram(e)

Reject(e) == \E r \in ep[e].held : DropBind(e, r)

Reads(e) == \E s \in 1..Len(ep[e].strm) : Read(e, s)

User(e) ==
    \/ NewStreamChannel(e)
    \/ RequestBind(e)
    \/ SendDatagram(e)
    \/ \E c \in 1..Len(ep[e].call) : CancelCall(e, c)
    \/ \E s \in 1..Len(ep[e].strm) : Write(e, s) \/ Shutdown(e, s) \/ Drop(e, s)
    \/ \E r \in ep[e].held : AcceptBind(e, r)
    \/ DropMux(e)

Next ==
    \/ \E e \in End : Task(e) \/ DroppedPorts(e) \/ FrameRecv(e) \/ Call(e) \/ Accept(e)
                     \/ Reject(e) \/ Reads(e) \/ User(e)
    \/ BreakLink

Spec == Init /\ [][Next]_vars

(* The branches of `start` are polled fairly (select! picks at random), a  *)
(* call whose oneshot is ready is polled, and the applications accept and  *)
(* read what arrives and drop bind requests in the end.  Nobody has to     *)
(* open, write, shut down, drop or fail.                                   *)
Fairness ==
    \A e \in End : /\ WF_vars(Task(e))
                   /\ WF_vars(DroppedPorts(e))
                   /\ WF_vars(FrameRecv(e))
                   /\ WF_vars(Call(e))
                   /\ WF_vars(Accept(e))
                   /\ WF_vars(Reject(e))
                   /\ WF_vars(Reads(e))

FairSpec == Spec /\ Fairness

-----------------------------------------------------------------------------

Slots ==
    {NoSlot} \cup [k : {"requested", "bind"}, call : Nat]
             \cup [k : {"established"}, st : Nat, rx : BOOLEAN]

(* Every field of both ends stays in its type; err is set only inside a    *)
(* handler.                                                                *)
TypeOK ==
    /\ \A e \in End :
         LET p == ep[e] IN
         /\ \A id \in FlowIds : p.flows[id] \in Slots
         /\ \A s \in 1..Len(p.strm) :
              /\ p.strm[s].own \in {"oneshot", "hold", "queue", "user", "gone"}
              /\ {p.strm[s].credit, p.strm[s].since, p.strm[s].sent} \subseteq Nat
         /\ \A c \in 1..Len(p.call) :
              /\ p.call[c].st \in {"send", "wait", "ok", "refused", "rejected", "closed", "cancelled"}
              /\ p.call[c].res \in {"empty", "stream", "none", "dropped", "yes", "no"}
         /\ p.drops \in Seq(FlowIds \cup {0})
         /\ Len(p.acc) <= AcceptCap /\ Len(p.bnd) <= sc.bindCap
         /\ Len(p.dgm) <= DatagramCap
         /\ p.pc \in {"run", "disallow", "closetx", "remaining", "done"}
         /\ p.err = FALSE
    /\ link \in BOOLEAN

(* What end e has sent and its peer has not processed. *)
InTransit(e) == wire[e] \o ep[e].tx

PushesFor(e, id) ==
    Cardinality({i \in 1..Len(InTransit(e)) :
                    InTransit(e)[i].op = "Push" /\ InTransit(e)[i].id = id})

(* Stream s of end e is the one its flow table dispatches to. *)
Current(e, s) ==
    LET slot == ep[e].flows[ep[e].strm[s].id] IN slot.k = "established" /\ slot.st = s

(* What the reader of stream s was given or will find in its channel. *)
Delivered(e, s) == ep[e].strm[s].got \o ep[e].strm[s].q

(* The peer's stream with the same flow id. *)
Partners(e, s) == {w \in 1..Len(ep[Peer(e)].strm) : ep[Peer(e)].strm[w].id = ep[e].strm[s].id}

(* Neither end ever has more `Push` frames under way or buffered than the  *)
(* reader's `rwnd` (PROTOCOL.md:160), whatever the two windows are, so the *)
(* `Full` branch of process_frame is dead between conforming ends.         *)
WindowRespected ==
    \A e \in End : \A s \in 1..Len(ep[e].strm) :
        Current(e, s) => Len(ep[e].strm[s].q) + PushesFor(Peer(e), ep[e].strm[s].id) <= Rwnd[e]

(* A reader gets the writes of one peer stream, in order, without gap or   *)
(* repetition, through accept, retries, half-closes and resets.            *)
InOrder ==
    \A e \in End : \A s \in 1..Len(ep[e].strm) :
        \A i \in 1..Len(Delivered(e, s)) :
            /\ Delivered(e, s)[i] = <<Delivered(e, s)[1][1], i>>
            /\ Delivered(e, s)[i][1] \in Partners(e, s)

(* While a stream is in the reader's table every write of its partner is   *)
(* under way or delivered, and after `Finish` all of them are delivered;   *)
(* this outlives the writer's Multiplexor because wind_down drains the     *)
(* queue (task.rs:147-149).                                                *)
NoDataLost ==
    \A e \in End : \A s \in 1..Len(ep[e].strm) : \A w \in Partners(e, s) :
        LET rx == ep[e].flows[ep[e].strm[s].id].rx
            q == ep[Peer(e)]
            all == q.strm[w].sent
        IN  Current(e, s) /\ ep[e].strm[s].own # "gone" =>
              /\ rx /\ link /\ (q.txOpen \/ q.drain) =>
                   Len(Delivered(e, s)) + PushesFor(Peer(e), ep[e].strm[s].id) = all
              /\ ~rx => Len(Delivered(e, s)) = all

(* Nothing is queued, on the wire or half done at either end. *)
Quiet ==
    link /\ \A e \in End :
        /\ InTransit(e) = << >>
        /\ ep[e].pc = "run" /\ ep[e].drops = << >> /\ ep[e].hold = NoHold
        /\ \A c \in 1..Len(ep[e].call) : ep[e].call[c].st # "send"

(* When nothing is under way the two flow tables agree: no request is      *)
(* unanswered unless the peer's user still holds it, and a stream that can *)
(* still read has a partner in the peer's table; nobody waits for data on  *)
(* a stream the other end has forgotten.                                   *)
QuietAgreement ==
    Quiet => \A e \in End : \A id \in FlowIds :
        LET mine == ep[e].flows[id]
            theirs == ep[Peer(e)].flows[id]
            q == ep[Peer(e)]
        IN  /\ mine.k # "requested"
            /\ mine.k = "bind" =>
                 \/ \E i \in 1..Len(q.bnd) : q.bnd[i] = id
                 \/ \E r \in q.held : r.id = id /\ r.reply = "no"
            /\ mine.k = "established" /\ mine.rx => theirs.k = "established"

(* request_bind says yes only if the peer's user accepted, and no only if  *)
(* it did not, although a BindRequest sends a `Reset` after its `Finish`   *)
(* when it is dropped.                                                     *)
BindTruth ==
    \A e \in End : \A c \in 1..Len(ep[e].call) :
        LET call == ep[e].call[c] IN
        call.kind = "bind" =>
            /\ call.st = "ok" => call.id \in ep[Peer(e)].granted
            /\ call.st = "refused" /\ ep[e].pc = "run" => call.id \notin ep[Peer(e)].granted

(* A task stops only for a reason: the connection broke, a Multiplexor was *)
(* dropped, or a call was cancelled.  No order of frames of two conforming *)
(* ends, no full queue and no lost datagram (task.rs:481-483, "we just     *)
(* drop the frame") does it.  (Frames here decode; FrameCodec has the      *)
(* Datagram that does not.)                                                *)
EndsForCause ==
    \/ ~link
    \/ \E e \in End : \/ ~ep[e].alive
                     \/ \E c \in 1..Len(ep[e].call) : ep[e].call[c].st = "cancelled"
    \/ \A e \in End : ep[e].pc = "run"

(* Once the task has ended no stream is left without EOF and no call       *)
(* without an answer (task.rs:292, "Finally, we send EOF to all            *)
(* established streams"; lib.rs:221-222), unless a message failed in the   *)
(* last loop of wind_down, whose `?` skips that step (task.rs:290).        *)
NoneLeftBehind ==
    \A e \in End : ep[e].pc = "done" /\ ~ep[e].cut =>
        \A id \in FlowIds :
            LET slot == ep[e].flows[id] IN
            /\ slot.k # "established"
            /\ slot.k \in {"requested", "bind"} => ep[e].call[slot.call].st # "wait"

(* The call waits for ever: its slot is in the table of a task that ended  *)
(* without emptying it, and the table lives as long as the Multiplexor.    *)
Abandoned(e, c) ==
    LET call == ep[e].call[c] IN
    ep[e].cut /\ call.st = "wait" /\ ep[e].flows[call.id] = Slot(call.kind, c)

(* Every call of new_stream_channel and request_bind returns, but for one  *)
(* that is abandoned as above.  (Their number is bounded, so all of them   *)
(* have returned in the end.)                                              *)
CallsReturn ==
    LET waiting == \E e \in End : \E c \in 1..Len(ep[e].call) :
                       Pending(ep[e].call[c]) /\ ~Abandoned(e, c)
    IN  waiting ~> ~waiting

(* When one Multiplexor is dropped or the connection breaks, the tasks of  *)
(* both ends end: no wind_down waits for ever for the peer's `Close`.      *)
BothEnd ==
    (~link \/ \E e \in End : ~ep[e].alive) ~> (\A d \in End : ep[d].pc = "done")

(* A dropped stream leaves the flow table: its id is freed (stream.rs:66). *)
(* Only the table of a task whose wind_down was cut short keeps it.        *)
DroppedIsFreed ==
    LET leaked == \E e \in End : \E s \in 1..Len(ep[e].strm) :
                      ep[e].strm[s].own = "gone" /\ Current(e, s) /\ ~ep[e].cut
    IN  leaked ~> ~leaked

(* lib.rs:194-198: a cancelled call costs at most its own channel;         *)
(* "Subsequent calls to this function will result in a new channel".       *)
CancelIsLocal ==
    \A e \in End : link /\ (\A d \in End : ep[d].alive) => ep[e].pc = "run"

=============================================================================
