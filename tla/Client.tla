------------------------------- MODULE Client -------------------------------
(***************************************************************************)
(* The client: the handlers of the remotes, which ask for streams, and the *)
(* main loop, which connects, serves the requests and connects again.      *)
(*                                                                         *)
(* The handlers are tasks of their own and share with the main loop only   *)
(* the bounded stream_command channel and a oneshot per request.  A SOCKS  *)
(* handler is a set of slots, one per connection it serves.  The           *)
(* multiplexor is abstract: a request is answered, refused or times out,   *)
(* and the mux task ends at any time, with Ok when the peer closed.        *)
(***************************************************************************)
EXTENDS Naturals, Sequences, FiniteSets, MaybeRetryable

CONSTANTS
    Jobs,        \* the handlers (or SOCKS connections)
    Remotes,     \* values of args.remote: [Jobs -> [local, remote, protocol]]
    Capacity,    \* STREAM_REQUEST_COMMAND_SIZE
    Initial,     \* first interval of the Backoff, 200 ms
    MaxInterval, \* args.max_retry_interval
    Mult,        \* 2
    MaxCounts,   \* values of args.max_retry_count
    CountMod     \* the retry counter wraps here (2^32 in the code)

None == "none"
NoMux == << >>
Up == <<"up">>
Joined == <<"joined">>

(* Of the remotes only those that ask for streams: Udp has the others. *)
ASSUME ClientAssumption ==
    /\ {Capacity, Initial, Mult, CountMod} \subseteq Nat \ {0} /\ MaxInterval \in Nat
    /\ MaxCounts \subseteq Nat /\ \A n \in MaxCounts : n < CountMod
    /\ None \notin Jobs
    /\ Remotes \subseteq [Jobs -> [local : {"inet", "stdio"}, remote : {"inet", "socks"}, protocol : {"tcp"}]]

Power[n \in Nat] == IF n = 0 THEN 1 ELSE Mult * Power[n - 1]

(* The interval is at its maximum long before the counter wraps: 200 ms    *)
(* times 2^(2^32 - 1) is more than a Duration can be.                      *)
ASSUME SaturationAssumption == Initial * Power[CountMod - 1] >= MaxInterval

VARIABLES
    job,       \* [Jobs -> where the handler is]
    backlog,   \* [Jobs -> a local connection waits to be accepted]
    told,      \* [Jobs -> the last answer the SOCKS connection got]
    relay,     \* [Jobs -> a udp_relay task of the slot is running]
    queue,     \* stream_command channel: the handlers that asked
    pc,        \* where main_future is
    cur,       \* the request get_send_stream_chan works on
    parked,    \* failed_stream_request
    mux,       \* NoMux, Up, Joined, or the result of the mux task
    backoff,   \* the Backoff, and the interval it returned last
    retries,   \* history: intervals slept since the start or the last connection
    result,    \* what client_main_inner returned
    remote,    \* args.remote
    max_count  \* args.max_retry_count

jobVars == <<job, backlog, told, relay>>
mainVars == <<pc, cur, parked, mux, backoff, retries, result>>
args == <<remote, max_count>>
vars == <<jobVars, queue, mainVars, args>>

-----------------------------------------------------------------------------
(* timing::Backoff *)

BackoffNew == [current |-> Initial, count |-> 0, slept |-> 0]

AtMost(a, b) == IF a <= b THEN a ELSE b

Exhausted(b) == max_count # 0 /\ b.count >= max_count

(* Clamping after the multiplication only. *)
AdvanceUnclamped(b) ==
    [current |-> AtMost(b.current * Mult, MaxInterval * Mult), count |-> (b.count + 1) % CountMod,
     slept |-> b.current]

Advance(b) ==
    LET old == AtMost(b.current, MaxInterval) IN
    [current |-> old * Mult, count |-> (b.count + 1) % CountMod, slept |-> old]

-----------------------------------------------------------------------------

(* handle_remote *)
handle_remote(r) ==
    CASE r.local = "inet" /\ r.remote = "inet" -> IF r.protocol = "tcp" THEN "tcp" ELSE "udp"
      [] r.local = "stdio" /\ r.remote = "inet" ->
           IF r.protocol = "tcp" THEN "tcp_stdio" ELSE "udp_stdio"
      [] r.local = "inet" /\ r.remote = "socks" -> "socks"
      [] r.local = "stdio" /\ r.remote = "socks" -> "socks_stdio"

Kind(j) == handle_remote(remote[j])
Socks(j) == Kind(j) \in {"socks", "socks_stdio"}

Init ==
    /\ remote \in Remotes /\ max_count \in MaxCounts
    /\ job = [j \in Jobs |-> IF Socks(j) THEN "idle" ELSE "reserve"]
    /\ backlog = [j \in Jobs |-> Kind(j) = "socks_stdio"]
    /\ told = [j \in Jobs |-> None]
    /\ relay = [j \in Jobs |-> FALSE]
    /\ queue = << >>
    /\ pc = "handshake"
    /\ cur = None /\ parked = None /\ mux = NoMux
    /\ backoff = BackoffNew /\ retries = 0
    /\ result = None

(* A place that is given back only after the copy. *)
FreeAfterCopy == Capacity - Len(queue) - Cardinality({j \in Jobs : job[j] \in {"permit", "copy"}})

(* What the channel still takes: a permit is a place in it. *)
Free == Capacity - Len(queue) - Cardinality({j \in Jobs : job[j] = "permit"})

Running == pc # "exited"

Goto(j, st) == job' = [job EXCEPT ![j] = st]

-----------------------------------------------------------------------------
(* The handlers. *)

(* handle_tcp: reserve() before accept() ... *)
Reserve(j) ==
    /\ Running
    /\ Kind(j) = "tcp" /\ job[j] = "reserve"
    /\ Free > 0
    /\ Goto(j, "permit")
    /\ UNCHANGED <<backlog, told, relay, queue, mainVars, args>>

(* ... and request_tcp_channel for what was accepted. *)
AcceptTcp(j) ==
    /\ Running
    /\ job[j] = "permit" /\ backlog[j]
    /\ backlog' = [backlog EXCEPT ![j] = FALSE]
    /\ Goto(j, "wait")
    /\ queue' = Append(queue, j)
    /\ UNCHANGED <<told, relay, mainVars, args>>

(* handle_tcp_stdio, socks4 and socks5: reserve() and send in one go. *)
Request(j) ==
    /\ Running
    /\ Kind(j) # "tcp" /\ job[j] = "reserve"
    /\ Free > 0
    /\ Goto(j, "wait")
    /\ queue' = Append(queue, j)
    /\ UNCHANGED <<backlog, told, relay, mainVars, args>>

(* A local application connects to the listener (external). *)
Arrive(j) ==
    /\ Running
    /\ Kind(j) \in {"tcp", "socks"} /\ ~backlog[j]
    /\ backlog' = [backlog EXCEPT ![j] = TRUE]
    /\ UNCHANGED <<job, told, relay, queue, mainVars, args>>

(* accept() fails, which is fatal for the handler. *)
AcceptFails(j) ==
    /\ Running
    /\ <<Kind(j), job[j]>> \in {<<"tcp", "permit">>, <<"socks", "idle">>}
    /\ Goto(j, "failed")
    /\ UNCHANGED <<backlog, told, relay, queue, mainVars, args>>

(* A SOCKS connection is over: the slot is free, or handle_socks_stdio     *)
(* returns Ok.                                                             *)
SocksOver(j) == IF Kind(j) = "socks" THEN "idle" ELSE "done"

(* What a SOCKS client may ask; hangup is an error on its connection.      *)
SocksRequests == [version : {4, 5, 6}, noauth : BOOLEAN, command : {1, 2, 3}, hangup : BOOLEAN]

(* on_socks_accept, socks4 and socks5 up to the command: the answer they   *)
(* write and where they go.                                                *)
SocksOutcome(q, over) ==
    CASE q.hangup \/ q.version \notin {4, 5} -> <<None, over>>
      [] q.version = 5 /\ ~q.noauth -> <<"refused", over>>       \* 0xff
      [] q.version = 4 /\ q.command # 1 -> <<"refused", over>>   \* 0x5b
      [] q.version = 5 /\ q.command = 2 -> <<"refused", over>>   \* 0x07
      [] q.version = 5 /\ q.command = 3 /\ q.noauth -> <<None, "associate">>
      [] q.command = 1 /\ (q.version = 4 \/ q.noauth) -> <<None, "reserve">>

SocksAccept(j) ==
    /\ Running
    /\ Socks(j) /\ job[j] = "idle" /\ backlog[j] /\ ~relay[j]
    /\ \E o \in {SocksOutcome(q, SocksOver(j)) : q \in SocksRequests} :
         /\ told' = [told EXCEPT ![j] = o[1]]
         /\ Goto(j, o[2])
    /\ backlog' = [backlog EXCEPT ![j] = FALSE]
    /\ UNCHANGED <<relay, queue, mainVars, args>>

(* A success that is told before the channel is there. *)
HandleConnectEarly(j) ==
    /\ Running
    /\ Socks(j) /\ job[j] \in {"wait", "reply"} /\ told[j] = None
    /\ told' = [told EXCEPT ![j] = "granted"]
    /\ IF job[j] = "reply" THEN Goto(j, "copy") ELSE UNCHANGED job
    /\ UNCHANGED <<backlog, relay, queue, mainVars, args>>

(* handle_connect, once it has the channel: tell the client, then copy. *)
HandleConnect(j) ==
    /\ Running
    /\ job[j] = "reply"
    /\ \/ told' = [told EXCEPT ![j] = "granted"] /\ Goto(j, "copy")
       \/ Goto(j, SocksOver(j)) /\ UNCHANGED told
    /\ UNCHANGED <<backlog, relay, queue, mainVars, args>>

(* handle_associate: bind a socket, spawn the relay, tell the client.  An  *)
(* error of the last leaves the relay running.                             *)
HandleAssociate(j) ==
    /\ Running
    /\ job[j] = "associate"
    /\ \/ /\ \E t \in {"refused", None} : told' = [told EXCEPT ![j] = t]
          /\ Goto(j, SocksOver(j)) /\ UNCHANGED relay
       \/ /\ relay' = [relay EXCEPT ![j] = TRUE]
          /\ \/ told' = [told EXCEPT ![j] = "granted"] /\ Goto(j, "relaying")
             \/ Goto(j, SocksOver(j)) /\ UNCHANGED told
    /\ UNCHANGED <<backlog, queue, mainVars, args>>

(* The client closes the control connection: relay_task.abort(). *)
RelayAborted(j) ==
    /\ Running
    /\ job[j] = "relaying"
    /\ relay' = [relay EXCEPT ![j] = FALSE]
    /\ Goto(j, SocksOver(j))
    /\ UNCHANGED <<backlog, told, queue, mainVars, args>>

(* The copy ends: handle_tcp_stdio returns, asks again or fails.  (Where   *)
(* handle_tcp spawns the copy nobody waits for it.)                        *)
CopyEnds(j) ==
    /\ Running
    /\ job[j] = "copy"
    /\ \/ Socks(j) /\ Goto(j, SocksOver(j))
       \/ ~Socks(j) /\ \E r \in {<<"Ok">>, <<"ConnectionReset">>, <<"PermissionDenied">>} :
            Goto(j, IF r = <<"Ok">> THEN "done" ELSE IF IoRetryable(r[1]) THEN "reserve" ELSE "failed")
    /\ UNCHANGED <<backlog, told, relay, queue, mainVars, args>>

-----------------------------------------------------------------------------
(* The main loop. *)

(* client_main_inner returns. *)
Exit(r) ==
    /\ pc' = "exited" /\ result' = Head(r)
    /\ UNCHANGED <<backoff, retries>>

(* The match on the result of handshake and on_connected. *)
Failed(e, b, n) ==
    IF ~retryable(e) THEN Exit(e)
    ELSE IF Exhausted(b) THEN Exit(<<"MaxRetryCountReached">>)
    ELSE /\ pc' = "backoff"
         /\ backoff' = Advance(b)
         /\ retries' = AtMost(n + 1, CountMod)
         /\ UNCHANGED result

(* An error of on_connected: the Multiplexor and its task are dropped, and *)
(* inspect_err resets the backoff.                                         *)
ConnectionFailed(e) == mux' = NoMux /\ Failed(e, BackoffNew, 0)

HandshakeErrors ==
    {<<"Tls">>, <<"HandshakeTimeout">>, <<"Tungstenite", "Http">>,
     <<"Tungstenite", "Io", "ConnectionRefused">>, <<"Tungstenite", "Io", "PermissionDenied">>,
     <<"Tungstenite", "Protocol", "HandshakeIncomplete">>}

(* ws_connect::handshake succeeds; on_connected takes up a parked request. *)
HandshakeOk ==
    /\ pc = "handshake"
    /\ mux' = Up
    /\ cur' = parked /\ parked' = None
    /\ pc' = IF parked = None THEN "loop" ELSE "request"
    /\ UNCHANGED <<jobVars, queue, backoff, retries, result, args>>

HandshakeFails ==
    /\ pc = "handshake"
    /\ \E e \in HandshakeErrors : Failed(e, backoff, retries)
    /\ UNCHANGED <<jobVars, queue, cur, parked, mux, args>>

(* The interval between two attempts is over. *)
BackoffOver ==
    /\ pc = "backoff"
    /\ pc' = "handshake"
    /\ UNCHANGED <<jobVars, queue, cur, parked, mux, backoff, retries, result, args>>

(* stream_command_rx.recv() *)
TakeRequest ==
    /\ pc = "loop"
    /\ queue # << >>
    /\ cur' = Head(queue) /\ queue' = Tail(queue)
    /\ pc' = "request"
    /\ UNCHANGED <<jobVars, parked, mux, backoff, retries, result, args>>

(* get_send_stream_chan: the stream goes to the handler ... *)
RequestOk ==
    /\ pc = "request" /\ mux = Up
    /\ Goto(cur, CASE Kind(cur) = "tcp" -> "reserve"
                   [] Kind(cur) = "tcp_stdio" -> "copy"
                   [] Socks(cur) -> "reply")
    /\ cur' = None /\ pc' = "loop"
    /\ UNCHANGED <<backlog, told, relay, queue, parked, mux, backoff, retries, result, args>>

(* A request that times out is not kept. *)
RequestFailsForgets ==
    /\ pc = "request"
    /\ \E e \in IF mux = Up THEN {<<"StreamRequestTimeout">>, <<"Mux", "FlowIdRejected">>}
                ELSE {<<"Mux", "Closed">>} :
         /\ parked' = IF e = <<"StreamRequestTimeout">> THEN None ELSE cur
         /\ cur' = None
         /\ ConnectionFailed(e)
    /\ UNCHANGED <<jobVars, queue, args>>

(* ... or the request is parked, and on_connected fails. *)
RequestFails ==
    /\ pc = "request"
    /\ \E e \in IF mux = Up THEN {<<"StreamRequestTimeout">>, <<"Mux", "FlowIdRejected">>}
                ELSE {<<"Mux", "Closed">>} : ConnectionFailed(e)
    /\ parked' = cur /\ cur' = None
    /\ UNCHANGED <<jobVars, queue, args>>

TaskErrors ==
    {<<"Mux", "WebSocket", "Protocol", "ResetWithoutClosingHandshake">>,
     <<"Mux", "WebSocket", "Capacity">>, <<"Mux", "SendStreamToClient">>, <<"Mux", "InvalidFrame">>}

(* The mux task ends (external here; in Mux it is an action of the task). *)
MuxEnds ==
    /\ mux = Up
    /\ mux' \in {<<"Ok">>} \cup TaskErrors
    /\ UNCHANGED <<jobVars, queue, pc, cur, parked, backoff, retries, result, args>>

Ended == mux \in {<<"Ok">>} \cup TaskErrors

(* mux_task_joinset.join_next() in the loop: only an Err makes it return. *)
JoinMux ==
    /\ pc = "loop" /\ Ended
    /\ IF mux = <<"Ok">>
         THEN mux' = Joined /\ UNCHANGED <<pc, backoff, retries, result>>
         ELSE ConnectionFailed(mux)
    /\ UNCHANGED <<jobVars, queue, cur, parked, args>>

(* Ctrl-C in the loop drops the Multiplexor, and its task is joined. *)
CtrlC ==
    /\ pc = "loop"
    /\ pc' = "drain"
    /\ UNCHANGED <<jobVars, queue, cur, parked, mux, backoff, retries, result, args>>

Drained ==
    /\ pc = "drain" /\ mux # Up
    /\ IF mux \in TaskErrors THEN ConnectionFailed(mux) ELSE Exit(<<"Ok">>) /\ UNCHANGED mux
    /\ UNCHANGED <<jobVars, queue, cur, parked, args>>

(* Ctrl-C while there is no connection. *)
CtrlCEarly ==
    /\ pc \in {"handshake", "backoff"}
    /\ Exit(<<"HandshakeCancelled">>)
    /\ UNCHANGED <<jobVars, queue, cur, parked, mux, args>>

(* check_listeners_future *)
ListenersExit ==
    /\ Running
    /\ \/ (\E j \in Jobs : job[j] = "failed") /\ Exit(<<"RemoteHandlerExited">>)
       \/ (\A j \in Jobs : job[j] = "done") /\ Exit(<<"Ok">>)
    /\ UNCHANGED <<jobVars, queue, cur, parked, mux, args>>

-----------------------------------------------------------------------------

Handler(j) ==
    AcceptTcp(j) \/ SocksAccept(j) \/ HandleConnect(j) \/ HandleAssociate(j)

MainStep == BackoffOver \/ JoinMux \/ Drained

Next ==
    \/ \E j \in Jobs :
         \/ Handler(j) \/ Reserve(j) \/ Request(j) \/ Arrive(j) \/ AcceptFails(j)
         \/ RelayAborted(j) \/ CopyEnds(j)
    \/ MainStep \/ TakeRequest \/ ListenersExit \/ HandshakeOk \/ HandshakeFails \/ RequestOk \/ RequestFails
    \/ MuxEnds \/ CtrlC \/ CtrlCEarly

Spec == Init /\ [][Next]_vars

(* Ready tasks are polled.  The waiters of reserve() are served in order,  *)
(* so one that waits while places come and go gets one; select! takes any  *)
(* branch that is ready again and again.  Of the server we assume that it  *)
(* is reachable again and again, and answers a request that is repeated    *)
(* for ever; a dropped Multiplexor's task ends.                            *)
Fairness ==
    /\ \A j \in Jobs : WF_vars(Handler(j)) /\ SF_vars(Reserve(j) \/ Request(j))
    /\ WF_vars(MainStep) /\ SF_vars(TakeRequest) /\ WF_vars(ListenersExit)
    /\ WF_vars(pc = "drain" /\ MuxEnds)
    /\ WF_vars(HandshakeOk \/ HandshakeFails) /\ SF_vars(HandshakeOk)
    /\ WF_vars(RequestOk \/ RequestFails) /\ SF_vars(RequestOk)

FairSpec == Spec /\ Fairness

-----------------------------------------------------------------------------

(* Every handler that waits for a stream is waited for in turn: its        *)
(* request is in the channel, being worked on or parked, in exactly one of *)
(* these places, whatever fails in between (client/mod.rs:308 "Place to    *)
(* park one failed stream request so that it can be retried"; parking      *)
(* never overwrites an older request).                                     *)
NoRequestLost ==
    LET places == queue \o <<cur, parked>> IN
    /\ \A j \in Jobs :
         Cardinality({i \in 1..Len(places) : places[i] = j}) = IF job[j] = "wait" THEN 1 ELSE 0
    /\ Free >= 0

(* The client waits Initial * Mult^(n-1), at most MaxInterval, before the  *)
(* n-th retry in a row, and gives up after exactly max_retry_count retries *)
(* in a row; a connection starts the count anew (timing.rs:20-22).         *)
BackoffSchedule ==
    /\ pc = "backoff" => backoff.slept = AtMost(Initial * Power[retries - 1], MaxInterval)
    /\ max_count # 0 => retries <= max_count
    /\ result = "MaxRetryCountReached" => retries = max_count

(* A SOCKS client is told that it is connected only when its stream or its *)
(* relay is there, and is never refused after that.                        *)
SocksToldTruth ==
    \A j \in Jobs :
        /\ told[j] = "granted" => job[j] \in {"copy", "relaying", "idle", "done", "failed"}
        /\ job[j] \in {"copy", "relaying"} /\ Socks(j) => told[j] = "granted"

(* A handler that asked for a stream gets it, or the client exits, through *)
(* any number of lost connections and failed attempts; a connection the    *)
(* peer closed without an error is replaced when a request finds it gone.  *)
RequestServed ==
    \A j \in Jobs : job[j] = "wait" ~> (job[j] # "wait" \/ pc = "exited")

(* A connection in the backlog of a TCP listener, or a handler that has a  *)
(* connection and asks for a place in the channel.                         *)
Waits(j) == IF Kind(j) = "tcp" THEN backlog[j] ELSE job[j] = "reserve"

(* All places are held by listeners that wait in accept() (tcp.rs:65-72).  *)
IdleHoldAll == Cardinality({j \in Jobs : job[j] = "permit" /\ ~backlog[j]}) = Capacity

(* A connection is accepted and a request gets its place, or the client    *)
(* exits; the only thing that can starve one are listeners that hold all   *)
(* the places and have nobody connecting to them, ever again.              *)
ConnectionAccepted ==
    \A j \in Jobs : [](Waits(j) => <>(~Waits(j) \/ pc = "exited" \/ []IdleHoldAll))

(* client/mod.rs:364-365: on_connected "returns when the connection is     *)
(* lost, and the caller should retry based on the error".                  *)
ReturnsWhenLost == (pc = "loop" /\ mux # Up) ~> (pc # "loop")

=============================================================================
