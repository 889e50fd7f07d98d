# TLA+ models of rusty-penguin

Rusty Penguin tunnels TCP streams and UDP datagrams over one WebSocket. This
directory holds TLA+ modules that model the program, TLC configurations that
check them on small instances, and TLAPS proofs that hold for every instance.
`PROJECT.json` lists the parts of the system, the runs, which lines of the code
each definition stands for, the hazards and the findings.

## The system and its parts

    listeners, SOCKS, stdio --> client loop --> Multiplexor === WebSocket === Multiplexor --> server loop --> forwarders
      (client/handle_remote)   (client/mod.rs)  (mux/)                        (mux/)         (server/websocket.rs)

| part | code | model |
| --- | --- | --- |
| credit window of a stream | `mux/stream.rs`, `mux/task.rs`, `mux/lib.rs` | `FlowWindow`, proofs in `FlowWindowProofs` |
| write side of a `MuxStream` against the task, atomic by atomic | `mux/stream.rs`, `mux/lib.rs` | `StreamWriter`, proofs in `StreamWriterProofs` |
| multiplexor: flow table, handshake, bind requests, datagrams, task, shutdown | `mux/lib.rs`, `mux/task.rs` | `Mux`, proofs in `MuxProofs` |
| bidirectional copy, TCP forwarder | `mux/stream.rs`, `server/forwarder.rs` | `CopyBidirectional`, proofs in `CopyProofs` |
| options | `mux/config.rs` | the assumptions on the constants |
| WebSocket | tungstenite, `mux/ws.rs` | external, in `Mux` |
| frame codec | `mux/frame.rs`, `mux/proto_version.rs` | `FrameCodec`, proofs in `CodecsProofs` |
| client: connect, retry with backoff, parked request, Ctrl-C | `client/mod.rs`, `ws_connect.rs`, `mux/timing.rs` | `Client`, proofs in `ClientProofs` |
| which errors are retried | `client/maybe_retryable.rs` | `MaybeRetryable` |
| client: TCP listeners, stdio, life of a SOCKS connection | `client/handle_remote/` | `Client` |
| client: UDP handlers and maps; server: datagram loop and forwarders | `client/mod.rs`, `handle_remote/udp.rs`, `server/websocket.rs`, `server/forwarder.rs` | `Udp`, proofs in `UdpProofs` |
| what SOCKS reads and writes | `client/handle_remote/socks/` | `SocksWire`, proofs in `CodecsProofs` |
| remote specifications | `parse_remote.rs` | `ParseRemote` |
| upgrade request and HTTP service | `ws_connect.rs`, `server/service.rs` | `HttpService`, proofs in `CodecsProofs` |
| server: start, listeners, TLS identity, time limits | `server/mod.rs`, `tls/` | `Server`, proofs in `ServerProofs` |
| ACME client | `server/acme/` | `Acme`, composed into `Server` |
| command line, TLS objects, shims | `arg.rs`, `main.rs`, `mux/loom.rs`, ... | not modelled |

`Client`, `Udp` and `CopyBidirectional` use the multiplexor through what `Mux`
shows of it: a request is answered, refused, or fails with the connection; a
datagram arrives, or is lost when a queue is full; a stream gives frames in order
and then its end.

## Modules

### FlowWindow

One direction of one established stream. `remaining` is `psh_send_remaining` of
the writer, `chan` the length of the reader's `frame_rx`, `since` its
`psh_recvd_since`; `pushes` and `acks` are the frames under way. Each action is
one operation of the code on these counters: `Write` (poll_write), `Dispatch`
(a `Push` arrives), `Read` (poll_fill_buf and increment_psh_recvd_since),
`Acknowledge`, and the ways to end: `CloseWriter`, `CloseReader`, `DropReader`,
`LinkDown`. It is the abstract specification that `StreamWriter` implements.

### StreamWriter

The same stream seen from the writing end, with two threads: the user's task
(`wpc`) and the multiplexor task (`mpc`). They share `finish_sent`,
`psh_send_remaining`, the `AtomicWaker` and the frame queue, and each access is
an action of its own. The memory is sequentially consistent, which is stronger
than the orderings in the code: what is found violated here is violated by
interleaving alone, and what holds is shown for interleavings only.

### Mux

Two whole multiplexors. `ep[e]` is a record with all that end `e` owns: the flow
table, every `MuxStream` it made, the calls in progress, the queues (`tx` for
frames, `drops` for dropped ports, `acc` for accepted streams, `bnd` for bind
requests, one for datagrams), and the position of the task from `run` through
wind_down to `done`. `hold` is what `process_frame` is waiting to deliver into a
full queue. Operators such as `ProcessConnect` take the record of an end and
return the next one; the actions apply them. `wire[e]` is the WebSocket from `e`
to its peer. The variable `sc` is the scenario, chosen in `Init` and never
changed: what the users of a behaviour may do. `MCMux` has the scenarios.

Granularity: a handler, from the lock on the flow table to the frames it queues,
is one step; everything between two awaits of a call is at most one step per
shared object (`StartCall` enters the id in the table, `SendRequest` queues the
frame, `ResumeCall` takes the answer). Two abstractions follow. A user cannot
draw the flow id that close_port has just removed before its `Reset` is queued.
A write is one step; its atomics are in `StreamWriter`.

The WebSocket is external: reliable and in order, until `BreakLink` loses a
suffix of each direction. Ping and Pong change nothing and are left out.

Flow ids are drawn at random from 2^32 - 2 values. In the model an end draws an
id once, and draws an id the other end has used only while that request is
unanswered, which is the contention the code provides for. An id that is drawn
again later is listed as a hazard and not modelled.

### CopyBidirectional

The forwarder's `Connect`, then the future that copies between a stream and a
socket. A poll is `PollStart`, iterations of `PollReadUs` and `PollShutdown`,
iterations of `PollWriteUs` or `PollWriteDone`, `PollEnd`. `reg` is what the
waker is registered with; only a change there makes the task run again, and takes
the waker out. A write that finds no credit ends in a step of its own,
`RegisterWriter`, because the stream may change between the load of the counter
and the registration. The socket takes any part of a buffer, may be reset, and
then reports its error once.

### Client and MaybeRetryable

`job[j]` is where a handler is: a TCP listener reserves a place in the channel
before it accepts, standard input and SOCKS reserve and send at once. A SOCKS
handler is a set of slots, one for each connection it serves.
`pc`, `cur`, `parked`, `mux`, `backoff` are `client_main_inner` and
`on_connected`: `HandshakeOk`, `HandshakeFails`, the branches of the select
(`JoinMux`, `TakeRequest`, `CtrlC`), `RequestOk` and `RequestFails` for
get_send_stream_chan, and `Failed` for the match that decides to retry, with
`retryable` of `MaybeRetryable`. Datagrams of the same loop are in `Udp`.

### Udp

The way of a datagram and back: `HandleUdp`/`HandleUdpStdio` and `SendToLoop`
in the handlers, the two maps with `AddUdpClient`, `Expire` and
`PruneUdpClients`, `TakeDatagram` and `SendDatagramReply` in the client's loop,
`ServerGet` and `ServerSend` in the server's loop, and the forwarder of each
flow id. A datagram carries the client that caused it, which the code does not
know; the id of a reply that reaches another one is in `astray`. Time is a flag
on an entry. `next_available_key` gives any id that the map of the client does not
have, also one that a handler, a queue or a forwarder still has to do with
(`Remembered`); such an id is in `reused` until it is drawn afresh. `MCUdp` has
the scenarios.

### FrameCodec, ParseRemote, SocksWire, HttpService, Codecs

Pure functions as operators. Frames and SOCKS requests are sequences of octets
(`Octets` has the big-endian numbers). A remote is a sequence of lexemes (words,
`[`, `]`, `:`, `/`), and a header value is a word: what the code tells apart.
`Codecs` puts an input in `Init` and the result in its one step; the reference
definitions (the encodings of RFC 1928 and SOCKS4a from the application's side)
are at the end of `SocksWire`.

### Server and Acme

`main` is server_main; `disk` the certificate and key on disk, which the operator
(external) replaces one after the other, each through a moment in which it does
not parse, and whether the file with the client CAs is good; `load` the reload
between its two reads; `identity` the `ArcSwap`; `conn[c]` and `ws[c]` a
connection and the task that ws_handler spawned for it.
`Acme` is one run of `issue` with every `?` as an alternative; `Server` starts
it and stores what it returns. The challenge helper is a program of the operator:
the code waits until a create helper has exited, but looks at nothing else, and
only starts a remove helper, without waiting and without looking whether it could
be started. So `files` are the files that exist, `removing` those with a remove
helper on its way, which acts at any later time or never, and `kept` those
whose remove helper could not be started.

## Runs

| run | bounds | shows |
| --- | --- | --- |
| `flow_window` | window 4, threshold 2, counter modulo 5 | credits conserved, no overrun, no wrap, credit returns |
| `stream_writer` | window 3, threshold 2 | implements `FlowWindow`; one terminal frame; at most one late `Push`; the peer is told; a parked writer is woken |
| `stream_writer_ack_wake` | window 2, threshold 1 | finding: lost wake-up of an `Acknowledge` |
| `mux` | nine scenarios, below | order, no loss, window, agreement of the tables, true answers to bind requests, tasks end only for cause, nobody left behind, calls return, both tasks end, ids freed |
| `mux_cancel` | 1 stream, A cancels | finding: a cancelled call ends the task |
| `client` | 2 handlers in 4 combinations, 1 place, interval at most 3, 0 or 2 retries | no request lost or served twice, served in the end, a place for everybody unless idle listeners hold them all, backoff exact, SOCKS told the truth |
| `client_lost` | 2 listeners | finding: a connection closed without an error is not noticed |
| `udp` | 2 of a plain client, a SOCKS client, standard input; 2 ids, or 1 that is drawn again; queues of 1 | maps inverse, replies go home unless an id was drawn again too early, one loss per ended forwarder |
| `copy` | frames of 2 and 1, chunks of 1 and 2, 1 credit | faithful copy, half-closes passed on but for two exceptions |
| `codecs` | about 43,000 inputs; 4 SOCKS hosts, 2 users | frames round-trip and decode canonically, remotes round-trip, SOCKS exact, upgrade exact |
| `codecs_short` | the same | finding: a short datagram does not decode |
| `server` | 1 connection, 3 versions, 2 runs of `issue`, 2 domains, with and without a time limit | identity whole, rotation served, challenge files handed over for removal, connections resolved |

The scenarios of `mux`: one stream with one write one way and two the other, and
the reverse, under windows of 1 and 2; a stream from each end with three ids and
two tries; one stream with either `Multiplexor` dropped at any time; two bind
requests and a queue of one, either end dropped; two streams and an accept queue
of one, either end dropped; two datagrams each way, a queue of one, one end
dropped; one stream, a connection that breaks and a call that may be cancelled; a
stream from each end and a connection that breaks.

The bounds are the smallest at which the cases meet: unequal windows of 1 and 2
make one direction starve after each frame and let the other have a frame in the
channel and one under way; one queue slot and two requests fill a queue; two
tries with three ids give a collision and a successful retry. In `stream_writer`
the window is larger than the threshold, so that credits return while others are
out. In `client` the interval meets its maximum at the third retry and the
counter wraps after it (modulo 4) where the number of retries is not limited; the
one place is held by a listener that waits in accept() while the other handler
asks, as the 64 places of the code are by 64 listeners. In `udp` two clients have
different ids at the same time, without an early reuse, or one id is drawn again
for the other while anything remembers it; both at once have too many
states. The ids are symmetric. In `copy` a buffer of two can
be taken in parts, and one credit makes every frame wait. In `server` three
versions let a second rotation overtake the reload of the first, and two runs of
`issue` let a remove helper of the first act in the second; connections do not
depend on each other. Every bound is a constant of the module that uses it.

All configurations switch the deadlock check off: a tunnel whose users do
nothing more, or whose tasks have ended, rightly stops.

### Fairness

* The branches of `start` are polled by one `select!` in random order, so each
  that stays ready is taken: weak fairness of the receiving branch, of the
  dropped ports and of the sending branch, separately.
* A future whose oneshot is ready is polled by the runtime.
* The applications accept streams and bind requests, read what has arrived and
  let go of bind requests in the end. Without this nothing returns credits.
* In `StreamWriter` and `CopyBidirectional` a task in the middle of an operation
  goes on, and is polled again only if it was woken.
* In `CopyBidirectional` credits return, and a socket that is written to or shut
  down again and again takes it in the end, or fails: an assumption on the peer
  and the application.
* In `Client` the waiters of `reserve()` are served in order, and `select!`
  takes a branch that is ready again and again: strong fairness of both. Of the
  server it is assumed that handshakes succeed again and again and that it
  answers a request that is repeated for ever; without this nothing can be served.
* In `Server` the tasks run and a time limit that is set fires, as long as the
  process runs. Peers and the operator may stop at any time.
* `Udp` and `Codecs` have safety properties only and no fairness.
* Nobody has to open, write, close, cancel, drop, press Ctrl-C or fail.

## Findings

Each violation run checks one sentence of the repository; the entries in
`PROJECT.json` quote it.

1. `stream.rs:220`: the writer does not look at the counter again after it has
   registered its waker; an `Acknowledge` in between leaves it parked. A close
   of the stream in the same place is missed in the same way.
2. `task.rs:610`: the answer to a cancelled `new_stream_channel` ends the task
   and all its streams.
3. `frame.rs:488`: the decoder asks for four octets too many, so that a
   `Datagram` with fewer than four octets of data ends the task of the peer.
4. `client/mod.rs:423`: a connection that the server closes without an error is
   not replaced until a stream is requested.

Because of 1, `stream_writer` does not claim that a writer with credit resumes;
it claims that a writer which is parked on an empty window with its waker
registered is woken, and `HalfClosePassedOn` has the missed wake-up as an
exception (`MissedCredit`): a copy that sleeps on a credit it missed does not send
its `Finish`. Because of 3, `FrameRoundTrip` states the exception, and the
datagrams of `Mux` are ones that decode. Because of 4, `RequestServed` is about
stream requests and not about datagrams.

What the models also show, and no run of its own states:

* `task.rs:534` limits the acknowledgement threshold by the peer's window, not
  by the own one: with a threshold above the own window the writer stalls
  (`CreditReturns` is checked where the threshold fits).
* `task.rs:290`: when the connection breaks while both ends open streams, a
  `Connect` may be left for the last loop of wind_down. It cannot be answered on
  the closed queue, and the `?` returns before the drain at 293: the streams get
  no EOF, and a call that waits is not answered as long as the `Multiplexor`
  lives, against the comment at `lib.rs:221-222`. `cut` marks such an end.
  `NoneLeftBehind`, `CallsReturn` (`Abandoned`) and `DroppedIsFreed` have it as an
  exception. The answer to a cancelled call, finding 2, does the same there.
* `lib.rs:228`: the assertion that the flow id of a rejected request is gone does
  not hold. When the peer has drawn the same id, its `Reset` may be queued before
  its own `Connect`; that `Connect` is then accepted before the call looks. A
  build with debug assertions panics; `Mux` goes on as a release build does.
* `stream.rs:415`: an error of poll_write_us is dropped while poll_read_us is
  pending, so the copy does not return it as `stream.rs:268` says, and sleeps
  (`DroppedError`, the other exception of `HalfClosePassedOn`).
* `tcp.rs:65`: a listener holds its place in the request channel while it waits
  in accept(). 64 idle listeners hold all places, and every other handler starves
  (`IdleHoldAll`, the exception of `ConnectionAccepted`).
* `client/mod.rs:129`: the id of a pruned client may be drawn again while its
  forwarder or a reply is left, which then goes to the new client (`reused`, the
  exception of `RepliesGoHome`); among 2^32 - 2 ids this is rare.
* `websocket.rs:83`: the server's loop keeps a sender of its own datagram channel
  and does not end when the multiplexor closes (`MuxCloses` in `Server`).
* `socks/mod.rs:348`: the header of a UDP reply has the address type after the
  address; RFC 1928 has it before. `socks/mod.rs:240`: a relay whose control
  connection fails while it is answered is never aborted.
* `v4.rs:40`: a SOCKS4 request that ends without its final zero loses its last
  octet and is taken as complete; `SocksExact` claims whole SOCKS4 requests.
* `parse_remote.rs:111`: a remote that ends with a bracketed host panics. A local
  host named `stdio` in front of `socks`, and a host with a second bracket, print
  as something that parses differently (the exceptions of `RemoteRoundTrip`).
* `challenge_helper.rs:108`, `acme/mod.rs:175` and 198-204: errors of the ACME
  requests return past the clean-up of challenge files. `challenge_helper.rs:89`:
  the file of a create helper that cannot be waited for is forgotten; 114: nobody
  sees whether a removal succeeds. `acme/mod.rs:183`: an order that is ready at the
  last refresh is reported as invalid.
* `client/mod.rs:419`: an error of the task after Ctrl-C makes the client connect
  again.

## Proofs

TLC checks an instance; the proofs hold for every value of the constants that
the named assumptions allow. Each proof module has an inductive invariant, one
lemma or step per action, and the theorems that follow from the invariant. The
invariants were checked with TLC on the instances of the runs before they were
proved.

| module | theorem: property | from |
| --- | --- | --- |
| `FlowWindowProofs` | `TypeCorrect`: `TypeOK`; `WindowIsExact`: `CreditConserved`; `NeverOverrun`: `NeverFull`; `CounterNeverWraps`: `NoWrap` | `IInv` |
| `StreamWriterProofs` | `WriterImplementsWindow`: `ImplementsWindow`; `TerminalOnce`: `OneTerminal`; `LatePushOnce`: `OneLatePush`; `DropTellsPeer`: `PeerTold` | `WriterInductive` |
| `MuxProofs` | `EndsStayTyped`: `TypeOK`; `TaskEndsForCause`: `EndsForCause` | `MuxInductive` |
| `CopyProofs` | `CopyIsFaithful`: `CopyFaithful` | `CopyInductive` |
| `ClientProofs` | `RequestKept`: `NoRequestLost`; `ClientsToldTruth`: `SocksToldTruth`; `BackoffKeepsSchedule`: `BackoffSchedule` | `ClientInductive` |
| `UdpProofs` | `MapsStayInverse`: `MapsInverse`; `EveryReplyGoesHome`: `RepliesGoHome`; `OneLoss`: `OneLossPerForwarder` | `UdpInductive` |
| `ServerProofs` | `IdentityStaysWhole`: `IdentityWhole`; `FilesHandedOver`: `ChallengesRemoved` | `ServerInductive` |
| `CodecsProofs` | `FramesComeBack`: `FrameRoundTrip`; `DecoderIsCanonical`: `DecodeCanonical`; `SocksIsExact`: `SocksExact`; `UpgradeIsExact`: `UpgradeExact` | `CodecsInductive` |

### The arguments

`FlowWindow`: the invariant is `TypeOK /\ AckIsThreshold /\ CreditConserved`.
`CreditConserved` alone is not inductive: `Acknowledge` adds whatever number the
frame carries, and the sum stays only because every number under way is the
threshold. `NeverFull` and `NoWrap` follow from the sum. `Returning`, the product
of the number of acknowledgements and the threshold, is kept opaque; `AckCredits`
and `FewerAcks` say how it changes.

`StreamWriter`: every step maps to a step of `FlowWindow` or to a stutter, one
lemma for each. A credit that was taken by the exchange and not yet sent counts
as a `Push` under way. The refinement needs the invariant of `FlowWindow` in the
state it maps to: a `Push` is delivered only because the window has room.
`OneCloser` says that whoever sets `finish_sent` first, and nobody else, may
still queue the terminal frame; `OneBeyondCheck` that only a writer beyond the
check can still push; `Telling` that a closed stream has told its peer or that
somebody is about to.

`Mux`: `Sound` is what holds of one end by itself. Every operator that a handler
is made of (`Send`, `Oneshot`, `AddStream`, `ClosePort`, `OfferStream`, ...) takes
a sound end to a sound end, and each action is a composition of these. The
interesting part of it is `Calling`: a request in the flow table belongs to a
call with the same id that has no answer yet, unless the call was cancelled or
found the queue closed. Without it a handler could fail at the oneshot of a call
that is still waiting, and the task would end for no cause. `Pointing` says that
references to streams are to streams that were made; `MuxInv` adds that a `Close`
on the wire was sent by a task that had left its loop, so that the first task to
end was not ended by the other.

`CopyBidirectional`: what has been read from a queue is the data of the first so
many chunks, and what is still to come is the other chunks (`Carries`); in the
direction to the socket the buffer of the `MuxStream` counts as read. `Ending`
says that a direction which has ended has ended for good, with nothing left in
its queue. That this makes a prefix of all the data (`FlattenSeq`) is `UptoPrefix`.

`Client`: `Requests` says where the requests are, without counting, and where the
main loop is when it has one in its hands; `NoRequestLost` counts, and follows.
`Schedule` relates `Backoff` to the powers of the multiplier.

`Udp`: `MapsInverse` is inductive with its types. `RepliesGoHome` is not: whatever
is on its way for an id, in a handler, a queue or a forwarder, must come from the
client that has the id, if anybody has it (`WayHome`), unless the id was drawn
while something remembered it. An id that nothing remembers has nothing on its
way, so drawing it starts afresh.

`Server`: the identity is whole because a pair is only stored when it matches,
and because a run of `issue` has a number before it can return a certificate. For
the challenge files: while `issue` runs, the files of the run are among its
executed authorizations and none of them is being removed, and no file is of a run
still to come; the clean-up splits the executed ones into `removing` and `kept`.

`Codecs`: the state holds the input and the result of one function, so the
theorems are about the functions: lemmas for `PutU16`/`GetU16` and
`PutU32`/`GetU32`, for the octets at a place of a concatenation, and one round
trip for each kind of frame. They hold for hosts and data of any length and for
all numbers of the fields' widths. For the SOCKS requests each reader of
`SocksWire` has a lemma about an input that begins with what the application
wrote and is cut after any number of octets: a field that arrived whole is read
as it was written and leaves the rest, one that did not is an end of file
(`SizedRead`, `AuthRead`, `AddressRead`, `Request5Read`, `UntilZero`). Composed
they are `Socks5Read`, `Socks4Read` and `UdpRead`, for any methods, user, host,
port and octets after the request.

### Assumptions

Each is an `ASSUME` of the module that declares the constants, and TLC evaluates
it in every run. `OptionsAssumption` and `WriterAssumption`: what
`config::Options` asserts, and `Rwnd <= MaxU32`, which its type gives.
`ConstantsAssumption` (`Mux`): positive windows, thresholds and queue sizes, 0 is
not a flow id, scenarios of the right shape. `CopyAssumption`: frames and chunks
are not empty, as `stream.rs:155` asserts. `ClientAssumption`: positive backoff
parameters, retry limits that fit the counter, TCP remotes.
`SaturationAssumption`: the interval has reached its maximum before the counter
wraps at 2^32, where 200 ms times 2^(2^32 - 1) is more than a `Duration` can
hold. `UdpAssumption`, `AcmeAssumption`: shapes. `FrameAssumption`: hosts and data
are octets, numbers fit the fields. `SocksAssumption`: the same for what a SOCKS
request carries, with the sizes of addresses and of the counted fields.

### Induction over data

Two properties speak of recursive functions: the powers in `BackoffSchedule` and
the concatenation of all chunks in `CopyFaithful`. Their laws (`PowerLaw`,
`FlatLaw`) are proved from the least element of a set of numbers (`LeastNat`,
`SetInduction`), which needs no induction rule with an operator as a parameter.

### Only model-checked

* Liveness, everywhere, and with it `ENABLED`: not in the prover's reach.
* `WindowRespected`, `InOrder`, `NoDataLost` and `QuietAgreement` of `Mux`: they
  relate the two ends through the whole contents of both queues and both
  directions of the wire, for every generation of a flow id. `FlowWindowProofs`
  has the credit argument for one direction.
* `BindTruth` of `Mux` is a property of the scenarios of the run: if one id were
  drawn both for a stream and for a bind request of the other end, the `Finish`
  of the stream would answer the bind request.
* `NoneLeftBehind` of `Mux`: it needs that nothing enters the table between the
  drain and the end of the task but calls that find the queue closed.
* `RemoteRoundTrip` of `Codecs`: over the inputs of the run.

## Not modelled

* Reuse of a flow id after its stream (stale frames, stale drops): it needs a
  random collision among 2^32 - 2 ids, and multiplies the states of `Mux` by the
  histories of every id.
* Keepalive pings: they change no state of the multiplexor; a peer that does not
  answer shows as a broken connection.
* Frames that do not decode, in `Mux`: the task ends with the error, as with a
  broken connection.
* Weak memory: `StreamWriter` is sequentially consistent.
* The native-tls build, the client's TLS configuration, the rewriting of requests
  for the backend, name resolution: library objects and I/O without state of
  their own. Their outcomes are alternatives of the actions that use them.
* The command line (`arg.rs`), `main.rs`, `mux/loom.rs`, `mux/dupe.rs`: no
  protocol state.

## Plan

1. Proofs: `WindowRespected` of `Mux` along the argument of `FlowWindowProofs`.
2. Reuse of flow ids in `Mux`.
