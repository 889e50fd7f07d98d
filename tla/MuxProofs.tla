----------------------------- MODULE MuxProofs -----------------------------
(***************************************************************************)
(* The multiplexor stays in its types, and its task ends only for cause,   *)
(* for any windows, queues, flow ids and scenarios.                        *)
(*                                                                         *)
(* Sound says what holds of one end by itself, and is shown operator by    *)
(* operator.  The task ends for cause because a handler fails only when    *)
(* the Multiplexor is gone, when the queue of frames is closed, or when a  *)
(* call that is in the table has been cancelled; Calling is what makes the *)
(* last one true.                                                          *)
(***************************************************************************)
EXTENDS Mux, TLAPS

(* The facts on sequences that the proofs cite. *)
LEMMA SeqDef ==
    \A S : Seq(S) = UNION {[1..n -> S] : n \in Nat}
  BY SMT

LEMMA LenProperties ==
    ASSUME NEW S, NEW seq \in Seq(S)
    PROVE  /\ Len(seq) \in Nat
           /\ seq \in [1..Len(seq) -> S]
           /\ DOMAIN seq = 1..Len(seq)
  BY SMT

LEMMA ConcatProperties ==
    ASSUME NEW S, NEW s1 \in Seq(S), NEW s2 \in Seq(S)
    PROVE  /\ s1 \o s2 \in Seq(S)
           /\ Len(s1 \o s2) = Len(s1) + Len(s2)
           /\ \A i \in 1..(Len(s1) + Len(s2)) :
                (s1 \o s2)[i] = IF i <= Len(s1) THEN s1[i] ELSE s2[i - Len(s1)]
  BY SMT

LEMMA HeadTailProperties ==
    ASSUME NEW S, NEW s \in Seq(S), s # << >>
    PROVE  /\ Head(s) \in S
           /\ Tail(s) \in Seq(S)
           /\ Len(Tail(s)) = Len(s) - 1
           /\ \A i \in 1..Len(Tail(s)) : Tail(s)[i] = s[i + 1]
  BY SMT

Words == Nat \X Nat

Streams ==
    [id : FlowIds, own : {"oneshot", "hold", "queue", "user", "gone"}, fin : BOOLEAN,
     credit : Nat, since : Nat, thr : Nat, q : Seq(Words), sent : Nat, got : Seq(Words)]

CallStates == {"send", "wait", "ok", "refused", "rejected", "closed", "cancelled"}
Results == {"empty", "stream", "none", "dropped", "yes", "no"}

CallType ==
    [kind : {"stream", "bind"}, id : FlowIds, st : CallStates, tries : Nat, res : Results, s : Nat]

(* What is queued for the peer, and what can be on its way to it. *)
Frames ==
    [op : {"Connect", "Acknowledge"}, id : FlowIds, v : Nat]
    \cup [op : {"Finish", "Reset", "Bind"}, id : FlowIds]
    \cup [op : {"Push"}, id : FlowIds, v : Words]
    \cup [op : {"Datagram"}, id : {0}, v : Nat]

Messages == Frames \cup {Close}

Holds == {NoHold} \cup [k : {"stream"}, v : Nat] \cup [k : {"bind"}, v : FlowIds]

Ends ==
    [flows : [FlowIds -> Slots], strm : Seq(Streams), call : Seq(CallType), tx : Seq(Frames),
     txOpen : BOOLEAN, drops : Seq(FlowIds \cup {0}), acc : Seq(Nat), bnd : Seq(FlowIds),
     dgm : Seq(Nat), dsent : Nat, dgot : Seq(Nat),
     held : SUBSET [id : FlowIds, reply : {"no", "yes"}], granted : SUBSET FlowIds, hold : Holds,
     pc : {"run", "disallow", "closetx", "remaining", "done"},
     drain : BOOLEAN, srcEnd : BOOLEAN, err : BOOLEAN, cut : BOOLEAN, alive : BOOLEAN]

(* What refers to a stream refers to one that was made. *)
Pointing(p) ==
    /\ \A id \in FlowIds : p.flows[id].k = "established" => p.flows[id].st \in 1..Len(p.strm)
    /\ \A i \in 1..Len(p.acc) : p.acc[i] \in 1..Len(p.strm)
    /\ p.hold.k = "stream" => p.hold.v \in 1..Len(p.strm)
    /\ \A c \in 1..Len(p.call) : p.call[c].res = "stream" => p.call[c].s \in 1..Len(p.strm)

(* A request in the table belongs to a call with the same flow id, which   *)
(* has no answer yet; the call goes on, or it was given up.                *)
Calling(p) ==
    \A id \in FlowIds : p.flows[id].k \in {"requested", "bind"} =>
        /\ p.flows[id].call \in 1..Len(p.call)
        /\ LET call == p.call[p.flows[id].call] IN
             /\ call.id = id
             /\ call.st \in {"send", "wait", "cancelled", "closed"}
             /\ call.st \in {"send", "wait"} => call.res = "empty"
             /\ call.st = "closed" => ~p.txOpen

(* The queues keep to their sizes; only a Multiplexor that is dropped puts *)
(* 0 in the queue of ports; frames are queued while the task runs.         *)
Bounded(p) ==
    /\ Len(p.acc) <= AcceptCap /\ Len(p.bnd) <= sc.bindCap /\ Len(p.dgm) <= DatagramCap
    /\ (\E i \in 1..Len(p.drops) : p.drops[i] = 0) => ~p.alive
    /\ p.pc = "run" => p.txOpen

Sound(p) == p \in Ends /\ Pointing(p) /\ Calling(p) /\ Bounded(p)

(* Something happened that may end a task. *)
Cause ==
    \/ ~link
    \/ \E e \in End : \/ ~ep[e].alive
                     \/ \E c \in 1..Len(ep[e].call) : ep[e].call[c].st = "cancelled"

MuxInv ==
    /\ sc \in Scenarios /\ link \in BOOLEAN /\ used \in [End -> SUBSET FlowIds]
    /\ ep \in [End -> Ends] /\ wire \in [End -> Seq(Messages)]
    /\ \A e \in End : Sound(ep[e]) /\ ep[e].err = FALSE
    /\ \A e \in End : (\E i \in 1..Len(wire[e]) : wire[e][i] = Close) => ep[e].pc # "run"
    /\ Cause \/ \A e \in End : ep[e].pc = "run"

-----------------------------------------------------------------------------
(* Frames, and the helpers of the handlers. *)

LEMMA FrameTypes ==
    /\ \A id \in FlowIds : Finish(id) \in Frames /\ Reset(id) \in Frames /\ Bind(id) \in Frames
    /\ \A id \in FlowIds, n \in Nat : Connect(id, n) \in Frames /\ Ack(id, n) \in Frames
    /\ \A id \in FlowIds, s \in Nat, n \in Nat : Push(id, s, n) \in Frames
    /\ \A n \in Nat : Datagram(n) \in Frames
BY DEF Finish, Reset, Bind, Connect, Ack, Push, Datagram, Frames, Words

(* A helper changes queues, streams and the table, not the task. *)
Same(p, q) ==
    /\ q.pc = p.pc /\ q.err = p.err /\ q.alive = p.alive /\ q.txOpen = p.txOpen
    /\ q.hold = p.hold /\ q.srcEnd = p.srcEnd

(* Nothing brings a Multiplexor or a call back. *)
Keeps(p, q) ==
    /\ ~p.alive => ~q.alive
    /\ \A c \in 1..Len(p.call) :
         p.call[c].st = "cancelled" => c \in 1..Len(q.call) /\ q.call[c].st = "cancelled"

(* What Calling says, in terms of the tables of flows and of calls. *)
LEMMA CallingMeans ==
    ASSUME NEW q, NEW flows, NEW calls, NEW open,
           q.flows = flows, q.call = calls, q.txOpen = open,
           \A id \in FlowIds : flows[id].k \in {"requested", "bind"} =>
             /\ flows[id].call \in 1..Len(calls)
             /\ calls[flows[id].call].id = id
             /\ calls[flows[id].call].st \in {"send", "wait", "cancelled", "closed"}
             /\ calls[flows[id].call].st \in {"send", "wait"} => calls[flows[id].call].res = "empty"
             /\ calls[flows[id].call].st = "closed" => ~open
    PROVE  Calling(q)
BY ZenonT(30) DEF Calling

(* A request in the table stays with its call if neither is touched. *)
LEMMA CallingKept ==
    ASSUME NEW p, NEW q, Calling(p), q.txOpen = p.txOpen \/ ~q.txOpen,
           \A id \in FlowIds : q.flows[id].k \in {"requested", "bind"} =>
             /\ q.flows[id] = p.flows[id]
             /\ p.flows[id].call \in 1..Len(p.call) =>
                  /\ q.flows[id].call \in 1..Len(q.call)
                  /\ q.call[q.flows[id].call] = p.call[p.flows[id].call]
    PROVE  Calling(q)
<1> SUFFICES ASSUME NEW id \in FlowIds, q.flows[id].k \in {"requested", "bind"}
             PROVE  /\ q.flows[id].call \in 1..Len(q.call)
                    /\ LET call == q.call[q.flows[id].call] IN
                         /\ call.id = id
                         /\ call.st \in {"send", "wait", "cancelled", "closed"}
                         /\ call.st \in {"send", "wait"} => call.res = "empty"
                         /\ call.st = "closed" => ~q.txOpen
  BY Zenon DEF Calling
<1> DEFINE call == p.call[p.flows[id].call]
<1>1. p.flows[id].k \in {"requested", "bind"} /\ q.flows[id] = p.flows[id]
  BY ZenonT(30)
<1>2. /\ p.flows[id].call \in 1..Len(p.call) /\ call.id = id
      /\ call.st \in {"send", "wait", "cancelled", "closed"}
      /\ call.st \in {"send", "wait"} => call.res = "empty"
      /\ call.st = "closed" => ~p.txOpen
  BY <1>1, ZenonT(30) DEF Calling
<1>3. q.flows[id].call \in 1..Len(q.call) /\ q.call[q.flows[id].call] = call
  BY <1>2, ZenonT(30)
<1> HIDE DEF call
<1> QED
  BY <1>2, <1>3, ZenonT(30)

LEMMA CallingSame ==
    ASSUME NEW p, NEW q, Calling(p), q.flows = p.flows, q.call = p.call,
           q.txOpen = p.txOpen \/ ~q.txOpen
    PROVE  Calling(q)
BY CallingKept, ZenonT(30)

LEMMA SendSound ==
    ASSUME NEW p, Sound(p), NEW f \in Frames
    PROVE  /\ Sound(Send(p, f)) /\ Keeps(p, Send(p, f)) /\ Same(p, Send(p, f))
           /\ Send(p, f).strm = p.strm /\ Send(p, f).call = p.call /\ Send(p, f).flows = p.flows
<1> DEFINE q == [p EXCEPT !.tx = Append(@, f)]
<1>1. p \in Ends
  BY DEF Sound
<1>2. Append(p.tx, f) \in Seq(Frames)
  BY <1>1 DEF Ends
<1>3. q \in Ends
  BY <1>1, <1>2, Zenon DEF Ends
<1>4. Sound(q)
  BY <1>1, <1>3, ZenonT(60) DEF Sound, Pointing, Calling, Bounded, Ends
<1> QED
  BY <1>1, <1>4, ZenonT(90) DEF Send, Keeps, Same, Sound, Ends

(* No slot of the table waits for the call. *)
Unclaimed(p, c) ==
    \A id \in FlowIds : p.flows[id].k \in {"requested", "bind"} => p.flows[id].call # c

LEMMA OneshotSound ==
    ASSUME NEW p, Sound(p), NEW c \in 1..Len(p.call), Unclaimed(p, c), NEW res \in Results \ {"stream"}
    PROVE  LET q == Oneshot(p, c, res) IN
           Sound(q) /\ Keeps(p, q) /\ Same(p, q) /\ q.flows = p.flows /\ q.strm = p.strm
<1> DEFINE x == [p.call[c] EXCEPT !.res = res]
           y == [p.call EXCEPT ![c] = x]
           q == [p EXCEPT !.call = y]
<1>1. p \in Ends /\ p.call \in Seq(CallType) /\ p.call[c] \in CallType
  BY DEF Sound, Ends
<1>2. x \in CallType /\ x.st = p.call[c].st /\ x.res = res
  BY <1>1, Zenon DEF CallType
<1> HIDE DEF x
<1>3. y \in Seq(CallType) /\ Len(y) = Len(p.call) /\ y[c] = x
      /\ \A i \in 1..Len(p.call) : i # c => y[i] = p.call[i]
  BY <1>1, <1>2
<1> HIDE DEF y
<1>4. q \in Ends
  BY <1>1, <1>3, ZenonT(60) DEF Ends
<1>5. /\ q.flows = p.flows /\ q.strm = p.strm /\ q.acc = p.acc /\ q.hold = p.hold /\ q.call = y
      /\ q.txOpen = p.txOpen /\ q.bnd = p.bnd /\ q.dgm = p.dgm /\ q.drops = p.drops
      /\ Same(p, q)
  BY <1>1 DEF Ends, Same
<1> HIDE DEF q
<1>6. Pointing(q)
  BY <1>2, <1>3, <1>5, ZenonT(30) DEF Sound, Pointing
<1>7. Calling(q)
  <2>1. Calling(p) /\ q.txOpen = p.txOpen
    BY <1>5, ZenonT(30) DEF Sound
  <2>2. \A id \in FlowIds : q.flows[id].k \in {"requested", "bind"} =>
          /\ q.flows[id] = p.flows[id]
          /\ p.flows[id].call \in 1..Len(p.call) =>
               /\ q.flows[id].call \in 1..Len(q.call)
               /\ q.call[q.flows[id].call] = p.call[p.flows[id].call]
    BY <1>3, <1>5, ZenonT(30) DEF Unclaimed
  <2> QED
    BY <2>1, <2>2, CallingKept, ZenonT(30)
<1>8. Bounded(q)
  BY <1>5 DEF Sound, Bounded, Same
<1>9. Keeps(p, q)
  BY <1>2, <1>3, <1>5 DEF Keeps, Same
<1>10. Oneshot(p, c, res) = IF Pending(p.call[c]) THEN q ELSE p
  BY DEF Oneshot, q, y, x
<1>11. Keeps(p, p) /\ Same(p, p)
  BY DEF Keeps, Same
<1> QED
  BY <1>4, <1>5, <1>6, <1>7, <1>8, <1>9, <1>10, <1>11 DEF Sound

LEMMA DropStreamSound ==
    ASSUME NEW p, Sound(p), NEW s \in 1..Len(p.strm)
    PROVE  LET q == DropStream(p, s) IN
           Sound(q) /\ Keeps(p, q) /\ Same(p, q) /\ q.flows = p.flows /\ q.call = p.call
<1> DEFINE w == [p.strm[s] EXCEPT !.own = "gone"]
           x == [w EXCEPT !.q = << >>]
           y == [p.strm EXCEPT ![s] = x]
           d == IF p.pc = "done" THEN p.drops ELSE Append(p.drops, p.strm[s].id)
           q == DropStream(p, s)
<1>1. p \in Ends /\ p.strm \in Seq(Streams) /\ p.strm[s] \in Streams /\ p.drops \in Seq(FlowIds \cup {0})
  BY DEF Sound, Ends
<1>2. x \in Streams
  <2>1. w \in Streams
    BY <1>1, Zenon DEF Streams
  <2>2. << >> \in Seq(Words)
    OBVIOUS
  <2> HIDE DEF w
  <2> QED
    BY <2>1, <2>2, Zenon DEF Streams
<1>3. y \in Seq(Streams) /\ Len(y) = Len(p.strm)
  BY <1>1, <1>2
<1>4. /\ d \in Seq(FlowIds \cup {0})
      /\ (\E i \in 1..Len(d) : d[i] = 0) => \E i \in 1..Len(p.drops) : p.drops[i] = 0
  <2>1. p.strm[s].id \in FlowIds /\ p.strm[s].id # 0
    BY <1>1, ConstantsAssumption, Zenon DEF Streams
  <2> QED
    BY <1>1, <2>1
<1>5. q = [p EXCEPT !.strm = y, !.drops = d]
  BY <1>1 DEF DropStream, Ends
<1> HIDE DEF w, x, y, d, q
<1>6. q \in Ends
  BY <1>1, <1>3, <1>4, <1>5, ZenonT(60) DEF Ends
<1>7. /\ q.flows = p.flows /\ q.strm = y /\ q.acc = p.acc /\ q.hold = p.hold /\ q.call = p.call
      /\ q.bnd = p.bnd /\ q.dgm = p.dgm /\ q.drops = d /\ Same(p, q)
  BY <1>1, <1>5 DEF Ends, Same
<1>8. Pointing(q)
  BY <1>3, <1>7, ZenonT(30) DEF Sound, Pointing
<1>9. Calling(q)
  BY <1>7, CallingSame DEF Sound, Same
<1>10. Bounded(q)
  BY <1>4, <1>7 DEF Sound, Bounded, Same
<1>11. Keeps(p, q)
  BY <1>7 DEF Keeps, Same
<1> QED
  BY <1>6, <1>7, <1>8, <1>9, <1>10, <1>11, SMTT(30) DEF Sound, q

(* A slot gets a new value that is not a request. *)
LEMMA SlotSound ==
    ASSUME NEW p, Sound(p), NEW id \in FlowIds, NEW slot \in Slots,
           slot.k \in {"none", "established"},
           slot.k = "established" => slot.st \in 1..Len(p.strm)
    PROVE  LET q == [p EXCEPT !.flows[id] = slot] IN
           /\ Sound(q) /\ Keeps(p, q) /\ Same(p, q) /\ q.strm = p.strm /\ q.call = p.call
           /\ p.flows[id].k \in {"requested", "bind"} =>
                p.flows[id].call \in 1..Len(q.call) /\ Unclaimed(q, p.flows[id].call)
<1> DEFINE y == [p.flows EXCEPT ![id] = slot]
           q == [p EXCEPT !.flows = y]
<1>1. p \in Ends /\ p.flows \in [FlowIds -> Slots]
  BY DEF Sound, Ends
<1>2. y \in [FlowIds -> Slots] /\ y[id] = slot /\ \A i \in FlowIds \ {id} : y[i] = p.flows[i]
  BY <1>1
<1> HIDE DEF y
<1>3. q \in Ends
  BY <1>1, <1>2, ZenonT(30) DEF Ends
<1>4. /\ q.flows = y /\ q.strm = p.strm /\ q.acc = p.acc /\ q.hold = p.hold /\ q.call = p.call
      /\ q.bnd = p.bnd /\ q.dgm = p.dgm /\ q.drops = p.drops /\ Same(p, q)
  BY <1>1 DEF Ends, Same
<1>5. q = [p EXCEPT !.flows[id] = slot]
  BY DEF y
<1> HIDE DEF q
<1>6. Pointing(q)
  BY <1>2, <1>4, SMTT(30) DEF Sound, Pointing
<1>7. Calling(q)
  <2>1. Calling(p) /\ q.txOpen = p.txOpen
    BY <1>4, ZenonT(30) DEF Sound, Same
  <2>2. \A i \in FlowIds : q.flows[i].k \in {"requested", "bind"} => q.flows[i] = p.flows[i]
    <3>1. y[id].k \notin {"requested", "bind"}
      BY <1>2
    <3> QED
      BY <1>2, <1>4, <3>1, ZenonT(30)
  <2> QED
    BY <1>4, <2>1, <2>2, CallingKept, ZenonT(30)
<1>8. Bounded(q)
  BY <1>4 DEF Sound, Bounded, Same
<1>9. Keeps(p, q)
  BY <1>4, SMTT(30) DEF Keeps, Same
<1>10. p.flows[id].k \in {"requested", "bind"} =>
         p.flows[id].call \in 1..Len(q.call) /\ Unclaimed(q, p.flows[id].call)
  <2> SUFFICES ASSUME p.flows[id].k \in {"requested", "bind"}
               PROVE  p.flows[id].call \in 1..Len(p.call) /\ Unclaimed(q, p.flows[id].call)
    BY <1>4, ZenonT(30)
  <2>1. \A i \in FlowIds : p.flows[i].k \in {"requested", "bind"} =>
          p.flows[i].call \in 1..Len(p.call) /\ p.call[p.flows[i].call].id = i
    BY ZenonT(30) DEF Sound, Calling
  <2>2. \A i \in FlowIds : y[i].k \in {"requested", "bind"} => i # id /\ y[i] = p.flows[i]
    <3>1. y[id].k \notin {"requested", "bind"}
      BY <1>2
    <3> QED
      BY <1>2, <3>1, ZenonT(30)
  <2>3. ASSUME NEW i \in FlowIds, y[i].k \in {"requested", "bind"}
        PROVE  y[i].call # p.flows[id].call
    <3>1. i # id /\ y[i] = p.flows[i] /\ p.flows[i].k \in {"requested", "bind"}
      BY <2>2, <2>3, ZenonT(30)
    <3>2. p.call[p.flows[i].call].id = i /\ p.call[p.flows[id].call].id = id
      BY <2>1, <3>1, ZenonT(30)
    <3> QED
      BY <3>1, <3>2, ZenonT(30)
  <2>4. p.flows[id].call \in 1..Len(p.call)
    BY <2>1, ZenonT(30)
  <2> QED
    BY <1>4, <2>3, <2>4, ZenonT(30) DEF Unclaimed
<1> QED
  BY <1>3, <1>4, <1>5, <1>6, <1>7, <1>8, <1>9, <1>10, SMTT(30) DEF Sound

(* A field of a stream gets a new value. *)
LEMMA StreamSound ==
    ASSUME NEW p, Sound(p), NEW s \in 1..Len(p.strm), NEW x \in Streams
    PROVE  LET q == [p EXCEPT !.strm[s] = x] IN
           /\ Sound(q) /\ Keeps(p, q) /\ Same(p, q) /\ q.flows = p.flows /\ q.call = p.call
           /\ Len(q.strm) = Len(p.strm)
<1> DEFINE y == [p.strm EXCEPT ![s] = x]
           q == [p EXCEPT !.strm = y]
<1>1. p \in Ends /\ p.strm \in Seq(Streams)
  BY ZenonT(30) DEF Sound, Ends
<1>2. y \in Seq(Streams) /\ Len(y) = Len(p.strm)
  BY <1>1
<1> HIDE DEF y
<1>3. q \in Ends
  BY <1>1, <1>2, ZenonT(30) DEF Ends
<1>4. /\ q.flows = p.flows /\ q.strm = y /\ q.acc = p.acc /\ q.hold = p.hold /\ q.call = p.call
      /\ q.bnd = p.bnd /\ q.dgm = p.dgm /\ q.drops = p.drops /\ Same(p, q)
  BY <1>1 DEF Ends, Same
<1>5. q = [p EXCEPT !.strm[s] = x]
  BY DEF y
<1> HIDE DEF q
<1>6. Pointing(q)
  BY <1>2, <1>4 DEF Sound, Pointing
<1>7. Calling(q)
  BY <1>4, CallingSame DEF Sound, Same
<1>8. Bounded(q)
  BY <1>4 DEF Sound, Bounded, Same
<1>9. Keeps(p, q)
  BY <1>4 DEF Keeps, Same
<1> QED
  BY <1>2, <1>3, <1>4, <1>5, <1>6, <1>7, <1>8, <1>9 DEF Sound

LEMMA AddStreamSound ==
    ASSUME NEW e \in End, NEW p, Sound(p), NEW id \in FlowIds, NEW credit \in Nat, NEW peer_rwnd \in Nat,
           NEW own \in {"oneshot", "hold"}
    PROVE  LET q == AddStream(e, p, id, credit, peer_rwnd, own) IN
           /\ Sound(q) /\ Keeps(p, q) /\ Same(p, q) /\ q.call = p.call
           /\ Len(q.strm) \in 1..Len(q.strm)
           /\ p.flows[id].k \in {"requested", "bind"} =>
                p.flows[id].call \in 1..Len(q.call) /\ Unclaimed(q, p.flows[id].call)
<1> DEFINE thr == IF Threshold[e] <= peer_rwnd THEN Threshold[e] ELSE peer_rwnd
           x == [id |-> id, own |-> own, fin |-> FALSE, credit |-> credit, since |-> 0,
                 thr |-> thr, q |-> << >>, sent |-> 0, got |-> << >>]
           y == Append(p.strm, x)
           r == [p EXCEPT !.strm = y]
           slot == Established(Len(p.strm) + 1)
           q == AddStream(e, p, id, credit, peer_rwnd, own)
<1>1. p \in Ends /\ p.strm \in Seq(Streams) /\ Len(p.strm) \in Nat
  BY DEF Sound, Ends
<1>2. x \in Streams
  <2>1. thr \in Nat
    BY ConstantsAssumption
  <2>2. << >> \in Seq(Words)
    OBVIOUS
  <2> HIDE DEF thr
  <2> QED
    BY <2>1, <2>2 DEF Streams
<1>5. q = [r EXCEPT !.flows[id] = slot]
  BY <1>1 DEF AddStream, Ends
<1> HIDE DEF x
<1>3. y \in Seq(Streams) /\ Len(y) = Len(p.strm) + 1
  BY <1>1, <1>2
<1> HIDE DEF y
<1>4. Sound(r) /\ Keeps(p, r) /\ Same(p, r) /\ r.flows = p.flows /\ r.call = p.call /\ r.strm = y
  <2>1. r \in Ends
    BY <1>1, <1>3, ZenonT(30) DEF Ends
  <2>2. /\ r.flows = p.flows /\ r.strm = y /\ r.acc = p.acc /\ r.hold = p.hold /\ r.call = p.call
        /\ r.bnd = p.bnd /\ r.dgm = p.dgm /\ r.drops = p.drops /\ Same(p, r)
    BY <1>1 DEF Ends, Same
  <2> HIDE DEF r
  <2>3. Pointing(r)
    BY <1>1, <1>3, <2>2, SMTT(30) DEF Sound, Pointing
  <2>4. Calling(r)
    BY <2>2, CallingSame DEF Sound, Same
  <2>5. Bounded(r)
    BY <2>2 DEF Sound, Bounded, Same
  <2>6. Keeps(p, r)
    BY <2>2 DEF Keeps, Same
  <2> QED
    BY <2>1, <2>2, <2>3, <2>4, <2>5, <2>6 DEF Sound
<1> HIDE DEF r
<1>6. slot \in Slots /\ slot.k = "established" /\ slot.st \in 1..Len(r.strm) /\ slot.k \in {"none", "established"}
  BY <1>1, <1>3, <1>4 DEF Established, Slots
<1> HIDE DEF slot
<1>7. /\ Sound(q) /\ Keeps(r, q) /\ Same(r, q) /\ q.strm = r.strm /\ q.call = r.call
      /\ r.flows[id].k \in {"requested", "bind"} =>
           r.flows[id].call \in 1..Len(q.call) /\ Unclaimed(q, r.flows[id].call)
  <2> HIDE DEF q, r
  <2> QED
    BY <1>4, <1>5, <1>6, SlotSound, ZenonT(30)
<1> HIDE DEF q
<1>8. Keeps(p, q) /\ Same(p, q)
  BY <1>4, <1>7 DEF Keeps, Same
<1>9. Len(q.strm) \in 1..Len(q.strm)
  BY <1>1, <1>3, <1>4, <1>7, SMTT(30)
<1> QED
  BY <1>4, <1>7, <1>8, <1>9 DEF q


LEMMA KeepsTrans ==
    ASSUME NEW p, NEW q, NEW r, Keeps(p, q), Keeps(q, r)
    PROVE  Keeps(p, r)
BY DEF Keeps

LEMMA SameTrans ==
    ASSUME NEW p, NEW q, NEW r, Same(p, q), Same(q, r)
    PROVE  Same(p, r)
BY DEF Same

LEMMA SlotFacts ==
    /\ NoSlot \in Slots /\ NoSlot.k = "none"
    /\ \A slot \in Slots :
         /\ slot.k \in {"none", "requested", "bind", "established"}
         /\ slot.k = "none" => slot = NoSlot
         /\ slot.k = "established" => slot.st \in Nat /\ slot.rx \in BOOLEAN
BY DEF Slots, NoSlot

LEMMA ClosePortSound ==
    ASSUME NEW p, Sound(p), NEW id \in FlowIds, NEW inhibit_rst \in BOOLEAN
    PROVE  LET q == ClosePort(p, id, inhibit_rst) IN Sound(q) /\ Keeps(p, q) /\ Same(p, q)
<1> DEFINE slot == p.flows[id]
           r == [p EXCEPT !.flows[id] = NoSlot]
           q == ClosePort(p, id, inhibit_rst)
<1> SUFFICES Sound(q) /\ Keeps(p, q) /\ Same(p, q)
  OBVIOUS
<1>1. slot \in Slots
  BY DEF Sound, Ends
<1>2. /\ Sound(r) /\ Keeps(p, r) /\ Same(p, r) /\ r.strm = p.strm /\ r.call = p.call
      /\ slot.k \in {"requested", "bind"} => slot.call \in 1..Len(r.call) /\ Unclaimed(r, slot.call)
  BY SlotFacts, SlotSound
<1>3. q = ClosePortLocal(r, slot, id, inhibit_rst)
  BY DEF ClosePort
<1>4. slot.k = "established" => slot.st \in 1..Len(r.strm)
  BY <1>2 DEF Sound, Pointing
<1> HIDE DEF r, slot, q
<1>5. CASE slot.k = "established"
  <2> DEFINE x == [r.strm[slot.st] EXCEPT !.fin = TRUE]
             t == [r EXCEPT !.strm[slot.st] = x]
  <2>1. r.strm[slot.st] \in Streams /\ slot.st \in 1..Len(r.strm)
    <3>1. slot.st \in 1..Len(r.strm)
      BY <1>2, <1>4, <1>5, SMTT(30) DEF Sound
    <3>2. r.strm \in Seq(Streams)
      BY <1>2, <1>4 DEF Sound, Ends
    <3> QED
      BY <3>1, <3>2
  <2>2. x \in Streams
    BY <2>1, Zenon DEF Streams
  <2>3. t = [r EXCEPT !.strm[slot.st].fin = TRUE]
    OBVIOUS
  <2> HIDE DEF x
  <2>4. Sound(t) /\ Keeps(r, t) /\ Same(r, t)
    BY <1>2, <2>1, <2>2, StreamSound, SMTT(30)
  <2> HIDE DEF t
  <2>5. q = IF ~r.strm[slot.st].fin /\ ~inhibit_rst THEN Send(t, Reset(id)) ELSE t
    BY <1>3, <1>5, <2>3 DEF ClosePortLocal
  <2>6. Sound(Send(t, Reset(id))) /\ Keeps(t, Send(t, Reset(id))) /\ Same(t, Send(t, Reset(id)))
    BY <2>4, FrameTypes, SendSound
  <2>7. Sound(q) /\ (q = t \/ (Keeps(t, q) /\ Same(t, q)))
    BY <2>4, <2>5, <2>6
  <2> QED
    BY <1>2, <2>4, <2>7, KeepsTrans, SameTrans, SMTT(30)
<1>6. CASE slot.k \in {"requested", "bind"}
  <2>1. slot.call \in 1..Len(r.call) /\ Unclaimed(r, slot.call)
    BY <1>2, <1>6
  <2>2. PICK res \in {"none", "no"} : q = Oneshot(r, slot.call, res)
    BY <1>3, <1>6 DEF ClosePortLocal
  <2>3. res \in Results \ {"stream"}
    BY DEF Results
  <2>4. Sound(q) /\ Keeps(r, q) /\ Same(r, q)
    BY <1>2, <2>1, <2>2, <2>3, OneshotSound
  <2> QED
    BY <1>2, <2>4, KeepsTrans, SameTrans
<1>7. CASE slot.k = "none"
  <2>1. q = r
    BY <1>3, <1>7 DEF ClosePortLocal
  <2> QED
    BY <1>2, <2>1
<1> QED
  BY <1>1, <1>5, <1>6, <1>7, SlotFacts, SMTT(30)

-----------------------------------------------------------------------------
(* The handlers of process_frame. *)

(* What a handler may find wrong. *)
Failing(p) ==
    ~p.alive \/ ~p.txOpen \/ \E c \in 1..Len(p.call) : p.call[c].st = "cancelled"

(* A handler keeps an end sound and fails only for a reason. *)
Handles(p, q) ==
    /\ Sound(q) /\ Keeps(p, q)
    /\ q.pc = p.pc /\ q.alive = p.alive /\ q.txOpen = p.txOpen
    /\ q.err => Failing(p)

LEMMA Harmless ==
    ASSUME NEW p, NEW q, Sound(q), Keeps(p, q), Same(p, q), p.err = FALSE
    PROVE  Handles(p, q)
BY DEF Handles, Same

LEMMA HoldSound ==
    ASSUME NEW p, Sound(p), NEW h \in Holds, h.k = "stream" => h.v \in 1..Len(p.strm)
    PROVE  LET q == [p EXCEPT !.hold = h] IN
           /\ Sound(q) /\ Keeps(p, q) /\ q.pc = p.pc /\ q.err = p.err /\ q.alive = p.alive
           /\ q.txOpen = p.txOpen /\ q.srcEnd = p.srcEnd /\ q.flows = p.flows /\ q.strm = p.strm
           /\ q.call = p.call /\ q.hold = h
<1> DEFINE q == [p EXCEPT !.hold = h]
<1>1. p \in Ends
  BY DEF Sound
<1>2. q \in Ends
  BY <1>1, Zenon DEF Ends
<1>3. /\ q.flows = p.flows /\ q.strm = p.strm /\ q.acc = p.acc /\ q.hold = h /\ q.call = p.call
      /\ q.bnd = p.bnd /\ q.dgm = p.dgm /\ q.drops = p.drops
      /\ q.pc = p.pc /\ q.err = p.err /\ q.alive = p.alive /\ q.txOpen = p.txOpen /\ q.srcEnd = p.srcEnd
  BY <1>1 DEF Ends
<1> HIDE DEF q
<1>4. Pointing(q) /\ Calling(q) /\ Bounded(q)
  <2>1. Pointing(q)
    BY <1>3 DEF Sound, Pointing
  <2>2. Calling(q)
    BY <1>3, CallingSame DEF Sound
  <2>3. Bounded(q)
    BY <1>3 DEF Sound, Bounded
  <2> QED
    BY <2>1, <2>2, <2>3, SMTT(30)
<1>5. Keeps(p, q)
  BY <1>3 DEF Keeps
<1> QED
  BY <1>2, <1>3, <1>4, <1>5 DEF Sound, q


(* Other fields change, within their bounds. *)
LEMMA FieldsSound ==
    ASSUME NEW p, Sound(p), NEW q \in Ends,
           q.flows = p.flows, Len(q.strm) = Len(p.strm), q.call = p.call,
           q.txOpen = p.txOpen, q.alive = p.alive, q.pc # "run" \/ q.pc = p.pc,
           \A i \in 1..Len(q.acc) : q.acc[i] \in 1..Len(p.strm),
           q.hold.k = "stream" => q.hold.v \in 1..Len(p.strm),
           Len(q.acc) <= AcceptCap, Len(q.bnd) <= sc.bindCap, Len(q.dgm) <= DatagramCap,
           \A i \in 1..Len(q.drops) : q.drops[i] = 0 => ~p.alive
    PROVE  Sound(q) /\ Keeps(p, q)
<1>1. Pointing(q)
  BY SMTT(30) DEF Sound, Pointing
<1>2. Calling(q)
  BY CallingSame DEF Sound
<1>3. Bounded(q)
  BY DEF Sound, Bounded
<1>4. Keeps(p, q)
  BY DEF Keeps
<1> QED
  BY <1>1, <1>2, <1>3, <1>4, SMTT(30) DEF Sound

(* What is known of a sound end, field by field. *)
LEMMA SoundFields ==
    ASSUME NEW p, Sound(p)
    PROVE  /\ p \in Ends /\ p.acc \in Seq(Nat) /\ p.bnd \in Seq(FlowIds) /\ p.dgm \in Seq(Nat)
           /\ p.strm \in Seq(Streams) /\ p.call \in Seq(CallType) /\ p.drops \in Seq(FlowIds \cup {0})
           /\ \A i \in 1..Len(p.acc) : p.acc[i] \in 1..Len(p.strm)
           /\ p.hold \in Holds /\ (p.hold.k = "stream" => p.hold.v \in 1..Len(p.strm))
           /\ Len(p.acc) <= AcceptCap /\ Len(p.bnd) <= sc.bindCap /\ Len(p.dgm) <= DatagramCap
           /\ \A i \in 1..Len(p.drops) : p.drops[i] = 0 => ~p.alive
           /\ p.pc = "run" => p.txOpen
           /\ \A id \in FlowIds : p.flows[id] \in Slots
           /\ \A id \in FlowIds : p.flows[id].k = "established" => p.flows[id].st \in 1..Len(p.strm)
<1>1. p \in Ends /\ Pointing(p) /\ Bounded(p)
  BY DEF Sound
<1>2. /\ p.acc \in Seq(Nat) /\ p.bnd \in Seq(FlowIds) /\ p.dgm \in Seq(Nat)
      /\ p.strm \in Seq(Streams) /\ p.call \in Seq(CallType) /\ p.drops \in Seq(FlowIds \cup {0})
      /\ p.hold \in Holds /\ \A id \in FlowIds : p.flows[id] \in Slots
  BY <1>1 DEF Ends
<1> QED
  BY <1>1, <1>2 DEF Pointing, Bounded

LEMMA ErrSound ==
    ASSUME NEW p, Sound(p), NEW b \in BOOLEAN
    PROVE  LET q == [p EXCEPT !.err = b] IN
           /\ Sound(q) /\ Keeps(p, q) /\ q.pc = p.pc /\ q.err = b /\ q.alive = p.alive
           /\ q.txOpen = p.txOpen /\ q.hold = p.hold /\ q.strm = p.strm /\ q.call = p.call
<1> DEFINE q == [p EXCEPT !.err = b]
<1>1. p \in Ends
  BY DEF Sound
<1>2. q \in Ends
  BY <1>1, ZenonT(30) DEF Ends
<1>3. /\ q.flows = p.flows /\ q.strm = p.strm /\ q.acc = p.acc /\ q.hold = p.hold /\ q.call = p.call
      /\ q.bnd = p.bnd /\ q.dgm = p.dgm /\ q.drops = p.drops
      /\ q.pc = p.pc /\ q.err = b /\ q.alive = p.alive /\ q.txOpen = p.txOpen
  BY <1>1 DEF Ends
<1> HIDE DEF q
<1>4. Sound(q) /\ Keeps(p, q)
  BY <1>2, <1>3, SoundFields, FieldsSound, ZenonT(30)
<1> QED
  BY <1>3, <1>4 DEF q

LEMMA OfferStreamHandles ==
    ASSUME NEW p, Sound(p), NEW s \in 1..Len(p.strm), p.err = FALSE
    PROVE  Handles(p, OfferStream(p, s))
<1>0. NoHold \in Holds /\ NoHold.k # "stream"
  BY DEF Holds, NoHold
<1>1. CASE ~p.alive
  <2> DEFINE d == DropStream(p, s)  x == [d EXCEPT !.err = TRUE]  q == [x EXCEPT !.hold = NoHold]
  <2>1. Sound(d) /\ Keeps(p, d) /\ Same(p, d)
    BY DropStreamSound
  <2> HIDE DEF d
  <2>2. Sound(x) /\ Keeps(d, x) /\ x.pc = d.pc /\ x.alive = d.alive /\ x.txOpen = d.txOpen
    BY <2>1, ErrSound, Zenon
  <2> HIDE DEF x
  <2>3. Sound(q) /\ Keeps(x, q) /\ q.pc = x.pc /\ q.alive = x.alive /\ q.txOpen = x.txOpen
    BY <1>0, <2>2, HoldSound, ZenonT(30)
  <2>4. OfferStream(p, s) = q
    BY <1>1 DEF OfferStream, x, d
  <2> HIDE DEF q
  <2>5. Keeps(p, q)
    BY <2>1, <2>2, <2>3, KeepsTrans
  <2>6. Handles(p, q)
    BY <1>1, <2>1, <2>2, <2>3, <2>5, SMTT(30) DEF Handles, Same, Failing
  <2> QED
    BY <2>4, <2>6
<1>2. CASE p.alive /\ Len(p.acc) < AcceptCap
  <2> DEFINE a == Append(p.acc, s)
             x == [p EXCEPT !.acc = a]
             y == [p.strm[s] EXCEPT !.own = "queue"]
             z == [x EXCEPT !.strm[s] = y]
             q == [z EXCEPT !.hold = NoHold]
  <2>1. p \in Ends /\ p.acc \in Seq(Nat) /\ p.strm[s] \in Streams /\ s \in Nat
    BY SoundFields
  <2>2. a \in Seq(Nat) /\ Len(a) = Len(p.acc) + 1 /\ \A i \in 1..Len(a) : a[i] \in 1..Len(p.strm)
    BY <2>1, SoundFields
  <2> HIDE DEF a
  <2>3. x \in Ends
    BY <2>1, <2>2, ZenonT(30) DEF Ends
  <2>4. /\ x.flows = p.flows /\ x.strm = p.strm /\ x.acc = a /\ x.hold = p.hold /\ x.call = p.call
        /\ x.bnd = p.bnd /\ x.dgm = p.dgm /\ x.drops = p.drops
        /\ x.pc = p.pc /\ x.err = p.err /\ x.alive = p.alive /\ x.txOpen = p.txOpen
    BY <2>1 DEF Ends
  <2> HIDE DEF x
  <2>5. Len(a) <= AcceptCap
    BY <1>2, <2>1, <2>2, ConstantsAssumption
  <2>6. Sound(x) /\ Keeps(p, x)
    BY <2>2, <2>3, <2>4, <2>5, SoundFields, FieldsSound, ZenonT(30)
  <2>7. y \in Streams
    BY <2>1, Zenon DEF Streams
  <2>8. OfferStream(p, s) = [[x EXCEPT !.strm[s].own = "queue"] EXCEPT !.hold = NoHold]
    BY <1>2 DEF OfferStream, x, a
  <2>9. OfferStream(p, s) = q
    BY <2>4, <2>8
  <2> HIDE DEF y
  <2>10. Sound(z) /\ Keeps(x, z) /\ Same(x, z)
    BY <2>4, <2>6, <2>7, StreamSound, ZenonT(30)
  <2> HIDE DEF z
  <2>11. Sound(q) /\ Keeps(z, q) /\ q.pc = z.pc /\ q.alive = z.alive /\ q.txOpen = z.txOpen /\ q.err = z.err
    BY <1>0, <2>10, HoldSound
  <2> HIDE DEF q
  <2>12. Keeps(p, q)
    BY <2>6, <2>10, <2>11, KeepsTrans, SMTT(30)
  <2>13. Handles(p, q)
    BY <2>4, <2>10, <2>11, <2>12, SMTT(30) DEF Handles, Same
  <2> QED
    BY <2>9, <2>13
<1>3. CASE p.alive /\ ~(Len(p.acc) < AcceptCap)
  <2> DEFINE h == [k |-> "stream", v |-> s]  q == [p EXCEPT !.hold = h]
  <2>1. h \in Holds /\ (h.k = "stream" => h.v \in 1..Len(p.strm))
    BY DEF Holds
  <2>2. OfferStream(p, s) = q
    BY <1>3 DEF OfferStream
  <2> HIDE DEF h
  <2>3. Sound(q) /\ Keeps(p, q) /\ q.pc = p.pc /\ q.alive = p.alive /\ q.txOpen = p.txOpen /\ q.err = p.err
    BY <2>1, HoldSound
  <2> HIDE DEF q
  <2>4. Handles(p, q)
    BY <2>3 DEF Handles
  <2> QED
    BY <2>2, <2>4
<1> QED
  BY <1>1, <1>2, <1>3


LEMMA HandlesAfter ==
    ASSUME NEW p, NEW q, NEW r, Keeps(p, q), Same(p, q), q.call = p.call, Handles(q, r)
    PROVE  Handles(p, r)
<1>1. Keeps(p, r)
  BY KeepsTrans DEF Handles
<1>2. Failing(q) => Failing(p)
  BY DEF Failing, Same
<1> QED
  BY <1>1, <1>2 DEF Handles, Same

LEMMA MessageFields ==
    ASSUME NEW f \in Messages
    PROVE  /\ f.op \in {"Connect", "Acknowledge", "Finish", "Reset", "Bind", "Push"} => f.id \in FlowIds
           /\ f.op \in {"Connect", "Acknowledge", "Datagram"} => f.v \in Nat
           /\ f.op = "Push" => f.v \in Words
           /\ f.op = "Close" <=> f = Close
BY DEF Messages, Frames, Close

LEMMA OfferBindHandles ==
    ASSUME NEW p, Sound(p), NEW id \in FlowIds, p.err = FALSE, sc.bindCap \in Nat
    PROVE  Handles(p, OfferBind(p, id))
<1>0. NoHold \in Holds /\ NoHold.k # "stream"
  BY DEF Holds, NoHold
<1>1. CASE ~p.alive
  <2> DEFINE d == Send(p, Reset(id))  q == [d EXCEPT !.hold = NoHold]
  <2>1. Sound(d) /\ Keeps(p, d) /\ Same(p, d) /\ d.call = p.call
    BY FrameTypes, SendSound
  <2>2. OfferBind(p, id) = q
    BY <1>1 DEF OfferBind
  <2> HIDE DEF d
  <2>3. Sound(q) /\ Keeps(d, q) /\ q.pc = d.pc /\ q.alive = d.alive /\ q.txOpen = d.txOpen /\ q.err = d.err
    BY <1>0, <2>1, HoldSound
  <2> HIDE DEF q
  <2>4. Keeps(p, q)
    BY <2>1, <2>3, KeepsTrans
  <2>5. Handles(p, q)
    BY <2>1, <2>3, <2>4, SMTT(30) DEF Handles, Same
  <2> QED
    BY <2>2, <2>5
<1>2. CASE p.alive /\ Len(p.bnd) < sc.bindCap
  <2> DEFINE b == Append(p.bnd, id)
             x == [p EXCEPT !.bnd = b]
             q == [x EXCEPT !.hold = NoHold]
  <2>1. p \in Ends /\ p.bnd \in Seq(FlowIds)
    BY SoundFields
  <2>2. b \in Seq(FlowIds) /\ Len(b) = Len(p.bnd) + 1 /\ Len(p.bnd) \in Nat
    BY <2>1
  <2>3. OfferBind(p, id) = q
    BY <1>2 DEF OfferBind
  <2> HIDE DEF b
  <2>4. x \in Ends
    BY <2>1, <2>2, ZenonT(30) DEF Ends
  <2>5. /\ x.flows = p.flows /\ x.strm = p.strm /\ x.acc = p.acc /\ x.hold = p.hold /\ x.call = p.call
        /\ x.bnd = b /\ x.dgm = p.dgm /\ x.drops = p.drops
        /\ x.pc = p.pc /\ x.err = p.err /\ x.alive = p.alive /\ x.txOpen = p.txOpen
    BY <2>1 DEF Ends
  <2> HIDE DEF x
  <2>6. Len(b) <= sc.bindCap
    BY <1>2, <2>2
  <2>7. Sound(x) /\ Keeps(p, x)
    BY <2>4, <2>5, <2>6, SoundFields, FieldsSound, ZenonT(30)
  <2>8. Sound(q) /\ Keeps(x, q) /\ q.pc = x.pc /\ q.alive = x.alive /\ q.txOpen = x.txOpen /\ q.err = x.err
    BY <1>0, <2>7, HoldSound
  <2> HIDE DEF q
  <2>9. Keeps(p, q)
    BY <2>7, <2>8, KeepsTrans, SMTT(30)
  <2>10. Handles(p, q)
    BY <2>5, <2>8, <2>9, SMTT(30) DEF Handles
  <2> QED
    BY <2>3, <2>10
<1>3. CASE p.alive /\ ~(Len(p.bnd) < sc.bindCap)
  <2> DEFINE h == [k |-> "bind", v |-> id]  q == [p EXCEPT !.hold = h]
  <2>1. h \in Holds /\ h.k # "stream"
    BY DEF Holds
  <2>2. OfferBind(p, id) = q
    BY <1>3 DEF OfferBind
  <2> HIDE DEF h
  <2>3. Sound(q) /\ Keeps(p, q) /\ q.pc = p.pc /\ q.alive = p.alive /\ q.txOpen = p.txOpen /\ q.err = p.err
    BY <2>1, HoldSound
  <2> HIDE DEF q
  <2>4. Handles(p, q)
    BY <2>3 DEF Handles
  <2> QED
    BY <2>2, <2>4
<1> QED
  BY <1>1, <1>2, <1>3

(* A call gets a new value. *)
LEMMA CallSound ==
    ASSUME NEW p, Sound(p), NEW c \in 1..Len(p.call), NEW x \in CallType,
           x.res = "stream" => x.s \in 1..Len(p.strm),
           p.call[c].st = "cancelled" => x.st = "cancelled",
           \/ Unclaimed(p, c)
           \/ /\ x.id = p.call[c].id
              /\ x.st \in {"send", "wait", "cancelled", "closed"}
              /\ x.st \in {"send", "wait"} => x.res = "empty"
              /\ x.st = "closed" => ~p.txOpen
    PROVE  LET q == [p EXCEPT !.call[c] = x] IN
           /\ Sound(q) /\ Keeps(p, q) /\ Same(p, q) /\ q.flows = p.flows /\ q.strm = p.strm
<1> DEFINE y == [p.call EXCEPT ![c] = x]
           q == [p EXCEPT !.call = y]
<1>1. p \in Ends /\ p.call \in Seq(CallType)
  BY ZenonT(30) DEF Sound, Ends
<1>2. y \in Seq(CallType) /\ Len(y) = Len(p.call) /\ y[c] = x
      /\ \A i \in 1..Len(p.call) : i # c => y[i] = p.call[i]
  BY <1>1
<1>3. q = [p EXCEPT !.call[c] = x]
  OBVIOUS
<1> HIDE DEF y
<1>4. q \in Ends
  BY <1>1, <1>2, ZenonT(60) DEF Ends
<1>5. /\ q.flows = p.flows /\ q.strm = p.strm /\ q.acc = p.acc /\ q.hold = p.hold /\ q.call = y
      /\ q.bnd = p.bnd /\ q.dgm = p.dgm /\ q.drops = p.drops /\ Same(p, q)
  BY <1>1, SMTT(30) DEF Ends, Same
<1> HIDE DEF q
<1>6. Pointing(q)
  BY <1>2, <1>5, ZenonT(30) DEF Sound, Pointing
<1>7. Calling(q)
  <2> SUFFICES ASSUME NEW id \in FlowIds, p.flows[id].k \in {"requested", "bind"}
               PROVE  /\ p.flows[id].call \in 1..Len(y)
                      /\ y[p.flows[id].call].id = id
                      /\ y[p.flows[id].call].st \in {"send", "wait", "cancelled", "closed"}
                      /\ y[p.flows[id].call].st \in {"send", "wait"} => y[p.flows[id].call].res = "empty"
                      /\ y[p.flows[id].call].st = "closed" => ~p.txOpen
    <3>1. q.flows = p.flows /\ q.call = y /\ q.txOpen = p.txOpen
      BY <1>5, ZenonT(30) DEF Same
    <3> QED
      BY <3>1, CallingMeans
  <2> DEFINE d == p.flows[id].call
  <2>1. /\ d \in 1..Len(p.call) /\ p.call[d].id = id
        /\ p.call[d].st \in {"send", "wait", "cancelled", "closed"}
        /\ p.call[d].st \in {"send", "wait"} => p.call[d].res = "empty"
        /\ p.call[d].st = "closed" => ~p.txOpen
    BY ZenonT(30) DEF Sound, Calling
  <2>2. Unclaimed(p, c) => d # c
    BY DEF Unclaimed
  <2> HIDE DEF d
  <2>3. /\ d \in 1..Len(y) /\ y[d].id = id
        /\ y[d].st \in {"send", "wait", "cancelled", "closed"}
        /\ y[d].st \in {"send", "wait"} => y[d].res = "empty"
        /\ y[d].st = "closed" => ~p.txOpen
    <3>1. CASE d = c
      BY <1>2, <2>1, <2>2, <3>1, SMTT(30)
    <3>2. CASE d # c
      BY <1>2, <2>1, <3>2, ZenonT(30)
    <3> QED
      BY <3>1, <3>2, SMTT(30)
  <2> QED
    BY <2>3, ZenonT(30) DEF d
<1>8. Bounded(q)
  BY <1>5 DEF Sound, Bounded, Same
<1>9. Keeps(p, q)
  BY <1>2, <1>5 DEF Keeps, Same
<1> QED
  BY <1>3, <1>4, <1>5, <1>6, <1>7, <1>8, <1>9, SMTT(30) DEF Sound


LEMMA StreamValues ==
    ASSUME NEW t \in Streams
    PROVE  /\ t.credit \in Nat /\ t.since \in Nat /\ t.sent \in Nat /\ t.id \in FlowIds
           /\ t.q \in Seq(Words) /\ t.got \in Seq(Words) /\ t.thr \in Nat
BY DEF Streams

(* A stream stays one when a field of it is assigned. *)
LEMMA StreamFields ==
    ASSUME NEW t \in Streams
    PROVE  /\ \A n \in Nat : [t EXCEPT !.credit = n] \in Streams /\ [t EXCEPT !.since = n] \in Streams
           /\ \A n \in Nat : [t EXCEPT !.sent = n] \in Streams
           /\ \A o \in {"user", "queue", "gone"} : [t EXCEPT !.own = o] \in Streams
           /\ \A w \in Seq(Words) : [t EXCEPT !.q = w] \in Streams /\ [t EXCEPT !.got = w] \in Streams
           /\ [t EXCEPT !.fin = TRUE] \in Streams
<1>2. \A n \in Nat : [t EXCEPT !.credit = n] \in Streams
  BY Zenon DEF Streams
<1>3. \A n \in Nat : [t EXCEPT !.since = n] \in Streams
  BY Zenon DEF Streams
<1>4. \A n \in Nat : [t EXCEPT !.sent = n] \in Streams
  BY Zenon DEF Streams
<1>5. \A o \in {"user", "queue", "gone"} : [t EXCEPT !.own = o] \in Streams
  BY ZenonT(30) DEF Streams
<1>6. \A w \in Seq(Words) : [t EXCEPT !.q = w] \in Streams
  BY ZenonT(30) DEF Streams
<1>7. \A w \in Seq(Words) : [t EXCEPT !.got = w] \in Streams
  BY ZenonT(30) DEF Streams
<1>8. [t EXCEPT !.fin = TRUE] \in Streams
  BY Zenon DEF Streams
<1> QED
  BY <1>2, <1>3, <1>4, <1>5, <1>6, <1>7, <1>8, SMTT(30)

LEMMA SendHandles ==
    ASSUME NEW p, Sound(p), p.err = FALSE, NEW f \in Frames
    PROVE  Handles(p, Send(p, f))
BY SendSound, Harmless, ZenonT(30)

LEMMA ConnectHandles ==
    ASSUME NEW e \in End, NEW p, Sound(p), p.err = FALSE, NEW f, f.id \in FlowIds, f.v \in Nat
    PROVE  Handles(p, ProcessConnect(e, p, f))
<1>1. CASE p.flows[f.id] # NoSlot
  <2>1. ProcessConnect(e, p, f) = Send(p, Reset(f.id)) /\ Reset(f.id) \in Frames
    BY <1>1, FrameTypes DEF ProcessConnect
  <2> QED
    BY <2>1, SendHandles, Zenon
<1>2. CASE p.flows[f.id] = NoSlot
  <2> DEFINE q == NewStream(e, p, f.id, f.v, "hold")
             s == Len(q.strm)
             a == Ack(f.id, Rwnd[e])
             r == Send(q, a)
             d == DropStream(q, s)
             x == [d EXCEPT !.err = TRUE]
  <2>1. Sound(q) /\ Keeps(p, q) /\ Same(p, q) /\ q.call = p.call /\ s \in 1..Len(q.strm)
    BY AddStreamSound DEF NewStream
  <2>2. ProcessConnect(e, p, f) = IF q.txOpen THEN OfferStream(r, s) ELSE x
    BY <1>2, SMTT(30) DEF ProcessConnect
  <2> HIDE DEF q, s
  <2>3. a \in Frames
    BY FrameTypes, ConstantsAssumption
  <2> HIDE DEF a
  <2>4. CASE q.txOpen
    <3>1. Sound(r) /\ Keeps(q, r) /\ Same(q, r) /\ r.call = q.call /\ r.strm = q.strm
      BY <2>1, <2>3, SendSound, SMTT(30)
    <3>2. r.err = FALSE
      BY <2>1, <3>1 DEF Same
    <3> HIDE DEF r
    <3>3. Handles(r, OfferStream(r, s))
      BY <2>1, <3>1, <3>2, OfferStreamHandles, ZenonT(30)
    <3>4. Keeps(p, r) /\ Same(p, r) /\ r.call = p.call
      BY <2>1, <3>1, KeepsTrans, SameTrans, SMTT(30)
    <3>5. Handles(p, OfferStream(r, s))
      BY <3>3, <3>4, HandlesAfter
    <3> QED
      BY <2>2, <2>4, <3>5, SMTT(30)
  <2>5. CASE ~q.txOpen
    <3>1. Sound(d) /\ Keeps(q, d) /\ Same(q, d) /\ d.call = q.call
      BY <2>1, DropStreamSound
    <3> HIDE DEF d
    <3>2. Sound(x) /\ Keeps(d, x) /\ x.pc = d.pc /\ x.alive = d.alive /\ x.txOpen = d.txOpen
      BY <3>1, ErrSound, ZenonT(60)
    <3> HIDE DEF x
    <3>3. Keeps(p, x)
      BY <2>1, <3>1, <3>2, KeepsTrans, SMTT(30)
    <3>4. Handles(p, x)
      BY <2>1, <2>5, <3>1, <3>2, <3>3, SMTT(30) DEF Handles, Same, Failing
    <3> QED
      BY <2>2, <2>5, <3>4, SMTT(30)
  <2> QED
    BY <2>4, <2>5, SMTT(30)
<1> QED
  BY <1>1, <1>2

LEMMA AckNewStreamHandles ==
    ASSUME NEW e \in End, NEW p, Sound(p), p.err = FALSE, NEW f, f.id \in FlowIds, f.v \in Nat,
           p.flows[f.id].k = "requested"
    PROVE  Handles(p, AckRecvNewStream(e, p, f))
<1> DEFINE c == p.flows[f.id].call
           q == NewStream(e, p, f.id, f.v, "oneshot")
           s == Len(q.strm)
           w == [q.call[c] EXCEPT !.res = "stream"]
           y == [w EXCEPT !.s = s]
           o == [q EXCEPT !.call[c] = y]
           d == DropStream(q, s)
           x == [d EXCEPT !.err = TRUE]
<1>1. /\ Sound(q) /\ Keeps(p, q) /\ Same(p, q) /\ q.call = p.call /\ s \in 1..Len(q.strm)
      /\ c \in 1..Len(q.call) /\ Unclaimed(q, c)
  BY AddStreamSound, SMTT(30) DEF NewStream
<1>2. /\ p.call[c].st \in {"send", "wait", "cancelled", "closed"}
      /\ p.call[c].st = "closed" => ~p.txOpen
  BY Zenon DEF Sound, Calling
<1>3. AckRecvNewStream(e, p, f) =
        IF Pending(p.call[c]) THEN [Oneshot(q, c, "stream") EXCEPT !.call[c].s = s] ELSE x
  BY DEF AckRecvNewStream
<1> HIDE DEF q, s, c
<1>4. CASE Pending(p.call[c])
  <2>1. q.call[c] \in CallType /\ q \in Ends /\ q.call \in Seq(CallType)
    BY <1>1, SoundFields
  <2>2. w \in CallType /\ w.st = q.call[c].st /\ w.res = "stream"
    BY <2>1, Zenon DEF CallType, Results
  <2>3. [Oneshot(q, c, "stream") EXCEPT !.call[c].s = s] = o
    <3>1. Oneshot(q, c, "stream") = [q EXCEPT !.call[c] = w]
      BY <1>1, <1>4 DEF Oneshot
    <3> HIDE DEF w
    <3>2. [q EXCEPT !.call[c] = w].call[c] = w /\ [q EXCEPT !.call[c] = w].call = [q.call EXCEPT ![c] = w]
      BY <1>1, <2>1, SMTT(30) DEF Ends
    <3> DEFINE u == [q.call EXCEPT ![c] = w]
               z == [u EXCEPT ![c] = y]
    <3>3. [[q EXCEPT !.call[c] = w] EXCEPT !.call[c].s = s] = [[q EXCEPT !.call = u] EXCEPT !.call = z]
      BY <3>2, Zenon
    <3>4. z = [q.call EXCEPT ![c] = y]
      BY <1>1, <2>1, SMTT(30)
    <3> HIDE DEF u, z, y
    <3>5. [[q EXCEPT !.call = u] EXCEPT !.call = z] = [q EXCEPT !.call = z]
      BY <2>1, Zenon DEF Ends
    <3> QED
      BY <3>1, <3>3, <3>4, <3>5, ZenonT(30)
  <2> HIDE DEF w
  <2>4. y \in CallType /\ y.st = q.call[c].st /\ y.res = "stream" /\ y.s \in 1..Len(q.strm)
    BY <1>1, <2>2, SMTT(30) DEF CallType
  <2> HIDE DEF y
  <2>5. Sound(o) /\ Keeps(q, o) /\ Same(q, o)
    BY <1>1, <2>4, CallSound, ZenonT(30)
  <2> HIDE DEF o
  <2>6. Keeps(p, o) /\ Same(p, o)
    BY <1>1, <2>5, KeepsTrans, SameTrans
  <2>7. Handles(p, o)
    BY <2>5, <2>6, Harmless, ZenonT(30)
  <2> QED
    BY <1>3, <1>4, <2>3, <2>7, SMTT(30)
<1>5. CASE ~Pending(p.call[c])
  <2>1. Sound(d) /\ Keeps(q, d) /\ Same(q, d)
    BY <1>1, DropStreamSound
  <2> HIDE DEF d
  <2>2. Sound(x) /\ Keeps(d, x) /\ x.pc = d.pc /\ x.alive = d.alive /\ x.txOpen = d.txOpen
    BY <2>1, ErrSound, ZenonT(30)
  <2> HIDE DEF x
  <2>3. Keeps(p, x)
    BY <1>1, <2>1, <2>2, KeepsTrans, SMTT(30)
  <2>4. Failing(p)
    BY <1>1, <1>2, <1>5, SMTT(30) DEF Failing, Pending
  <2>5. Handles(p, x)
    BY <1>1, <2>1, <2>2, <2>3, <2>4, SMTT(30) DEF Handles, Same
  <2> QED
    BY <1>3, <1>5, <2>5, SMTT(30)
<1> QED
  BY <1>4, <1>5, SMTT(30)


LEMMA AcknowledgeHandles ==
    ASSUME NEW e \in End, NEW p, Sound(p), p.err = FALSE, NEW f, f.id \in FlowIds, f.v \in Nat
    PROVE  Handles(p, ProcessAcknowledge(e, p, f))
<1> DEFINE slot == p.flows[f.id]
<1>1. slot \in Slots /\ (slot.k = "established" => slot.st \in 1..Len(p.strm))
  BY ZenonT(30) DEF Sound, Ends, Pointing
<1>2. CASE slot.k = "established"
  <2> DEFINE t == p.strm[slot.st]
             n == t.credit + f.v
             x == [t EXCEPT !.credit = n]
             q == [p EXCEPT !.strm[slot.st] = x]
  <2>1. t \in Streams
    BY <1>1, <1>2, SoundFields
  <2>2. ProcessAcknowledge(e, p, f) = q
    BY <1>2 DEF ProcessAcknowledge
  <2> HIDE DEF t
  <2>3. n \in Nat
    BY <2>1, StreamValues
  <2> HIDE DEF n
  <2>4. x \in Streams
    BY <2>1, <2>3, StreamFields, ZenonT(30)
  <2> HIDE DEF x
  <2>5. Sound(q) /\ Keeps(p, q) /\ Same(p, q)
    BY <1>1, <1>2, <2>4, StreamSound, SMTT(30)
  <2> QED
    BY <2>2, <2>5, Harmless, Zenon
<1>3. CASE slot.k = "requested"
  BY <1>3, AckNewStreamHandles, ZenonT(30) DEF ProcessAcknowledge
<1>4. CASE slot.k \notin {"established", "requested"}
  <2>1. ProcessAcknowledge(e, p, f) = Send(p, Reset(f.id)) /\ Reset(f.id) \in Frames
    BY <1>4, FrameTypes, ZenonT(30) DEF ProcessAcknowledge
  <2> QED
    BY <2>1, SendHandles, Zenon
<1> QED
  BY <1>2, <1>3, <1>4, SMTT(30)

LEMMA FinishHandles ==
    ASSUME NEW p, Sound(p), p.err = FALSE, NEW f, f.id \in FlowIds
    PROVE  Handles(p, ProcessFinish(p, f))
<1> DEFINE slot == p.flows[f.id]
           r == [p EXCEPT !.flows[f.id] = NoSlot]
<1>0. slot \in Slots /\ (slot.k = "established" => slot.st \in 1..Len(p.strm)) /\ p \in Ends
  BY ZenonT(30) DEF Sound, Ends, Pointing
<1>1. /\ Sound(r) /\ Keeps(p, r) /\ Same(p, r)
      /\ slot.k \in {"requested", "bind"} => slot.call \in 1..Len(r.call) /\ Unclaimed(r, slot.call)
  BY SlotSound, SlotFacts, ZenonT(30)
<1>2. Reset(f.id) \in Frames
  BY FrameTypes
<1>3. CASE slot.k = "none"
  <2>1. ProcessFinish(p, f) = Send(p, Reset(f.id))
    BY <1>3 DEF ProcessFinish
  <2> QED
    BY <1>2, <2>1, SendHandles, ZenonT(30)
<1>4. CASE slot.k = "bind"
  <2> DEFINE o == Oneshot(r, slot.call, "yes")
  <2>1. ProcessFinish(p, f) = o
    BY <1>4 DEF ProcessFinish
  <2>2. "yes" \in Results \ {"stream"}
    BY SMTT(30) DEF Results
  <2> HIDE DEF r
  <2>3. Sound(o) /\ Keeps(r, o) /\ Same(r, o)
    BY <1>1, <1>4, <2>2, OneshotSound, ZenonT(30)
  <2> HIDE DEF o
  <2>4. Keeps(p, o) /\ Same(p, o)
    BY <1>1, <2>3, KeepsTrans, SameTrans, SMTT(30)
  <2> QED
    BY <2>1, <2>3, <2>4, Harmless, ZenonT(60)
<1>5. CASE slot.k = "requested"
  <2> DEFINE o == Oneshot(r, slot.call, "dropped")
             z == Send(o, Reset(f.id))
  <2>1. ProcessFinish(p, f) = z
    BY <1>5 DEF ProcessFinish
  <2>2. "dropped" \in Results \ {"stream"}
    BY SMTT(30) DEF Results
  <2> HIDE DEF r
  <2>3. Sound(o) /\ Keeps(r, o) /\ Same(r, o)
    BY <1>1, <1>5, <2>2, OneshotSound, ZenonT(30)
  <2> HIDE DEF o
  <2>4. Sound(z) /\ Keeps(o, z) /\ Same(o, z)
    BY <1>2, <2>3, SendSound, SMTT(30)
  <2> HIDE DEF z
  <2>5. Keeps(p, z) /\ Same(p, z)
    BY <1>1, <2>3, <2>4, KeepsTrans, SameTrans, ZenonT(30)
  <2> QED
    BY <2>1, <2>4, <2>5, Harmless, Zenon
<1>6. CASE slot.k = "established"
  <2> DEFINE x == [slot EXCEPT !.rx = FALSE]
             q == [p EXCEPT !.flows[f.id] = x]
  <2>1. x \in Slots /\ x.k = "established" /\ x.st = slot.st
    BY <1>0, <1>6, Zenon DEF Slots, NoSlot
  <2>2. ProcessFinish(p, f) = q
    BY <1>6 DEF ProcessFinish
  <2> HIDE DEF x
  <2>3. Sound(q) /\ Keeps(p, q) /\ Same(p, q)
    BY <1>0, <1>6, <2>1, SlotSound, SMTT(30)
  <2> QED
    BY <2>2, <2>3, Harmless, ZenonT(30)
<1> QED
  BY <1>0, <1>3, <1>4, <1>5, <1>6, SlotFacts, ZenonT(30)

LEMMA PushHandles ==
    ASSUME NEW e \in End, NEW p, Sound(p), p.err = FALSE, NEW f, f.id \in FlowIds, f.v \in Words
    PROVE  Handles(p, ProcessPush(e, p, f))
<1> DEFINE slot == p.flows[f.id]
           s == slot.st
<1>1. slot.k = "established" => s \in 1..Len(p.strm)
  BY ZenonT(30) DEF Sound, Ends, Pointing
<1>2. CASE ~(slot.k = "established" /\ slot.rx)
  <2>1. ProcessPush(e, p, f) = Send(p, Reset(f.id)) /\ Reset(f.id) \in Frames
    BY <1>2, FrameTypes, ZenonT(30) DEF ProcessPush
  <2> QED
    BY <2>1, SendHandles, ZenonT(60)
<1>3. CASE slot.k = "established" /\ slot.rx
  <2>1. CASE p.strm[s].own = "gone"
    <3>1. ProcessPush(e, p, f) = p
      BY <1>3, <2>1, ZenonT(30) DEF ProcessPush
    <3>2. Keeps(p, p) /\ Same(p, p)
      BY DEF Keeps, Same
    <3> QED
      BY <3>1, <3>2, Harmless, ZenonT(30)
  <2>2. CASE p.strm[s].own # "gone" /\ Len(p.strm[s].q) >= Rwnd[e]
    <3>1. ProcessPush(e, p, f) = ClosePort(p, f.id, FALSE)
      BY <1>3, <2>2, ZenonT(30) DEF ProcessPush
    <3>2. LET q == ClosePort(p, f.id, FALSE) IN Sound(q) /\ Keeps(p, q) /\ Same(p, q)
      BY ClosePortSound, Zenon
    <3> QED
      BY <3>1, <3>2, Harmless, ZenonT(30)
  <2>3. CASE p.strm[s].own # "gone" /\ ~(Len(p.strm[s].q) >= Rwnd[e])
    <3> DEFINE t == p.strm[s]
               w == Append(t.q, f.v)
               x == [t EXCEPT !.q = w]
               q == [p EXCEPT !.strm[s] = x]
    <3>1. t \in Streams
      BY <1>1, <1>3, SoundFields, SMTT(30)
    <3>2. ProcessPush(e, p, f) = q
      BY <1>3, <2>3, ZenonT(30) DEF ProcessPush
    <3> HIDE DEF t
    <3>3. w \in Seq(Words)
      BY <3>1, StreamValues
    <3> HIDE DEF w
    <3>4. x \in Streams
      BY <3>1, <3>3, StreamFields, ZenonT(30)
    <3> HIDE DEF x
    <3>5. Sound(q) /\ Keeps(p, q) /\ Same(p, q)
      BY <1>1, <1>3, <3>4, StreamSound, SMTT(30)
    <3> QED
      BY <3>2, <3>5, Harmless, ZenonT(60)
  <2> QED
    BY <2>1, <2>2, <2>3, ZenonT(30)
<1> QED
  BY <1>2, <1>3, SMTT(30)

LEMMA BindHandles ==
    ASSUME NEW p, Sound(p), p.err = FALSE, sc.bindCap \in Nat, NEW f, f.id \in FlowIds
    PROVE  Handles(p, ProcessBind(p, f))
<1>1. CASE sc.bindCap = 0
  <2>1. ProcessBind(p, f) = Send(p, Reset(f.id)) /\ Reset(f.id) \in Frames
    BY <1>1, FrameTypes DEF ProcessBind
  <2> QED
    BY <2>1, SendHandles, ZenonT(30)
<1>2. CASE sc.bindCap # 0 /\ p.pc # "run"
  <2>1. ProcessBind(p, f) = p /\ Keeps(p, p) /\ Same(p, p)
    BY <1>2 DEF ProcessBind, Keeps, Same
  <2> QED
    BY <2>1, Harmless, ZenonT(30)
<1>3. CASE sc.bindCap # 0 /\ p.pc = "run"
  <2>1. ProcessBind(p, f) = OfferBind(p, f.id)
    BY <1>3 DEF ProcessBind
  <2> QED
    BY <2>1, OfferBindHandles, Zenon
<1> QED
  BY <1>1, <1>2, <1>3

LEMMA DatagramHandles ==
    ASSUME NEW p, Sound(p), p.err = FALSE, NEW f, f.v \in Nat
    PROVE  Handles(p, ProcessDatagram(p, f))
<1>1. CASE ~p.alive
  <2> DEFINE q == [p EXCEPT !.err = TRUE]
  <2>1. ProcessDatagram(p, f) = q
    BY <1>1 DEF ProcessDatagram
  <2>2. Sound(q) /\ Keeps(p, q) /\ q.pc = p.pc /\ q.alive = p.alive /\ q.txOpen = p.txOpen
    BY ErrSound, Zenon
  <2> QED
    BY <1>1, <2>1, <2>2 DEF Handles, Failing
<1>2. CASE p.alive /\ Len(p.dgm) < DatagramCap
  <2> DEFINE y == Append(p.dgm, f.v)
             q == [p EXCEPT !.dgm = y]
  <2>0. ProcessDatagram(p, f) = q
    BY <1>2, SMTT(30) DEF ProcessDatagram
  <2>1. p \in Ends /\ y \in Seq(Nat) /\ Len(y) <= DatagramCap
    BY <1>2, SoundFields, ConstantsAssumption
  <2> HIDE DEF y
  <2>2. /\ q \in Ends /\ Same(p, q) /\ q.flows = p.flows /\ q.strm = p.strm /\ q.call = p.call
        /\ q.acc = p.acc /\ q.bnd = p.bnd /\ q.dgm = y /\ q.drops = p.drops
    BY <2>1, ZenonT(30) DEF Ends, Same
  <2> HIDE DEF q
  <2>3. Sound(q) /\ Keeps(p, q)
    BY <2>1, <2>2, SoundFields, FieldsSound, ZenonT(30) DEF Same
  <2> QED
    BY <2>0, <2>2, <2>3, Harmless, ZenonT(30)
<1>3. CASE p.alive /\ ~(Len(p.dgm) < DatagramCap)
  <2>1. ProcessDatagram(p, f) = p /\ Keeps(p, p) /\ Same(p, p)
    BY <1>3, SMTT(30) DEF ProcessDatagram, Keeps, Same
  <2> QED
    BY <2>1, Harmless, Zenon
<1> QED
  BY <1>1, <1>2, <1>3


-----------------------------------------------------------------------------
(* The task. *)

(* What every step of an end does. *)
Steps(p, q) ==
    /\ Sound(q) /\ Keeps(p, q) /\ q.err = FALSE
    /\ p.pc # "run" => q.pc # "run"

LEMMA CancelHoldSound ==
    ASSUME NEW p, Sound(p)
    PROVE  LET q == CancelHold(p) IN Sound(q) /\ Keeps(p, q) /\ q.alive = p.alive /\ q.pc = p.pc
<1> DEFINE q == CancelHold(p)
<1> SUFFICES Sound(q) /\ Keeps(p, q) /\ q.alive = p.alive /\ q.pc = p.pc
  OBVIOUS
<1>0. NoHold \in Holds /\ NoHold.k = "none"
  BY DEF Holds, NoHold
<1>1. p.hold \in Holds /\ (p.hold.k = "stream" => p.hold.v \in 1..Len(p.strm))
  BY SoundFields
<1>2. p.hold.k \in {"none", "stream", "bind"} /\ (p.hold.k = "bind" => p.hold.v \in FlowIds)
  BY <1>1 DEF Holds, NoHold
<1>3. CASE p.hold.k = "stream"
  <2> DEFINE d == DropStream(p, p.hold.v)
  <2>1. q = [d EXCEPT !.hold = NoHold]
    BY <1>3, SMTT(30) DEF CancelHold
  <2>2. Sound(d) /\ Keeps(p, d) /\ Same(p, d)
    BY <1>1, <1>3, DropStreamSound
  <2> HIDE DEF d, q
  <2>3. Sound(q) /\ Keeps(d, q) /\ q.alive = d.alive /\ q.pc = d.pc
    BY <1>0, <2>1, <2>2, HoldSound, SMTT(30)
  <2> QED
    BY <2>2, <2>3, KeepsTrans DEF Same
<1>4. CASE p.hold.k = "bind"
  <2> DEFINE d == Send(p, Reset(p.hold.v))
  <2>1. q = [d EXCEPT !.hold = NoHold]
    BY <1>4 DEF CancelHold
  <2>2. Reset(p.hold.v) \in Frames
    BY <1>2, <1>4, FrameTypes, SMTT(30)
  <2>3. Sound(d) /\ Keeps(p, d) /\ Same(p, d)
    BY <2>2, SendSound, SMTT(30)
  <2> HIDE DEF d, q
  <2>4. Sound(q) /\ Keeps(d, q) /\ q.alive = d.alive /\ q.pc = d.pc
    BY <1>0, <2>1, <2>3, HoldSound
  <2> QED
    BY <2>3, <2>4, KeepsTrans DEF Same
<1>5. CASE p.hold.k = "none"
  <2>1. q = p
    BY <1>5, SMTT(30) DEF CancelHold
  <2> QED
    BY <2>1 DEF Keeps
<1> QED
  BY <1>2, <1>3, <1>4, <1>5, SMTT(30)

LEMMA ExitSteps ==
    ASSUME NEW p, Sound(p), NEW drain \in BOOLEAN
    PROVE  Steps(p, Exit(p, drain)) /\ Exit(p, drain).pc = "disallow"
<1> DEFINE c == CancelHold(p)
           q == [c EXCEPT !.pc = "disallow", !.drain = drain, !.err = FALSE]
<1>1. Exit(p, drain) = q
  BY DEF Exit
<1>2. Sound(c) /\ Keeps(p, c)
  BY CancelHoldSound
<1> HIDE DEF c
<1>3. /\ q \in Ends /\ q.flows = c.flows /\ q.strm = c.strm /\ q.call = c.call
      /\ q.txOpen = c.txOpen /\ q.alive = c.alive /\ q.pc = "disallow" /\ q.err = FALSE
      /\ q.acc = c.acc /\ q.hold = c.hold /\ q.bnd = c.bnd /\ q.dgm = c.dgm /\ q.drops = c.drops
  BY <1>2, ZenonT(60) DEF Sound, Ends
<1> HIDE DEF q
<1>4. Sound(q) /\ Keeps(c, q)
  BY <1>2, <1>3, SoundFields, FieldsSound, ZenonT(30)
<1> QED
  BY <1>1, <1>2, <1>3, <1>4, KeepsTrans, SMTT(30) DEF Steps

(* The table may be emptied at any time. *)
LEMMA EmptyTable ==
    ASSUME NEW p, Sound(p)
    PROVE  LET q == [p EXCEPT !.flows = [id \in FlowIds |-> NoSlot]] IN
           Sound(q) /\ Keeps(p, q) /\ Same(p, q)
<1> DEFINE t == [id \in FlowIds |-> NoSlot]
           q == [p EXCEPT !.flows = t]
<1>1. t \in [FlowIds -> Slots] /\ \A id \in FlowIds : t[id].k = "none"
  BY SlotFacts
<1> HIDE DEF t
<1>2. /\ q \in Ends /\ Same(p, q) /\ q.flows = t /\ q.strm = p.strm /\ q.call = p.call
      /\ q.acc = p.acc /\ q.bnd = p.bnd /\ q.dgm = p.dgm /\ q.drops = p.drops
  BY <1>1, ZenonT(60) DEF Sound, Ends, Same
<1> SUFFICES Sound(q) /\ Keeps(p, q) /\ Same(p, q)
  BY DEF t
<1> HIDE DEF q
<1>3. Pointing(q)
  BY <1>1, <1>2, SMTT(30) DEF Sound, Pointing, Same
<1>4. Calling(q)
  BY <1>1, <1>2, ZenonT(30) DEF Calling
<1>5. Bounded(q)
  BY <1>2 DEF Sound, Bounded, Same
<1> QED
  BY <1>2, <1>3, <1>4, <1>5, SMTT(30) DEF Sound, Keeps, Same

LEMMA TaskDoneSteps ==
    ASSUME NEW p, Sound(p)
    PROVE  Steps(p, TaskDone(p)) /\ TaskDone(p).pc = "done"
<1> DEFINE d == [p EXCEPT !.flows = [id \in FlowIds |-> NoSlot]]
           c == IF p.alive THEN p ELSE d
           q == [c EXCEPT !.pc = "done", !.err = FALSE]
<1>0. Sound(d) /\ Keeps(p, d)
  BY EmptyTable
<1>1. TaskDone(p) = q
  BY SoundFields, Zenon DEF TaskDone, Ends
<1>2. Sound(c) /\ Keeps(p, c)
  BY <1>0 DEF Keeps
<1> HIDE DEF c
<1>3. /\ q \in Ends /\ q.flows = c.flows /\ q.strm = c.strm /\ q.call = c.call
      /\ q.txOpen = c.txOpen /\ q.alive = c.alive /\ q.pc = "done" /\ q.err = FALSE
      /\ q.acc = c.acc /\ q.hold = c.hold /\ q.bnd = c.bnd /\ q.dgm = c.dgm /\ q.drops = c.drops
  BY <1>2, ZenonT(30) DEF Sound, Ends
<1> HIDE DEF q
<1>4. Sound(q) /\ Keeps(c, q)
  BY <1>2, <1>3, SoundFields, FieldsSound, ZenonT(60)
<1> QED
  BY <1>1, <1>2, <1>3, <1>4, KeepsTrans, SMTT(30) DEF Steps

(* wind_down returns early. *)
LEMMA CutSteps ==
    ASSUME NEW p, Sound(p)
    PROVE  LET q == [TaskDone(p) EXCEPT !.cut = TRUE] IN Steps(p, q) /\ q.pc = "done"
<1> DEFINE c == TaskDone(p)
           q == [c EXCEPT !.cut = TRUE]
<1>1. Steps(p, c) /\ c.pc = "done"
  BY TaskDoneSteps
<1> SUFFICES Steps(p, q) /\ q.pc = "done"
  OBVIOUS
<1> HIDE DEF c
<1>2. Sound(c) /\ Keeps(p, c) /\ c.err = FALSE
  BY <1>1 DEF Steps
<1>3. /\ q \in Ends /\ q.flows = c.flows /\ q.strm = c.strm /\ q.call = c.call
      /\ q.txOpen = c.txOpen /\ q.alive = c.alive /\ q.pc = c.pc /\ q.err = c.err
      /\ q.acc = c.acc /\ q.hold = c.hold /\ q.bnd = c.bnd /\ q.dgm = c.dgm /\ q.drops = c.drops
  BY <1>2, ZenonT(30) DEF Sound, Ends
<1> HIDE DEF q
<1>4. Sound(q) /\ Keeps(c, q)
  BY <1>2, <1>3, SoundFields, FieldsSound, ZenonT(60)
<1> QED
  BY <1>1, <1>2, <1>3, <1>4, KeepsTrans, SMTT(30) DEF Steps

LEMMA HandledSteps ==
    ASSUME NEW p, NEW q, Sound(p), Handles(p, q)
    PROVE  /\ Steps(p, Handled(q))
           /\ p.pc = "run" /\ Handled(q).pc # "run" =>
                ~p.alive \/ \E c \in 1..Len(p.call) : p.call[c].st = "cancelled"
<1>1. CASE ~q.err
  <2>1. Handled(q) = q /\ q.err \in BOOLEAN
    BY <1>1, SMTT(30) DEF Handled, Handles, Sound, Ends
  <2> QED
    BY <1>1, <2>1, SMTT(30) DEF Handles, Steps
<1>2. CASE q.err /\ q.pc = "run"
  <2>1. Handled(q) = Exit(q, FALSE) /\ Sound(q) /\ Keeps(p, q) /\ Failing(p)
    BY <1>2 DEF Handled, Handles
  <2>2. Steps(q, Exit(q, FALSE)) /\ Exit(q, FALSE).pc = "disallow"
    BY <2>1, ExitSteps, ZenonT(30)
  <2>3. p.txOpen
    BY <1>2, SMTT(30) DEF Handles, Sound, Bounded
  <2> QED
    BY <2>1, <2>2, <2>3, KeepsTrans, ZenonT(30) DEF Steps, Failing
<1>3. CASE q.err /\ q.pc # "run"
  <2>1. Handled(q) = [TaskDone(q) EXCEPT !.cut = TRUE] /\ Sound(q) /\ Keeps(p, q)
    BY <1>3, ZenonT(30) DEF Handled, Handles
  <2>2. Steps(q, Handled(q)) /\ Handled(q).pc = "done"
    BY <2>1, CutSteps, ZenonT(30)
  <2> QED
    BY <1>3, <2>1, <2>2, KeepsTrans, SMTT(30) DEF Steps, Handles
<1> QED
  BY <1>1, <1>2, <1>3, SMTT(30)


(* A queue is replaced element by element. *)
LEMMA Elementwise ==
    ASSUME NEW X, NEW a \in Seq(X), NEW g, g = [i \in 1..Len(a) |-> g[i]],
           \A i \in 1..Len(a) : g[i] \in X
    PROVE  g \in Seq(X) /\ Len(g) = Len(a)
<1>1. Len(a) \in Nat
  BY LenProperties
<1>2. g \in [1..Len(a) -> X]
  OBVIOUS
<1> QED
  BY <1>1, <1>2, SeqDef, LenProperties, SMTT(30)

LEMMA FinishedSound ==
    ASSUME NEW p, Sound(p)
    PROVE  LET q == Finished(p) IN Sound(q) /\ Keeps(p, q) /\ Same(p, q) /\ q.call = p.call
<1> DEFINE F(s) == \E id \in FlowIds : p.flows[id].k = "established" /\ p.flows[id].st = s
           y == [s \in 1..Len(p.strm) |-> IF F(s) THEN [p.strm[s] EXCEPT !.fin = TRUE] ELSE p.strm[s]]
           q == [p EXCEPT !.strm = y]
<1>1. p \in Ends /\ p.strm \in Seq(Streams)
  BY SoundFields
<1>2. Finished(p) = q
  BY DEF Finished
<1>3. \A s \in 1..Len(p.strm) : y[s] \in Streams
  <2> SUFFICES ASSUME NEW s \in 1..Len(p.strm) PROVE y[s] \in Streams
    BY ZenonT(30)
  <2> DEFINE t == p.strm[s]
  <2>1. t \in Streams
    BY <1>1
  <2>2. y[s] = IF F(s) THEN [t EXCEPT !.fin = TRUE] ELSE t
    OBVIOUS
  <2> HIDE DEF t, y, F
  <2>3. [t EXCEPT !.fin = TRUE] \in Streams
    BY <2>1, StreamFields, Zenon
  <2> QED
    BY <2>1, <2>2, <2>3, SMTT(30)
<1>4. y = [s \in 1..Len(p.strm) |-> y[s]]
  OBVIOUS
<1> HIDE DEF y
<1>5. y \in Seq(Streams) /\ Len(y) = Len(p.strm)
  BY <1>1, <1>3, <1>4, Elementwise, ZenonT(30)
<1>6. /\ q \in Ends /\ Same(p, q) /\ q.flows = p.flows /\ q.strm = y /\ q.call = p.call
      /\ q.acc = p.acc /\ q.bnd = p.bnd /\ q.dgm = p.dgm /\ q.drops = p.drops
  BY <1>1, <1>5, Zenon DEF Ends, Same
<1> HIDE DEF q
<1>7. Sound(q) /\ Keeps(p, q)
  BY <1>5, <1>6, SoundFields, FieldsSound, ZenonT(60) DEF Same
<1> QED
  BY <1>2, <1>6, <1>7, SMTT(30)

LEMMA DrainFlowsSound ==
    ASSUME NEW p, Sound(p)
    PROVE  LET q == DrainFlows(p) IN Sound(q) /\ Keeps(p, q)
<1> DEFINE f == Finished(p)
           R(c) == \E id \in FlowIds : p.flows[id] = Requested(c)
           B(c) == \E id \in FlowIds : p.flows[id] = BindRequested(c)
           y == [c \in 1..Len(f.call) |->
                   CASE Pending(f.call[c]) /\ R(c) -> [f.call[c] EXCEPT !.res = "none"]
                     [] Pending(f.call[c]) /\ B(c) -> [f.call[c] EXCEPT !.res = "no"]
                     [] OTHER -> f.call[c]]
           g == [f EXCEPT !.flows = [id \in FlowIds |-> NoSlot]]
           q == [g EXCEPT !.call = y]
<1>1. Sound(f) /\ Keeps(p, f)
  BY FinishedSound
<1>2. DrainFlows(p) = q
  BY DEF DrainFlows
<1> HIDE DEF f, R, B
<1>3. Sound(g) /\ Keeps(f, g) /\ g.call = f.call /\ \A id \in FlowIds : g.flows[id].k = "none"
  <2>1. Sound(g) /\ Keeps(f, g)
    BY <1>1, EmptyTable, SMTT(30)
  <2> QED
    BY <1>1, <2>1, SoundFields, SlotFacts, SMTT(30) DEF Ends
<1> HIDE DEF g
<1>4. \A c \in 1..Len(f.call) :
        y[c] \in CallType /\ y[c].st = f.call[c].st /\ (y[c].res = "stream" => y[c] = f.call[c])
  <2> SUFFICES ASSUME NEW c \in 1..Len(f.call)
               PROVE  y[c] \in CallType /\ y[c].st = f.call[c].st
                      /\ (y[c].res = "stream" => y[c] = f.call[c])
    BY ZenonT(30)
  <2> DEFINE x == f.call[c]
             n == [x EXCEPT !.res = "none"]
             m == [x EXCEPT !.res = "no"]
  <2>1. x \in CallType
    BY <1>1, SoundFields, SMTT(30)
  <2>2. y[c] \in {n, m, x}
    OBVIOUS
  <2> HIDE DEF x, y
  <2>3. n \in CallType /\ n.st = x.st /\ n.res # "stream"
    BY <2>1 DEF CallType, Results
  <2>4. m \in CallType /\ m.st = x.st /\ m.res # "stream"
    BY <2>1, SMTT(30) DEF CallType, Results
  <2> QED
    BY <2>1, <2>2, <2>3, <2>4, ZenonT(30) DEF x
<1>5. y = [c \in 1..Len(f.call) |-> y[c]]
  OBVIOUS
<1> HIDE DEF y
<1>6. y \in Seq(CallType) /\ Len(y) = Len(f.call)
  <2>1. f.call \in Seq(CallType)
    BY <1>1, SoundFields
  <2>2. \A c \in 1..Len(f.call) : y[c] \in CallType
    BY <1>4
  <2> QED
    BY <1>5, <2>1, <2>2, Elementwise, ZenonT(30)
<1>7. /\ q \in Ends /\ Same(g, q) /\ q.flows = g.flows /\ q.strm = g.strm /\ q.call = y
      /\ q.acc = g.acc /\ q.bnd = g.bnd /\ q.dgm = g.dgm /\ q.drops = g.drops
  BY <1>3, <1>6, ZenonT(60) DEF Sound, Ends, Same
<1> HIDE DEF q
<1>8. Pointing(q)
  BY <1>3, <1>4, <1>6, <1>7, ZenonT(90) DEF Sound, Pointing, Same
<1>9. Calling(q)
  BY <1>3, <1>7, ZenonT(30) DEF Calling
<1>10. Bounded(q)
  BY <1>3, <1>7, SMTT(30) DEF Sound, Bounded, Same
<1>11. Keeps(g, q)
  BY <1>3, <1>4, <1>6, <1>7, ZenonT(30) DEF Keeps, Same
<1> QED
  BY <1>1, <1>2, <1>3, <1>7, <1>8, <1>9, <1>10, <1>11, KeepsTrans, SMTT(30) DEF Sound


(* What DropMux makes of an end whose task has not returned. *)
Dropped(p) ==
    [p EXCEPT
        !.alive = FALSE,
        !.drops = IF p.pc = "done" THEN @
                  ELSE @ \o <<0>> \o [i \in 1..Len(p.acc) |-> p.strm[p.acc[i]].id],
        !.strm = [s \in 1..Len(@) |->
                    IF s \in {p.acc[i] : i \in 1..Len(p.acc)}
                      THEN [@[s] EXCEPT !.own = "gone", !.q = << >>] ELSE @[s]],
        !.tx = IF p.txOpen THEN @ \o [i \in 1..Len(p.bnd) |-> Reset(p.bnd[i])] ELSE @,
        !.acc = << >>, !.bnd = << >>, !.dgm = << >>]

LEMMA DroppedSound ==
    ASSUME NEW p, Sound(p), sc.bindCap \in Nat
    PROVE  LET q == Dropped(p) IN Sound(q) /\ Keeps(p, q) /\ q.pc = p.pc /\ q.err = p.err /\ ~q.alive
<1> DEFINE D == FlowIds \cup {0}
           ids == [i \in 1..Len(p.acc) |-> p.strm[p.acc[i]].id]
           resets == [i \in 1..Len(p.bnd) |-> Reset(p.bnd[i])]
           gone == {p.acc[i] : i \in 1..Len(p.acc)}
           d == IF p.pc = "done" THEN p.drops ELSE p.drops \o <<0>> \o ids
           y == [s \in 1..Len(p.strm) |->
                    IF s \in gone THEN [p.strm[s] EXCEPT !.own = "gone", !.q = << >>] ELSE p.strm[s]]
           x == IF p.txOpen THEN p.tx \o resets ELSE p.tx
           q == [p EXCEPT !.alive = FALSE, !.drops = d, !.strm = y, !.tx = x,
                          !.acc = << >>, !.bnd = << >>, !.dgm = << >>]
<1>1. Dropped(p) = q
  BY DEF Dropped
<1>2. /\ p \in Ends /\ p.strm \in Seq(Streams) /\ p.acc \in Seq(Nat) /\ p.bnd \in Seq(FlowIds)
      /\ p.drops \in Seq(D) /\ \A i \in 1..Len(p.acc) : p.acc[i] \in 1..Len(p.strm)
  BY SoundFields, ZenonT(30)
<1>3. p.tx \in Seq(Frames)
  BY <1>2 DEF Ends
<1>4. d \in Seq(D)
  <2>1. ASSUME NEW i \in 1..Len(p.acc) PROVE ids[i] \in D
    <3>1. p.strm[p.acc[i]] \in Streams
      BY <1>2, <2>1, LenProperties, ZenonT(30)
    <3>2. p.strm[p.acc[i]].id \in FlowIds
      BY <3>1, StreamValues, ZenonT(30)
    <3> QED
      BY <3>2, ZenonT(30)
  <2>2. ids \in Seq(D)
    <3>1. ids \in [1..Len(p.acc) -> D] /\ Len(p.acc) \in Nat
      BY <1>2, <2>1, LenProperties, ZenonT(30)
    <3> HIDE DEF ids
    <3> QED
      BY <3>1, SeqDef
  <2>3. <<0>> \in Seq(D)
    OBVIOUS
  <2> HIDE DEF ids, D
  <2>4. p.drops \o <<0>> \in Seq(D)
    BY <1>2, <2>3, ConcatProperties, SMTT(30)
  <2>5. p.drops \o <<0>> \o ids \in Seq(D)
    BY <2>2, <2>4, ConcatProperties
  <2> QED
    BY <1>2, <2>5, SMTT(30)
<1>5. y \in Seq(Streams) /\ Len(y) = Len(p.strm)
  <2>1. \A s \in 1..Len(p.strm) : y[s] \in Streams
    <3> SUFFICES ASSUME NEW s \in 1..Len(p.strm) PROVE y[s] \in Streams
      BY Zenon
    <3> DEFINE t == p.strm[s]
               u == [t EXCEPT !.own = "gone"]
               w == [u EXCEPT !.q = << >>]
    <3>1. t \in Streams
      BY <1>2
    <3>2. y[s] = IF s \in gone THEN [t EXCEPT !.own = "gone", !.q = << >>] ELSE t
      BY Zenon
    <3> HIDE DEF t, y
    <3>3. y[s] = IF s \in gone THEN w ELSE t
      BY <3>2
    <3>4. u \in Streams
      BY <3>1, StreamFields, ZenonT(30)
    <3> HIDE DEF u
    <3>5. << >> \in Seq(Words)
      OBVIOUS
    <3>6. w \in Streams
      BY <3>4, <3>5, StreamFields, ZenonT(30)
    <3> QED
      BY <3>1, <3>3, <3>6
  <2>2. y = [s \in 1..Len(p.strm) |-> y[s]]
    BY Zenon
  <2> HIDE DEF y
  <2> QED
    BY <1>2, <2>1, <2>2, Elementwise, ZenonT(60)
<1>6. x \in Seq(Frames)
  <2>1. \A i \in 1..Len(p.bnd) : resets[i] \in Frames
    BY <1>2, FrameTypes, SMTT(30)
  <2>2. resets \in Seq(Frames)
    <3>1. resets \in [1..Len(p.bnd) -> Frames] /\ Len(p.bnd) \in Nat
      BY <1>2, <2>1, LenProperties, ZenonT(30)
    <3> HIDE DEF resets
    <3> QED
      BY <3>1, SeqDef
  <2> HIDE DEF resets
  <2>3. p.tx \o resets \in Seq(Frames)
    BY <1>3, <2>2, ConcatProperties, SMTT(30)
  <2> QED
    BY <1>3, <2>3, SMTT(30)
<1> SUFFICES Sound(q) /\ Keeps(p, q) /\ q.pc = p.pc /\ q.err = p.err /\ ~q.alive
  BY <1>1, ZenonT(30)
<1> HIDE DEF d, y, x
<1>7. /\ q \in Ends /\ q.flows = p.flows /\ q.strm = y /\ q.call = p.call /\ q.txOpen = p.txOpen
      /\ q.alive = FALSE /\ q.pc = p.pc /\ q.err = p.err /\ q.hold = p.hold
      /\ q.acc = << >> /\ q.bnd = << >> /\ q.dgm = << >>
  <2> DEFINE a == [p EXCEPT !.alive = FALSE, !.drops = d, !.strm = y, !.tx = x]
             z == << >>
             b == [a EXCEPT !.acc = z, !.bnd = z, !.dgm = z]
  <2>1. /\ a \in Ends /\ a.flows = p.flows /\ a.strm = y /\ a.call = p.call /\ a.txOpen = p.txOpen
        /\ a.alive = FALSE /\ a.pc = p.pc /\ a.err = p.err /\ a.hold = p.hold
    BY <1>2, <1>4, <1>5, <1>6, ZenonT(30) DEF Ends
  <2>2. q = b
    OBVIOUS
  <2>3. z \in Seq(Nat) /\ z \in Seq(FlowIds)
    OBVIOUS
  <2> HIDE DEF a, z, q
  <2>4. /\ b \in Ends /\ b.flows = a.flows /\ b.strm = a.strm /\ b.call = a.call
        /\ b.txOpen = a.txOpen /\ b.alive = a.alive /\ b.pc = a.pc /\ b.err = a.err
        /\ b.hold = a.hold /\ b.acc = z /\ b.bnd = z /\ b.dgm = z
    BY <2>1, <2>3, ZenonT(60) DEF Ends
  <2> HIDE DEF b
  <2> QED
    BY <2>1, <2>2, <2>4, SMTT(30) DEF z
<1> HIDE DEF q
<1>8. Pointing(q)
  BY <1>5, <1>7, SMTT(30) DEF Sound, Pointing
<1>9. Calling(q)
  BY <1>7, CallingSame, SMTT(30) DEF Sound
<1>10. Bounded(q)
  BY <1>7, ConstantsAssumption, SMTT(30) DEF Sound, Bounded
<1>11. Keeps(p, q)
  BY <1>7, SMTT(30) DEF Keeps
<1> QED
  BY <1>7, <1>8, <1>9, <1>10, <1>11, SMTT(30) DEF Sound


-----------------------------------------------------------------------------
(* Steps of the system. *)

HasClose(w) == \E i \in 1..Len(w) : w[i] = Close

LEMMA EndStep ==
    ASSUME MuxInv, NEW e \in End, NEW q, Steps(ep[e], q), ep' = [ep EXCEPT ![e] = q],
           sc' = sc, link' = link, used' \in [End -> SUBSET FlowIds],
           wire' \in [End -> Seq(Messages)],
           \A x \in End : HasClose(wire'[x]) => HasClose(wire[x]) \/ (x = e /\ q.pc # "run"),
           ep[e].pc = "run" /\ q.pc # "run" => Cause
    PROVE  MuxInv'
<1>1. ep'[e] = q /\ (\A x \in End : x # e => ep'[x] = ep[x]) /\ DOMAIN ep' = End
  BY DEF MuxInv
<1>2. \A x \in End : Sound(ep'[x]) /\ ep'[x].err = FALSE /\ Keeps(ep[x], ep'[x])
                      /\ (ep[x].pc # "run" => ep'[x].pc # "run")
  <2> SUFFICES ASSUME NEW x \in End
               PROVE  Sound(ep'[x]) /\ ep'[x].err = FALSE /\ Keeps(ep[x], ep'[x])
                      /\ (ep[x].pc # "run" => ep'[x].pc # "run")
    BY ZenonT(30)
  <2>1. CASE x = e
    BY <1>1, <2>1, SMTT(30) DEF Steps
  <2>2. CASE x # e
    BY <1>1, <2>2, ZenonT(30) DEF MuxInv, Keeps
  <2> QED
    BY <2>1, <2>2, Zenon
<1>3. ep' \in [End -> Ends]
  BY <1>1, <1>2, SMTT(30) DEF Sound, MuxInv
<1>4. \A x \in End : Sound(ep[x])'
  BY <1>2, ZenonT(60) DEF Sound, Pointing, Calling, Bounded
<1>5. \A x \in End : HasClose(wire'[x]) => ep'[x].pc # "run"
  BY <1>1, <1>2, ZenonT(30) DEF MuxInv, HasClose
<1>6. Cause => Cause'
  BY <1>2, ZenonT(30) DEF Cause, Keeps
<1>7. Cause' \/ \A x \in End : ep'[x].pc = "run"
  BY <1>1, <1>6 DEF MuxInv
<1> QED
  BY <1>2, <1>3, <1>4, <1>5, <1>7, ZenonT(30) DEF MuxInv, HasClose

(* A step of one end that neither reads nor writes the connection. *)
LEMMA LocalStep ==
    ASSUME MuxInv, NEW e \in End, NEW q, Steps(ep[e], q), ep' = [ep EXCEPT ![e] = q],
           UNCHANGED <<sc, wire, link>>, used' \in [End -> SUBSET FlowIds],
           ep[e].pc = "run" /\ q.pc # "run" => Cause
    PROVE  MuxInv'
<1>1. wire' \in [End -> Seq(Messages)] /\ sc' = sc /\ link' = link
      /\ \A x \in End : HasClose(wire'[x]) => HasClose(wire[x]) \/ (x = e /\ q.pc # "run")
  BY DEF MuxInv
<1> QED
  BY <1>1, EndStep, ZenonT(30)

(* ... and does not touch the task either. *)
LEMMA UserStep ==
    ASSUME MuxInv, NEW e \in End, NEW q, Sound(q), Keeps(ep[e], q), q.pc = ep[e].pc, q.err = FALSE,
           ep' = [ep EXCEPT ![e] = q], UNCHANGED <<sc, wire, link>>,
           used' \in [End -> SUBSET FlowIds]
    PROVE  MuxInv'
<1>1. Steps(ep[e], q)
  BY SMTT(30) DEF Steps
<1> QED
  BY <1>1, LocalStep, ZenonT(30)

LEMMA ScenarioFacts ==
    ASSUME MuxInv
    PROVE  /\ sc.ids \subseteq FlowIds /\ sc.retries \in Nat \ {0} /\ sc.bindCap \in Nat
           /\ sc.datagrams \in Nat
BY ConstantsAssumption, SMTT(30) DEF MuxInv

LEMMA EndFacts ==
    ASSUME MuxInv, NEW e \in End
    PROVE  /\ Sound(ep[e]) /\ ep[e].err = FALSE /\ ep[e] \in Ends
           /\ Peer(e) \in End /\ Peer(e) # e /\ wire[Peer(e)] \in Seq(Messages)
BY DEF MuxInv, Sound, Peer, End

(* A message is taken off the connection. *)
LEMMA ReadStep ==
    ASSUME MuxInv, NEW e \in End, NEW q, Steps(ep[e], q), wire[Peer(e)] # << >>,
           ep' = [ep EXCEPT ![e] = q], wire' = [wire EXCEPT ![Peer(e)] = Tail(@)],
           UNCHANGED <<sc, link, used>>, ep[e].pc = "run" /\ q.pc # "run" => Cause
    PROVE  MuxInv'
<1> DEFINE w == wire[Peer(e)]
<1>1. Peer(e) \in End /\ w \in Seq(Messages) /\ w # << >> /\ wire \in [End -> Seq(Messages)]
  BY EndFacts, ZenonT(30) DEF MuxInv
<1>2. /\ Tail(w) \in Seq(Messages) /\ Len(Tail(w)) = Len(w) - 1
      /\ \A i \in 1..Len(Tail(w)) : Tail(w)[i] = w[i + 1] /\ i + 1 \in 1..Len(w)
  BY <1>1, HeadTailProperties, SMTT(30)
<1>3. HasClose(Tail(w)) => HasClose(w)
  BY <1>2 DEF HasClose
<1>4. wire'[Peer(e)] = Tail(w) /\ \A x \in End : x # Peer(e) => wire'[x] = wire[x]
  BY <1>1, SMTT(30)
<1>5. wire' \in [End -> Seq(Messages)]
  BY <1>1, <1>2, SMTT(30)
<1>6. \A x \in End : HasClose(wire'[x]) => HasClose(wire[x])
  BY <1>3, <1>4, SMTT(30)
<1>7. used' \in [End -> SUBSET FlowIds] /\ sc' = sc /\ link' = link
  BY SMTT(30) DEF MuxInv
<1> QED
  BY <1>5, <1>6, <1>7, EndStep, ZenonT(30)

LEMMA IncomingFacts ==
    ASSUME MuxInv, NEW e \in End, wire[Peer(e)] # << >>
    PROVE  Incoming(e) \in Messages /\ (Incoming(e) = Close => HasClose(wire[Peer(e)]))
<1> DEFINE w == wire[Peer(e)]
<1>1. w \in Seq(Messages) /\ w # << >>
  BY EndFacts, ZenonT(30)
<1>2. Head(w) \in Messages /\ Head(w) = w[1] /\ 1 \in 1..Len(w)
  BY <1>1, HeadTailProperties
<1> QED
  BY <1>2 DEF Incoming, HasClose

(* A message whose handler leaves q. *)
LEMMA RecvStep ==
    ASSUME MuxInv, NEW e \in End, NEW op, NEW q, Recv(e, op, q), Handles(ep[e], q)
    PROVE  MuxInv'
<1>1. Steps(ep[e], Handled(q))
      /\ (ep[e].pc = "run" /\ Handled(q).pc # "run" => Cause)
  BY EndFacts, HandledSteps, ZenonT(60) DEF Cause
<1> HIDE DEF Cause
<1>2. /\ wire[Peer(e)] # << >> /\ ep' = [ep EXCEPT ![e] = Handled(q)]
      /\ wire' = [wire EXCEPT ![Peer(e)] = Tail(@)] /\ UNCHANGED <<sc, link, used>>
  BY DEF Recv
<1> QED
  BY <1>1, <1>2, ReadStep, ZenonT(30)


(* The task reads a message. *)
LEMMA Receives ==
    ASSUME MuxInv, NEW e \in End,
           \/ RecvConnect(e) \/ RecvAcknowledge(e) \/ RecvFinish(e) \/ RecvReset(e)
           \/ RecvPush(e) \/ RecvBind(e) \/ RecvDatagram(e) \/ RecvClose(e)
    PROVE  MuxInv'
<1> DEFINE f == Incoming(e)
           p == ep[e]
<1>1. Sound(p) /\ p.err = FALSE /\ sc.bindCap \in Nat
  BY EndFacts, ScenarioFacts, ZenonT(30)
<1>2. CASE RecvConnect(e)
  <2>1. f.id \in FlowIds /\ f.v \in Nat
    BY <1>2, IncomingFacts, MessageFields, SMTT(30) DEF RecvConnect, Recv
  <2> QED
    BY <1>1, <1>2, <2>1, ConnectHandles, RecvStep, ZenonT(30) DEF RecvConnect
<1>3. CASE RecvAcknowledge(e)
  <2>1. f.id \in FlowIds /\ f.v \in Nat
    BY <1>3, IncomingFacts, MessageFields DEF RecvAcknowledge, Recv
  <2> QED
    BY <1>1, <1>3, <2>1, AcknowledgeHandles, RecvStep, ZenonT(30) DEF RecvAcknowledge
<1>4. CASE RecvFinish(e)
  <2>1. f.id \in FlowIds
    BY <1>4, IncomingFacts, MessageFields, SMTT(30) DEF RecvFinish, Recv
  <2> QED
    BY <1>1, <1>4, <2>1, FinishHandles, RecvStep, ZenonT(30) DEF RecvFinish
<1>5. CASE RecvReset(e)
  <2>1. f.id \in FlowIds
    BY <1>5, IncomingFacts, MessageFields, SMTT(30) DEF RecvReset, Recv
  <2>2. LET q == ClosePort(p, f.id, TRUE) IN Sound(q) /\ Keeps(p, q) /\ Same(p, q)
    BY <1>1, <2>1, ClosePortSound, ZenonT(30)
  <2>3. Handles(p, ClosePort(p, f.id, TRUE))
    BY <1>1, <2>2, Harmless, ZenonT(30)
  <2> QED
    BY <1>5, <2>3, RecvStep, ZenonT(60) DEF RecvReset
<1>6. CASE RecvPush(e)
  <2>1. f.id \in FlowIds /\ f.v \in Words
    BY <1>6, IncomingFacts, MessageFields, SMTT(30) DEF RecvPush, Recv
  <2> QED
    BY <1>1, <1>6, <2>1, PushHandles, RecvStep, ZenonT(30) DEF RecvPush
<1>7. CASE RecvBind(e)
  <2>1. f.id \in FlowIds
    BY <1>7, IncomingFacts, MessageFields, SMTT(30) DEF RecvBind, Recv
  <2> QED
    BY <1>1, <1>7, <2>1, BindHandles, RecvStep, ZenonT(30) DEF RecvBind
<1>8. CASE RecvDatagram(e)
  <2>1. f.v \in Nat
    BY <1>8, IncomingFacts, MessageFields, SMTT(30) DEF RecvDatagram, Recv
  <2> QED
    BY <1>1, <1>8, <2>1, DatagramHandles, RecvStep, ZenonT(30) DEF RecvDatagram
<1>9. CASE RecvClose(e)
  <2> DEFINE s == [p EXCEPT !.srcEnd = TRUE]
             q == IF s.pc = "run" THEN Exit(s, FALSE) ELSE s
  <2>1. Recv(e, "Close", q)
    BY <1>9, Zenon DEF RecvClose
  <2>2. Sound(s) /\ Keeps(p, s) /\ s.pc = p.pc /\ s.err = FALSE
    <3>1. /\ s \in Ends /\ s.flows = p.flows /\ s.strm = p.strm /\ s.call = p.call
          /\ s.txOpen = p.txOpen /\ s.alive = p.alive /\ s.pc = p.pc /\ s.err = p.err
          /\ s.acc = p.acc /\ s.hold = p.hold /\ s.bnd = p.bnd /\ s.dgm = p.dgm /\ s.drops = p.drops
      BY <1>1, ZenonT(60) DEF Sound, Ends
    <3> HIDE DEF s, p
    <3> QED
      BY <1>1, <3>1, SoundFields, FieldsSound, ZenonT(60)
  <2> HIDE DEF s
  <2>3. Steps(p, q)
    <3>1. CASE s.pc = "run"
      BY <2>2, <3>1, ExitSteps, KeepsTrans, ZenonT(30) DEF Steps
    <3>2. CASE s.pc # "run"
      BY <2>2, <3>2 DEF Steps
    <3> QED
      BY <3>1, <3>2, Zenon
  <2>4. q.err = FALSE /\ Handled(q) = q
    BY <2>3, ZenonT(30) DEF Steps, Handled
  <2>5. Cause
    <3>1. f = Close
      BY <1>9, IncomingFacts, MessageFields, SMTT(30) DEF RecvClose, Recv
    <3>2. HasClose(wire[Peer(e)]) /\ Peer(e) \in End
      BY <1>9, <3>1, IncomingFacts, EndFacts, ZenonT(60) DEF RecvClose, Recv
    <3> QED
      BY <3>2, ZenonT(30) DEF MuxInv, HasClose
  <2> HIDE DEF q
  <2> QED
    BY <2>1, <2>3, <2>4, <2>5, ReadStep, ZenonT(30) DEF Recv
<1> QED
  BY <1>2, <1>3, <1>4, <1>5, <1>6, <1>7, <1>8, <1>9, SMTT(30)

LEMMA Unblocks ==
    ASSUME MuxInv, NEW e \in End, Unblock(e)
    PROVE  MuxInv'
<1> DEFINE p == ep[e]
<1>1. Sound(p) /\ p.err = FALSE /\ sc.bindCap \in Nat /\ p.hold \in Holds
      /\ (p.hold.k = "stream" => p.hold.v \in 1..Len(p.strm))
  BY EndFacts, ScenarioFacts, SoundFields, ZenonT(60)
<1>2. p.hold.k = "bind" => p.hold.v \in FlowIds
  BY <1>1, SMTT(30) DEF Holds, NoHold
<1>3. UNCHANGED <<sc, wire, link>> /\ used' \in [End -> SUBSET FlowIds]
  BY DEF Unblock, MuxInv
<1>4. CASE p.hold.k = "stream" /\ ep' = [ep EXCEPT ![e] = Handled(OfferStream(@, @.hold.v))]
  <2> DEFINE q == OfferStream(p, p.hold.v)
  <2>1. Handles(p, q)
    BY <1>1, <1>4, OfferStreamHandles, ZenonT(30)
  <2>2. ep' = [ep EXCEPT ![e] = Handled(q)]
    BY <1>4, SMTT(30)
  <2> HIDE DEF q
  <2>3. Steps(p, Handled(q)) /\ (p.pc = "run" /\ Handled(q).pc # "run" => Cause)
    BY <1>1, <2>1, HandledSteps, SMTT(30) DEF Cause
  <2> HIDE DEF Cause
  <2> QED
    BY <1>3, <2>2, <2>3, LocalStep, ZenonT(30)
<1>5. CASE p.hold.k = "bind" /\ ep' = [ep EXCEPT ![e] = OfferBind(@, @.hold.v)]
           /\ (Len(p.bnd) < sc.bindCap \/ ~p.alive)
  <2> DEFINE q == OfferBind(p, p.hold.v)
  <2>1. Handles(p, q)
    BY <1>1, <1>2, <1>5, OfferBindHandles, ZenonT(30)
  <2>2. ep' = [ep EXCEPT ![e] = q]
    BY <1>5
  <2>3. q.err = FALSE
    <3>1. CASE ~p.alive
      <4>1. q = [Send(p, Reset(p.hold.v)) EXCEPT !.hold = NoHold]
        BY <3>1 DEF OfferBind
      <4>2. Sound(Send(p, Reset(p.hold.v))) /\ Same(p, Send(p, Reset(p.hold.v)))
        BY <1>1, <1>2, <1>5, FrameTypes, SendSound, ZenonT(30)
      <4> QED
        BY <1>1, <4>1, <4>2, ZenonT(30) DEF Same, Sound, Ends
    <3>2. CASE p.alive
      BY <1>1, <1>5, <3>2, SMTT(30) DEF OfferBind, Sound, Ends
    <3> QED
      BY <3>1, <3>2, ZenonT(60)
  <2> HIDE DEF q
  <2> QED
    BY <1>3, <2>1, <2>2, <2>3, UserStep, ZenonT(30) DEF Handles
<1> QED
  BY <1>4, <1>5 DEF Unblock


LEMMA Breaks ==
    ASSUME MuxInv, NEW e \in End, SourceBroken(e)
    PROVE  MuxInv'
<1>1. Steps(ep[e], Exit(ep[e], FALSE)) /\ Cause
  BY EndFacts, ExitSteps, ZenonT(30) DEF SourceBroken, Cause
<1> HIDE DEF Cause
<1>2. /\ ep' = [ep EXCEPT ![e] = Exit(ep[e], FALSE)] /\ UNCHANGED <<sc, wire, link>>
      /\ used' \in [End -> SUBSET FlowIds]
  BY DEF SourceBroken, MuxInv
<1> QED
  BY <1>1, <1>2, LocalStep, ZenonT(30)

LEMMA ClosesPorts ==
    ASSUME MuxInv, NEW e \in End, DroppedPorts(e)
    PROVE  MuxInv'
<1> DEFINE x == ep[e]
           id == Head(x.drops)
           t == Tail(x.drops)
           p == [x EXCEPT !.drops = t]
           q == IF id = 0 THEN Exit(p, TRUE) ELSE ClosePort(p, id, FALSE)
<1>1. /\ ep' = [ep EXCEPT ![e] = q] /\ UNCHANGED <<sc, wire, link>> /\ x.drops # << >>
      /\ used' \in [End -> SUBSET FlowIds]
  BY DEF DroppedPorts, MuxInv
<1>2. /\ Sound(x) /\ x.err = FALSE /\ x.drops \in Seq(FlowIds \cup {0})
      /\ \A i \in 1..Len(x.drops) : x.drops[i] = 0 => ~x.alive
  BY EndFacts, SoundFields, ZenonT(30)
<1>3. /\ t \in Seq(FlowIds \cup {0}) /\ Len(t) = Len(x.drops) - 1 /\ id \in FlowIds \cup {0}
      /\ \A i \in 1..Len(t) : t[i] = x.drops[i + 1] /\ i + 1 \in 1..Len(x.drops)
      /\ id = x.drops[1] /\ 1 \in 1..Len(x.drops)
  BY <1>1, <1>2, HeadTailProperties, SMTT(30)
<1>4. id = 0 => ~x.alive
  BY <1>2, <1>3
<1> HIDE DEF t, id
<1>5. /\ p \in Ends /\ p.flows = x.flows /\ p.strm = x.strm /\ p.call = x.call
      /\ p.txOpen = x.txOpen /\ p.alive = x.alive /\ p.pc = x.pc /\ p.err = x.err
      /\ p.acc = x.acc /\ p.hold = x.hold /\ p.bnd = x.bnd /\ p.dgm = x.dgm /\ p.drops = t
  BY <1>2, <1>3, ZenonT(30) DEF Sound, Ends
<1>6. \A i \in 1..Len(t) : t[i] = 0 => ~x.alive
  BY <1>2, <1>3, SMTT(30)
<1> HIDE DEF p
<1>7. Sound(p) /\ Keeps(x, p)
  <2> HIDE DEF x
  <2> QED
    BY <1>2, <1>5, <1>6, SoundFields, FieldsSound, ZenonT(30)
<1>8. CASE id = 0
  <2>1. q = Exit(p, TRUE)
    BY <1>8
  <2>2. Cause
    BY <1>4, <1>8 DEF Cause
  <2> HIDE DEF Cause, q
  <2>3. Steps(p, q)
    BY <1>7, <2>1, ExitSteps, ZenonT(60)
  <2>4. Steps(x, q)
    BY <1>5, <1>7, <2>3, KeepsTrans, SMTT(30) DEF Steps
  <2> QED
    BY <1>1, <2>2, <2>4, LocalStep, Zenon
<1>9. CASE id # 0
  <2>1. q = ClosePort(p, id, FALSE) /\ id \in FlowIds
    BY <1>3, <1>9
  <2> HIDE DEF q
  <2>2. Sound(q) /\ Keeps(p, q) /\ Same(p, q)
    BY <1>7, <2>1, ClosePortSound, ZenonT(60)
  <2>3. Keeps(x, q) /\ q.pc = x.pc /\ q.err = FALSE
    BY <1>2, <1>5, <1>7, <2>2, KeepsTrans, ZenonT(30) DEF Same
  <2> QED
    BY <1>1, <2>2, <2>3, UserStep, ZenonT(30)
<1> QED
  BY <1>8, <1>9

(* Something is added to what an end has written. *)
LEMMA WriteStep ==
    ASSUME MuxInv, NEW e \in End, NEW q, Steps(ep[e], q), ep' = [ep EXCEPT ![e] = q],
           NEW w \in Seq(Messages), wire' = [wire EXCEPT ![e] = w],
           HasClose(w) => HasClose(wire[e]) \/ q.pc # "run",
           UNCHANGED <<sc, link, used>>, ep[e].pc = "run" /\ q.pc # "run" => Cause
    PROVE  MuxInv'
<1>1. wire \in [End -> Seq(Messages)] /\ used' \in [End -> SUBSET FlowIds] /\ sc' = sc /\ link' = link
  BY DEF MuxInv
<1>2. wire' \in [End -> Seq(Messages)] /\ wire'[e] = w /\ \A x \in End : x # e => wire'[x] = wire[x]
  BY <1>1, SMTT(30)
<1>3. \A x \in End : HasClose(wire'[x]) => HasClose(wire[x]) \/ (x = e /\ q.pc # "run")
  BY <1>2
<1> QED
  BY <1>1, <1>2, <1>3, EndStep, ZenonT(30)

LEMMA Writes ==
    ASSUME MuxInv, NEW e \in End, FrameRecv(e)
    PROVE  MuxInv'
<1> DEFINE p == ep[e]
<1>1. Sound(p) /\ p.err = FALSE /\ p.tx \in Seq(Frames) /\ p.tx # << >>
  BY EndFacts, Zenon DEF FrameRecv, Ends
<1>2. CASE link
  <2> DEFINE f == Head(p.tx)
             t == Tail(p.tx)
             q == [p EXCEPT !.tx = t]
             w == Append(wire[e], f)
  <2>1. f \in Frames /\ t \in Seq(Frames)
    BY <1>1, HeadTailProperties, SMTT(30)
  <2>2. ep' = [ep EXCEPT ![e] = q] /\ wire' = [wire EXCEPT ![e] = w] /\ UNCHANGED <<sc, link, used>>
    BY <1>2 DEF FrameRecv
  <2> HIDE DEF f, t
  <2>3. /\ q \in Ends /\ q.flows = p.flows /\ q.strm = p.strm /\ q.call = p.call
        /\ q.txOpen = p.txOpen /\ q.alive = p.alive /\ q.pc = p.pc /\ q.err = p.err
        /\ q.acc = p.acc /\ q.hold = p.hold /\ q.bnd = p.bnd /\ q.dgm = p.dgm /\ q.drops = p.drops
    BY <1>1, <2>1, ZenonT(30) DEF Sound, Ends
  <2> HIDE DEF q
  <2>4. Sound(q) /\ Keeps(p, q)
    <3> HIDE DEF p
    <3> QED
      BY <1>1, <2>3, SoundFields, FieldsSound, ZenonT(30)
  <2>5. Steps(p, q)
    BY <1>1, <2>3, <2>4, SMTT(30) DEF Steps
  <2>6. wire[e] \in Seq(Messages) /\ f \in Messages /\ f # Close
    BY <2>1, SMTT(30) DEF MuxInv, Messages, Frames, Close
  <2>7. w \in Seq(Messages) /\ (HasClose(w) => HasClose(wire[e]))
    <3>1. Len(w) = Len(wire[e]) + 1 /\ w[Len(w)] = f /\ w \in Seq(Messages)
          /\ \A i \in 1..Len(wire[e]) : w[i] = wire[e][i]
      BY <2>6
    <3> QED
      BY <2>6, <3>1, SMTT(30) DEF HasClose
  <2> HIDE DEF w
  <2> QED
    BY <2>2, <2>3, <2>5, <2>7, WriteStep, ZenonT(30)
<1>3. CASE ~link
  <2>1. Steps(p, Exit(p, FALSE)) /\ Cause
    BY <1>1, <1>3, ExitSteps, ZenonT(30) DEF Cause
  <2> HIDE DEF Cause
  <2>2. /\ ep' = [ep EXCEPT ![e] = Exit(p, FALSE)] /\ UNCHANGED <<sc, wire, link>>
        /\ used' \in [End -> SUBSET FlowIds]
    BY <1>3 DEF FrameRecv, MuxInv
  <2> QED
    BY <2>1, <2>2, LocalStep, ZenonT(30)
<1> QED
  BY <1>2, <1>3


LEMMA Disallows ==
    ASSUME MuxInv, NEW e \in End, WindDownDisallow(e)
    PROVE  MuxInv'
<1> DEFINE p == ep[e]
           f == Finished(p)
           q == [f EXCEPT !.pc = "closetx"]
<1>1. Sound(f) /\ Keeps(p, f) /\ Same(p, f) /\ p.err = FALSE /\ p.pc = "disallow"
  BY EndFacts, FinishedSound, ZenonT(30) DEF WindDownDisallow
<1>2. /\ ep' = [ep EXCEPT ![e] = q] /\ UNCHANGED <<sc, wire, link>>
      /\ used' \in [End -> SUBSET FlowIds]
  BY DEF WindDownDisallow, MuxInv
<1> HIDE DEF f
<1>3. /\ q \in Ends /\ q.flows = f.flows /\ q.strm = f.strm /\ q.call = f.call
      /\ q.txOpen = f.txOpen /\ q.alive = f.alive /\ q.pc = "closetx" /\ q.err = f.err
      /\ q.acc = f.acc /\ q.hold = f.hold /\ q.bnd = f.bnd /\ q.dgm = f.dgm /\ q.drops = f.drops
  BY <1>1, Zenon DEF Sound, Ends
<1> HIDE DEF q
<1>4. Sound(q) /\ Keeps(f, q)
  BY <1>1, <1>3, SoundFields, FieldsSound, ZenonT(60)
<1>5. Steps(p, q)
  BY <1>1, <1>3, <1>4, KeepsTrans, SMTT(30) DEF Steps, Same
<1> QED
  BY <1>1, <1>2, <1>5, LocalStep, ZenonT(30)

LEMMA Closes ==
    ASSUME MuxInv, NEW e \in End, WindDownClose(e)
    PROVE  MuxInv'
<1> DEFINE p == ep[e]
           z == << >>
           q == [p EXCEPT !.pc = "remaining", !.txOpen = FALSE, !.tx = z]
           t == IF p.drain THEN p.tx ELSE z
           w == wire[e] \o t \o <<Close>>
<1>1. Sound(p) /\ p.err = FALSE /\ p.pc = "closetx" /\ p \in Ends /\ p.tx \in Seq(Frames)
  BY EndFacts, Zenon DEF WindDownClose, Ends
<1>2. ep' = [ep EXCEPT ![e] = q] /\ UNCHANGED <<sc, link, used>>
  BY ZenonT(30) DEF WindDownClose, MuxInv
<1>3. wire' = IF link THEN [wire EXCEPT ![e] = w] ELSE wire
  BY ZenonT(30) DEF WindDownClose
<1>4. z \in Seq(Frames) /\ z \in Seq(Messages)
  OBVIOUS
<1>5. wire[e] \in Seq(Messages) /\ p.tx \in Seq(Messages)
  BY <1>1, SMTT(30) DEF MuxInv, Messages
<1>6. w \in Seq(Messages)
  <2>1. t \in Seq(Messages) /\ <<Close>> \in Seq(Messages)
    BY <1>4, <1>5, SMTT(30) DEF Messages
  <2> HIDE DEF t
  <2>2. wire[e] \o t \in Seq(Messages)
    BY <1>5, <2>1, ConcatProperties, SMTT(30)
  <2> QED
    BY <2>1, <2>2, ConcatProperties, SMTT(30)
<1> HIDE DEF z, w
<1>7. /\ q \in Ends /\ q.flows = p.flows /\ q.strm = p.strm /\ q.call = p.call
      /\ q.txOpen = FALSE /\ q.alive = p.alive /\ q.pc = "remaining" /\ q.err = p.err
      /\ q.acc = p.acc /\ q.hold = p.hold /\ q.bnd = p.bnd /\ q.dgm = p.dgm /\ q.drops = p.drops
  BY <1>1, <1>4, ZenonT(60) DEF Ends
<1> HIDE DEF q
<1>8. Sound(q)
  <2> HIDE DEF p
  <2>1. Pointing(q)
    BY <1>1, <1>7, ZenonT(30) DEF Sound, Pointing
  <2>2. Calling(q)
    BY <1>1, <1>7, CallingSame, SMTT(30) DEF Sound
  <2>3. Bounded(q)
    BY <1>1, <1>7, SMTT(30) DEF Sound, Bounded
  <2> QED
    BY <1>7, <2>1, <2>2, <2>3, SMTT(30) DEF Sound
<1>9. Steps(p, q)
  BY <1>1, <1>7, <1>8, SMTT(30) DEF Steps, Keeps
<1>10. CASE link
  BY <1>1, <1>2, <1>3, <1>6, <1>7, <1>9, <1>10, WriteStep, ZenonT(30)
<1>11. CASE ~link
  <2>1. UNCHANGED <<sc, wire, link>> /\ used' \in [End -> SUBSET FlowIds]
    BY <1>2, <1>3, <1>11, SMTT(30) DEF MuxInv
  <2> QED
    BY <1>1, <1>2, <1>9, <2>1, LocalStep, ZenonT(30)
<1> QED
  BY <1>10, <1>11

LEMMA Ended ==
    ASSUME MuxInv, NEW e \in End, WindDownEof(e)
    PROVE  MuxInv'
<1> DEFINE p == ep[e]
           d == DrainFlows(p)
<1>1. Sound(d) /\ Keeps(p, d) /\ p.pc = "remaining"
  BY EndFacts, DrainFlowsSound, ZenonT(30) DEF WindDownEof
<1>2. /\ ep' = [ep EXCEPT ![e] = TaskDone(d)] /\ UNCHANGED <<sc, wire, link>>
      /\ used' \in [End -> SUBSET FlowIds]
  BY DEF WindDownEof, MuxInv
<1> HIDE DEF d
<1>3. Steps(p, TaskDone(d))
  BY <1>1, TaskDoneSteps, KeepsTrans, ZenonT(30) DEF Steps
<1> QED
  BY <1>1, <1>2, <1>3, LocalStep, ZenonT(30)

LEMMA LinkBreaks ==
    ASSUME MuxInv, BreakLink
    PROVE  MuxInv'
<1>1. PICK a \in 0..Len(wire["A"]), b \in 0..Len(wire["B"]) :
        wire' = [e \in End |-> SubSeq(wire[e], 1, IF e = "A" THEN a ELSE b)]
  BY DEF BreakLink
<1>2. link' = FALSE /\ UNCHANGED <<sc, ep, used>>
  BY DEF BreakLink
<1>3. \A e \in End : wire'[e] \in Seq(Messages) /\ (HasClose(wire'[e]) => HasClose(wire[e]))
  <2> SUFFICES ASSUME NEW e \in End
               PROVE  wire'[e] \in Seq(Messages) /\ (HasClose(wire'[e]) => HasClose(wire[e]))
    OBVIOUS
  <2> DEFINE w == wire[e]
             n == IF e = "A" THEN a ELSE b
  <2>1. w \in Seq(Messages) /\ n \in 0..Len(w) /\ wire'[e] = SubSeq(w, 1, n)
    BY <1>1, SMTT(30) DEF MuxInv, End
  <2> HIDE DEF w, n
  <2>2. /\ SubSeq(w, 1, n) \in Seq(Messages) /\ Len(SubSeq(w, 1, n)) = n
        /\ \A i \in 1..n : SubSeq(w, 1, n)[i] = w[i] /\ i \in 1..Len(w)
    BY <2>1
  <2> QED
    BY <2>1, <2>2, SMTT(30) DEF HasClose, w
<1>4. wire' \in [End -> Seq(Messages)]
  BY <1>1, <1>3, SMTT(30)
<1>5. \A e \in End : Sound(ep[e])'
  <2>1. \A e \in End : Sound(ep'[e])
    BY <1>2 DEF MuxInv
  <2> QED
    BY <1>2, <2>1, ZenonT(60) DEF Sound, Pointing, Calling, Bounded
<1>6. Cause'
  BY <1>2 DEF Cause
<1>7. \A e \in End : HasClose(wire'[e]) => ep'[e].pc # "run"
  BY <1>2, <1>3, ZenonT(30) DEF MuxInv, HasClose
<1> HIDE DEF Cause
<1> QED
  BY <1>2, <1>4, <1>5, <1>6, <1>7, ZenonT(30) DEF MuxInv, HasClose


-----------------------------------------------------------------------------
(* The users. *)

LEMMA NewCallSound ==
    ASSUME NEW p, Sound(p), NEW x \in CallType, x.res = "empty"
    PROVE  LET q == [p EXCEPT !.call = Append(@, x)] IN
           /\ Sound(q) /\ Keeps(p, q) /\ Same(p, q)
           /\ Len(p.call) + 1 \in 1..Len(q.call) /\ q.call[Len(p.call) + 1] = x
<1> DEFINE y == Append(p.call, x)
           q == [p EXCEPT !.call = y]
<1>1. p \in Ends /\ p.call \in Seq(CallType)
  BY SoundFields
<1>2. /\ y \in Seq(CallType) /\ Len(y) = Len(p.call) + 1 /\ y[Len(p.call) + 1] = x
      /\ Len(p.call) \in Nat /\ \A c \in 1..Len(p.call) : y[c] = p.call[c]
  BY <1>1
<1> HIDE DEF y
<1>3. /\ q \in Ends /\ Same(p, q) /\ q.flows = p.flows /\ q.strm = p.strm /\ q.call = y
      /\ q.acc = p.acc /\ q.bnd = p.bnd /\ q.dgm = p.dgm /\ q.drops = p.drops
  BY <1>1, <1>2, ZenonT(30) DEF Ends, Same
<1> SUFFICES /\ Sound(q) /\ Keeps(p, q) /\ Same(p, q)
             /\ Len(p.call) + 1 \in 1..Len(q.call) /\ q.call[Len(p.call) + 1] = x
  BY SMTT(30) DEF y
<1> HIDE DEF q
<1>4. Pointing(q)
  <2>1. \A c \in 1..Len(y) : c \in 1..Len(p.call) \/ c = Len(p.call) + 1
    BY <1>2, SMTT(30)
  <2>2. \A c \in 1..Len(y) : y[c].res = "stream" => y[c].s \in 1..Len(p.strm)
    BY <1>2, <2>1, ZenonT(30) DEF Sound, Pointing
  <2> QED
    BY <1>3, <2>2, ZenonT(30) DEF Sound, Pointing, Same
<1>5. Calling(q)
  <2>1. /\ Calling(p) /\ q.txOpen = p.txOpen /\ q.flows = p.flows
        /\ \A c \in 1..Len(p.call) : c \in 1..Len(q.call) /\ q.call[c] = p.call[c]
    BY <1>2, <1>3, SMTT(30) DEF Sound, Same
  <2>2. \A id \in FlowIds : q.flows[id] = p.flows[id]
    BY <2>1, Zenon
  <2>3. \A id \in FlowIds : p.flows[id].call \in 1..Len(p.call) =>
          /\ q.flows[id].call \in 1..Len(q.call)
          /\ q.call[q.flows[id].call] = p.call[p.flows[id].call]
    BY <2>1, ZenonT(30)
  <2> QED
    BY <2>1, <2>2, <2>3, CallingKept, ZenonT(30)
<1>6. Bounded(q)
  BY <1>3, SMTT(30) DEF Sound, Bounded, Same
<1>7. Keeps(p, q)
  BY <1>2, <1>3, SMTT(30) DEF Keeps, Same
<1> QED
  BY <1>2, <1>3, <1>4, <1>5, <1>6, <1>7, SMTT(30) DEF Sound

(* A call that waits for an answer is entered in the table. *)
LEMMA ClaimSound ==
    ASSUME NEW p, Sound(p), NEW id \in FlowIds, NEW c \in 1..Len(p.call),
           p.call[c].id = id, p.call[c].st = "send", p.call[c].res = "empty",
           NEW slot \in {Requested(c), BindRequested(c)}
    PROVE  LET q == [p EXCEPT !.flows[id] = slot] IN Sound(q) /\ Keeps(p, q) /\ Same(p, q)
<1> DEFINE y == [p.flows EXCEPT ![id] = slot]
           q == [p EXCEPT !.flows = y]
<1>1. p \in Ends /\ p.flows \in [FlowIds -> Slots] /\ Len(p.call) \in Nat
  BY SoundFields, LenProperties, ZenonT(30) DEF Ends
<1>2. slot \in Slots /\ slot.k \in {"requested", "bind"} /\ slot.call = c
  BY <1>1, SMTT(30) DEF Slots, Requested, BindRequested
<1>3. y \in [FlowIds -> Slots] /\ y[id] = slot /\ \A i \in FlowIds : i # id => y[i] = p.flows[i]
  BY <1>1, <1>2
<1> HIDE DEF y
<1>4. /\ q \in Ends /\ Same(p, q) /\ q.flows = y /\ q.strm = p.strm /\ q.call = p.call
      /\ q.acc = p.acc /\ q.bnd = p.bnd /\ q.dgm = p.dgm /\ q.drops = p.drops
  BY <1>1, <1>3, ZenonT(60) DEF Ends, Same
<1> SUFFICES Sound(q) /\ Keeps(p, q) /\ Same(p, q)
  BY SMTT(30) DEF y
<1> HIDE DEF q
<1>5. Pointing(q)
  BY <1>2, <1>3, <1>4, ZenonT(30) DEF Sound, Pointing, Same
<1>6. Calling(q)
  <2> SUFFICES ASSUME NEW i \in FlowIds, y[i].k \in {"requested", "bind"}
               PROVE  /\ y[i].call \in 1..Len(p.call)
                      /\ p.call[y[i].call].id = i
                      /\ p.call[y[i].call].st \in {"send", "wait", "cancelled", "closed"}
                      /\ p.call[y[i].call].st \in {"send", "wait"} => p.call[y[i].call].res = "empty"
                      /\ p.call[y[i].call].st = "closed" => ~p.txOpen
    <3>1. q.flows = y /\ q.call = p.call /\ q.txOpen = p.txOpen
      BY <1>4, ZenonT(30) DEF Same
    <3> QED
      BY <3>1, CallingMeans
  <2>1. CASE i = id
    BY <1>2, <1>3, <2>1, ZenonT(30)
  <2>2. CASE i # id
    <3>1. y[i] = p.flows[i]
      BY <1>3, <2>2
    <3>2. p.flows[i].k \in {"requested", "bind"} =>
            /\ p.flows[i].call \in 1..Len(p.call)
            /\ p.call[p.flows[i].call].id = i
            /\ p.call[p.flows[i].call].st \in {"send", "wait", "cancelled", "closed"}
            /\ p.call[p.flows[i].call].st \in {"send", "wait"} => p.call[p.flows[i].call].res = "empty"
            /\ p.call[p.flows[i].call].st = "closed" => ~p.txOpen
      BY ZenonT(30) DEF Sound, Calling
    <3> QED
      BY <3>1, <3>2, ZenonT(30)
  <2> QED
    BY <2>1, <2>2, ZenonT(30)
<1>7. Bounded(q)
  BY <1>4 DEF Sound, Bounded, Same
<1> QED
  BY <1>4, <1>5, <1>6, <1>7, SMTT(30) DEF Sound, Keeps, Same

LEMMA CallStarts ==
    ASSUME MuxInv, NEW e \in End, NEW kind \in {"stream", "bind"}, StartCall(e, kind)
    PROVE  MuxInv'
<1>1. PICK id \in FlowIds :
        /\ ep' = [ep EXCEPT
                ![e].call = Append(@, [kind |-> kind, id |-> id, st |-> "send",
                                       tries |-> sc.retries - 1, res |-> "empty", s |-> 0]),
                ![e].flows[id] = Slot(kind, Len(ep[e].call) + 1)]
        /\ used' = [used EXCEPT ![e] = @ \cup {id}]
  BY ZenonT(30) DEF StartCall
<1> DEFINE p == ep[e]
           n == sc.retries - 1
           x == [kind |-> kind, id |-> id, st |-> "send", tries |-> n, res |-> "empty", s |-> 0]
           c == Len(p.call) + 1
           slot == Slot(kind, c)
           r == [p EXCEPT !.call = Append(@, x)]
           q == [r EXCEPT !.flows[id] = slot]
<1>2. Sound(p) /\ p.err = FALSE /\ p \in Ends /\ ep \in [End -> Ends]
  BY EndFacts DEF MuxInv
<1>3. n \in Nat
  BY ScenarioFacts, SMTT(30)
<1>4. x \in CallType /\ x.res = "empty" /\ x.id = id /\ x.st = "send"
  BY <1>3 DEF CallType, CallStates, Results
<1>5. ep' = [ep EXCEPT ![e] = q]
  <2> HIDE DEF x, slot
  <2>1. ep' = [ep EXCEPT ![e].call = Append(@, x), ![e].flows[id] = slot]
    BY <1>1 DEF x, slot
  <2> QED
    BY <1>2, <2>1, ZenonT(30)
<1>6. slot \in {Requested(c), BindRequested(c)}
  BY DEF Slot
<1> HIDE DEF x, slot, n
<1>7. Sound(r) /\ Keeps(p, r) /\ Same(p, r) /\ c \in 1..Len(r.call) /\ r.call[c] = x
  BY <1>2, <1>4, NewCallSound, SMTT(30)
<1> HIDE DEF r, c
<1>8. Sound(q) /\ Keeps(r, q) /\ Same(r, q)
  BY <1>4, <1>6, <1>7, ClaimSound, ZenonT(30)
<1> HIDE DEF q
<1>9. Keeps(p, q) /\ q.pc = p.pc /\ q.err = FALSE
  BY <1>2, <1>7, <1>8, KeepsTrans, SMTT(30) DEF Same
<1>10. used' \in [End -> SUBSET FlowIds] /\ UNCHANGED <<sc, wire, link>>
  BY <1>1, SMTT(30) DEF MuxInv, StartCall
<1> QED
  BY <1>5, <1>8, <1>9, <1>10, UserStep, ZenonT(60)


LEMMA CallFacts ==
    ASSUME MuxInv, NEW e \in End, NEW c \in 1..Len(ep[e].call)
    PROVE  /\ Sound(ep[e]) /\ ep[e].err = FALSE /\ ep[e] \in Ends /\ ep \in [End -> Ends]
           /\ ep[e].call[c] \in CallType /\ ep[e].txOpen \in BOOLEAN
<1>1. Sound(ep[e]) /\ ep[e].err = FALSE /\ ep[e] \in Ends /\ ep \in [End -> Ends]
  BY EndFacts, SMTT(30) DEF MuxInv
<1>2. ep[e].call \in Seq(CallType) /\ ep[e].txOpen \in BOOLEAN
  BY <1>1, SMTT(30) DEF Ends
<1> QED
  BY <1>1, <1>2, SMTT(30)

(* A call whose oneshot is filled has left the table. *)
LEMMA AnsweredUnclaimed ==
    ASSUME NEW p, Sound(p), NEW c \in 1..Len(p.call), p.call[c].st = "wait", p.call[c].res # "empty"
    PROVE  Unclaimed(p, c)
BY ZenonT(30) DEF Sound, Calling, Unclaimed

LEMMA RequestSent ==
    ASSUME MuxInv, NEW e \in End, NEW c \in 1..Len(ep[e].call), SendRequest(e, c)
    PROVE  MuxInv'
<1> DEFINE p == ep[e]
           call == p.call[c]
           f == IF call.kind = "stream" THEN Connect(call.id, Rwnd[e]) ELSE Bind(call.id)
           r == Send(p, f)
           st == IF p.txOpen THEN "wait" ELSE "closed"
           x == [call EXCEPT !.st = st]
           q == [r EXCEPT !.call[c] = x]
<1>0. call.st = "send"
  BY Zenon DEF SendRequest
<1>1. Sound(p) /\ p.err = FALSE /\ call \in CallType /\ call.st = "send" /\ p.txOpen \in BOOLEAN
  BY <1>0, CallFacts, ZenonT(30)
<1>2. f \in Frames
  <2>1. call.id \in FlowIds /\ Rwnd[e] \in Nat
    BY <1>1, ConstantsAssumption, SMTT(30) DEF CallType
  <2> QED
    BY <2>1, FrameTypes, SMTT(30)
<1>3. Sound(r) /\ Keeps(p, r) /\ Same(p, r) /\ r.call = p.call /\ r.flows = p.flows /\ r.strm = p.strm
  BY <1>1, <1>2, SendSound, ZenonT(60)
<1>4. ep' = [ep EXCEPT ![e] = q]
  <2>1. ep' = [ep EXCEPT ![e] = [r EXCEPT !.call[c].st = st]]
    BY Zenon DEF SendRequest
  <2> QED
    BY <1>3, <2>1, ZenonT(60)
<1> HIDE DEF r, f, call
<1>5. st \in {"wait", "closed"} /\ (st = "closed" => ~p.txOpen)
  OBVIOUS
<1> HIDE DEF st
<1>6. x \in CallType /\ x.st = st /\ x.res = call.res /\ x.id = call.id /\ x.s = call.s
  BY <1>1, <1>5, SMTT(30) DEF CallType, CallStates
<1> HIDE DEF x
<1>7. x.res = "stream" => x.s \in 1..Len(r.strm)
  BY <1>1, <1>3, <1>6, ZenonT(60) DEF Sound, Pointing, call
<1>8. Unclaimed(r, c) \/ x.res = "empty"
  <2>1. r.call[c].st = "send" /\ x.res = r.call[c].res
    BY <1>1, <1>3, <1>6, SMTT(30) DEF call
  <2> QED
    BY <1>3, <2>1, ZenonT(60) DEF Sound, Calling, Unclaimed
<1>9. /\ r.call[c].st # "cancelled" /\ x.id = r.call[c].id /\ x.st \in {"wait", "closed"}
      /\ c \in 1..Len(r.call) /\ (x.st = "closed" => ~r.txOpen)
  BY <1>1, <1>3, <1>5, <1>6, ZenonT(30) DEF call, Same
<1>10. Sound(q) /\ Keeps(r, q) /\ Same(r, q)
  BY <1>3, <1>6, <1>7, <1>8, <1>9, CallSound, SMTT(30)
<1> HIDE DEF q
<1>11. Keeps(p, q) /\ q.pc = p.pc /\ q.err = FALSE
  BY <1>1, <1>3, <1>10, KeepsTrans, SMTT(30) DEF Same
<1>12. used' \in [End -> SUBSET FlowIds] /\ UNCHANGED <<sc, wire, link>>
  BY ZenonT(60) DEF MuxInv, SendRequest
<1> QED
  BY <1>4, <1>10, <1>11, <1>12, UserStep, ZenonT(60)

LEMMA CallResumes ==
    ASSUME MuxInv, NEW e \in End, NEW c \in 1..Len(ep[e].call), ResumeCall(e, c)
    PROVE  MuxInv'
<1> DEFINE p == ep[e]
           call == p.call[c]
<1>1. /\ Sound(p) /\ p.err = FALSE /\ call \in CallType /\ call.st = "wait" /\ call.res # "empty"
      /\ p \in Ends /\ ep \in [End -> Ends]
  <2>1. call.st = "wait" /\ call.res # "empty"
    BY ZenonT(30) DEF ResumeCall
  <2> QED
    BY <2>1, CallFacts, ZenonT(60)
<1>2. Unclaimed(p, c)
  BY <1>1, AnsweredUnclaimed, SMTT(30)
<1>3. UNCHANGED <<sc, wire, link>> /\ used \in [End -> SUBSET FlowIds]
  BY Zenon DEF ResumeCall, MuxInv
<1>4. CASE /\ call.res = "stream"
           /\ ep' = [ep EXCEPT ![e].call[c].st = "ok", ![e].strm[call.s].own = "user"]
           /\ UNCHANGED used
  <2> DEFINE x == [call EXCEPT !.st = "ok"]
             s == call.s
             t == p.strm[s]
             y == [t EXCEPT !.own = "user"]
             r == [p EXCEPT !.call[c] = x]
             q == [r EXCEPT !.strm[s] = y]
  <2>1. s \in 1..Len(p.strm) /\ t \in Streams
    <3>1. s \in 1..Len(p.strm) /\ p.strm \in Seq(Streams)
      BY <1>1, <1>4, SoundFields, ZenonT(30) DEF Sound, Pointing
    <3> HIDE DEF s, p
    <3> QED
      BY <3>1
  <2>2. ep' = [ep EXCEPT ![e] = q]
    BY <1>1, <1>4, ZenonT(30)
  <2>3. y \in Streams
    <3> HIDE DEF t
    <3> QED
      BY <2>1, StreamFields, ZenonT(30)
  <2>4. x \in CallType /\ x.s = s
    <3> HIDE DEF call
    <3> QED
      BY <1>1, SMTT(30) DEF CallType, CallStates
  <2> HIDE DEF x, y, s
  <2>5. Sound(r) /\ Keeps(p, r) /\ Same(p, r) /\ r.strm = p.strm
    BY <1>1, <1>2, <2>1, <2>4, CallSound, ZenonT(30)
  <2> HIDE DEF r
  <2>6. Sound(q) /\ Keeps(r, q) /\ Same(r, q)
    BY <2>1, <2>3, <2>5, StreamSound, ZenonT(30)
  <2> HIDE DEF q
  <2>7. Keeps(p, q) /\ q.pc = p.pc /\ q.err = FALSE
    BY <1>1, <2>5, <2>6, KeepsTrans, SMTT(30) DEF Same
  <2>8. used' \in [End -> SUBSET FlowIds]
    BY <1>3, <1>4, ZenonT(30)
  <2> QED
    BY <1>3, <2>2, <2>6, <2>7, <2>8, UserStep, ZenonT(30)
<1>5. ASSUME call.res = "none", call.tries > 0, NEW id \in FlowIds,
             ep' = [ep EXCEPT ![e].flows[id] = Requested(c),
                              ![e].call[c] = [call EXCEPT !.st = "send", !.id = id,
                                   !.tries = call.tries - 1, !.res = "empty"]],
             used' = [used EXCEPT ![e] = @ \cup {id}]
      PROVE  MuxInv'
  <2> DEFINE n == call.tries - 1
             x == [call EXCEPT !.st = "send", !.id = id, !.tries = n, !.res = "empty"]
             r == [p EXCEPT !.call[c] = x]
             q == [r EXCEPT !.flows[id] = Requested(c)]
  <2>1. ep' = [ep EXCEPT ![e] = q]
    <3>1. ep' = [ep EXCEPT ![e].flows[id] = Requested(c), ![e].call[c] = x]
      BY <1>5, SMTT(30)
    <3> HIDE DEF x
    <3> QED
      BY <1>1, <3>1, ZenonT(30)
  <2>2. n \in Nat
    BY <1>1, <1>5 DEF CallType
  <2>3. x \in CallType /\ x.st = "send" /\ x.id = id /\ x.res = "empty"
    <3> HIDE DEF call, n
    <3> QED
      BY <1>1, <2>2, ZenonT(30) DEF CallType, CallStates, Results
  <2> HIDE DEF x, n
  <2>4. Sound(r) /\ Keeps(p, r) /\ Same(p, r)
    BY <1>1, <1>2, <2>3, CallSound, SMTT(30)
  <2>5. c \in 1..Len(r.call) /\ r.call[c] = x
    BY <1>1, SoundFields, SMTT(30) DEF Ends
  <2> HIDE DEF r
  <2>6. Sound(q) /\ Keeps(r, q) /\ Same(r, q)
    BY <2>3, <2>4, <2>5, ClaimSound, ZenonT(60)
  <2> HIDE DEF q
  <2>7. Keeps(p, q) /\ q.pc = p.pc /\ q.err = FALSE
    BY <1>1, <2>4, <2>6, KeepsTrans, SMTT(30) DEF Same
  <2>8. used' \in [End -> SUBSET FlowIds]
    BY <1>3, <1>5, SMTT(30)
  <2> QED
    BY <1>3, <2>1, <2>6, <2>7, <2>8, UserStep, ZenonT(30)
<1>6. ASSUME call.res \in {"dropped", "yes", "no", "none"},
             ep' = [ep EXCEPT ![e].call[c].st =
                      CASE call.res = "none" -> "rejected"
                        [] call.res = "dropped" -> "closed"
                        [] call.res = "yes" -> "ok"
                        [] call.res = "no" -> "refused"],
             UNCHANGED used
      PROVE  MuxInv'
  <2> DEFINE st == CASE call.res = "none" -> "rejected"
                     [] call.res = "dropped" -> "closed"
                     [] call.res = "yes" -> "ok"
                     [] call.res = "no" -> "refused"
             x == [call EXCEPT !.st = st]
             q == [p EXCEPT !.call[c] = x]
  <2>1. st \in CallStates
    BY <1>6, ZenonT(30) DEF CallStates
  <2>2. ep' = [ep EXCEPT ![e] = q]
    BY <1>6
  <2> HIDE DEF st
  <2>3. x \in CallType /\ x.res = call.res
    <3> HIDE DEF call
    <3> QED
      BY <1>1, <2>1, SMTT(30) DEF CallType
  <2> HIDE DEF x
  <2>4. Sound(q) /\ Keeps(p, q) /\ Same(p, q)
    BY <1>1, <1>2, <1>6, <2>3, CallSound, ZenonT(60)
  <2> HIDE DEF q
  <2>5. used' \in [End -> SUBSET FlowIds]
    BY <1>3, <1>6, ZenonT(30)
  <2> QED
    BY <1>1, <1>3, <2>2, <2>4, <2>5, UserStep, ZenonT(30) DEF Same
<1> QED
  BY <1>4, <1>5, <1>6, ZenonT(60) DEF ResumeCall

LEMMA CallCancelled ==
    ASSUME MuxInv, NEW e \in End, NEW c \in 1..Len(ep[e].call), CancelCall(e, c)
    PROVE  MuxInv'
<1> DEFINE p == ep[e]
           call == p.call[c]
           x == [call EXCEPT !.st = "cancelled"]
           r == [p EXCEPT !.call[c] = x]
           q == IF call.res = "stream" THEN DropStream(r, call.s) ELSE r
<1>1. Sound(p) /\ p.err = FALSE /\ call \in CallType /\ call.st = "wait"
  <2>1. call.st = "wait"
    BY DEF CancelCall
  <2> QED
    BY <2>1, CallFacts, ZenonT(30)
<1>2. ep' = [ep EXCEPT ![e] = q]
  BY SMTT(30) DEF CancelCall
<1>3. call.res = "stream" => call.s \in 1..Len(p.strm)
  BY <1>1, ZenonT(30) DEF Sound, Pointing
<1>4. x \in CallType /\ x.st = "cancelled" /\ x.res = call.res /\ x.id = call.id /\ x.s = call.s
  <2> HIDE DEF call
  <2> QED
    BY <1>1, SMTT(30) DEF CallType, CallStates
<1> HIDE DEF x
<1>5. Sound(r) /\ Keeps(p, r) /\ Same(p, r) /\ r.strm = p.strm
  BY <1>1, <1>3, <1>4, CallSound, ZenonT(30)
<1> HIDE DEF r
<1>6. Sound(q) /\ Keeps(r, q) /\ Same(r, q)
  <2>1. CASE call.res = "stream"
    BY <1>3, <1>5, <2>1, DropStreamSound, SMTT(30)
  <2>2. CASE call.res # "stream"
    BY <1>5, <2>2, ZenonT(60) DEF Keeps, Same
  <2> QED
    BY <2>1, <2>2, ZenonT(60)
<1> HIDE DEF q
<1>7. Keeps(p, q) /\ q.pc = p.pc /\ q.err = FALSE
  BY <1>1, <1>5, <1>6, KeepsTrans, SMTT(30) DEF Same
<1>8. used' \in [End -> SUBSET FlowIds] /\ UNCHANGED <<sc, wire, link>>
  BY SMTT(30) DEF MuxInv, CancelCall
<1> QED
  BY <1>2, <1>6, <1>7, <1>8, UserStep, Zenon


LEMMA StreamAccepted ==
    ASSUME MuxInv, NEW e \in End, AcceptStream(e)
    PROVE  MuxInv'
<1> DEFINE p == ep[e]
           s == Head(p.acc)
           a == Tail(p.acc)
           t == p.strm[s]
           y == [t EXCEPT !.own = "user"]
           r == [p EXCEPT !.strm[s] = y]
           q == [r EXCEPT !.acc = a]
<1>1. /\ Sound(p) /\ p.err = FALSE /\ p \in Ends /\ ep \in [End -> Ends] /\ p.acc # << >>
      /\ UNCHANGED <<sc, wire, link>> /\ used' \in [End -> SUBSET FlowIds]
  BY EndFacts, ZenonT(30) DEF MuxInv, AcceptStream
<1>2. ep' = [ep EXCEPT ![e] = q]
  BY <1>1, ZenonT(60) DEF AcceptStream, Ends
<1>3. p.acc \in Seq(Nat) /\ p.strm \in Seq(Streams) /\ \A i \in 1..Len(p.acc) : p.acc[i] \in 1..Len(p.strm)
  BY <1>1, SoundFields, SMTT(30)
<1>4. /\ a \in Seq(Nat) /\ Len(a) = Len(p.acc) - 1 /\ s = p.acc[1] /\ 1 \in 1..Len(p.acc)
      /\ \A i \in 1..Len(a) : a[i] = p.acc[i + 1] /\ i + 1 \in 1..Len(p.acc)
  BY <1>1, <1>3, HeadTailProperties, SMTT(30)
<1>5. s \in 1..Len(p.strm) /\ t \in Streams /\ \A i \in 1..Len(a) : a[i] \in 1..Len(p.strm)
  BY <1>3, <1>4
<1>6. y \in Streams
  <2> HIDE DEF t
  <2> QED
    BY <1>5, StreamFields, ZenonT(30)
<1> HIDE DEF y, s
<1>7. /\ Sound(r) /\ Keeps(p, r) /\ Same(p, r) /\ Len(r.strm) = Len(p.strm)
  <2> HIDE DEF p
  <2> QED
    BY <1>1, <1>5, <1>6, StreamSound, SMTT(30)
<1> HIDE DEF r, a
<1>8. /\ q \in Ends /\ Same(r, q) /\ q.flows = r.flows /\ q.strm = r.strm /\ q.call = r.call
      /\ q.acc = a /\ q.bnd = r.bnd /\ q.dgm = r.dgm /\ q.drops = r.drops
  BY <1>4, <1>7, ZenonT(30) DEF Sound, Ends, Same
<1>9. Len(a) <= AcceptCap
  <2>1. Len(p.acc) <= AcceptCap /\ Len(p.acc) \in Nat
    BY <1>1, <1>3, SMTT(30) DEF Sound, Bounded
  <2> QED
    BY <1>4, <2>1, ConstantsAssumption, SMTT(30)
<1> HIDE DEF q
<1>10. Sound(q) /\ Keeps(r, q)
  <2>1. \A i \in 1..Len(q.acc) : q.acc[i] \in 1..Len(r.strm)
    BY <1>5, <1>7, <1>8, ZenonT(60)
  <2>2. /\ r.hold.k = "stream" => r.hold.v \in 1..Len(r.strm)
        /\ Len(r.bnd) <= sc.bindCap /\ Len(r.dgm) <= DatagramCap
        /\ \A i \in 1..Len(r.drops) : r.drops[i] = 0 => ~r.alive
    BY <1>7, SoundFields, SMTT(30)
  <2> HIDE DEF p
  <2> QED
    BY <1>7, <1>8, <1>9, <2>1, <2>2, FieldsSound, ZenonT(30) DEF Same
<1>11. Keeps(p, q) /\ q.pc = p.pc /\ q.err = FALSE
  BY <1>1, <1>7, <1>8, <1>10, KeepsTrans, SMTT(30) DEF Same
<1> QED
  BY <1>1, <1>2, <1>10, <1>11, UserStep, ZenonT(30)

(* A field that nothing in Sound is about. *)
LEMMA OtherSound ==
    ASSUME NEW p, Sound(p), NEW q \in Ends, Same(p, q),
           q.flows = p.flows, Len(q.strm) = Len(p.strm), q.call = p.call,
           q.acc = p.acc, q.drops = p.drops, Len(q.bnd) <= sc.bindCap, Len(q.dgm) <= DatagramCap
    PROVE  Sound(q) /\ Keeps(p, q)
<1>1. /\ p.hold.k = "stream" => p.hold.v \in 1..Len(p.strm)
      /\ Len(p.acc) <= AcceptCap /\ \A i \in 1..Len(p.acc) : p.acc[i] \in 1..Len(p.strm)
      /\ \A i \in 1..Len(p.drops) : p.drops[i] = 0 => ~p.alive
  BY SoundFields, SMTT(30)
<1>2. q.txOpen = p.txOpen /\ q.alive = p.alive /\ q.pc = p.pc /\ q.hold = p.hold
  BY DEF Same
<1> QED
  BY <1>1, <1>2, FieldsSound, ZenonT(30)

LEMMA SameStep ==
    ASSUME MuxInv, NEW e \in End, NEW q, Sound(q), Keeps(ep[e], q), Same(ep[e], q),
           ep' = [ep EXCEPT ![e] = q], UNCHANGED <<sc, wire, link, used>>
    PROVE  MuxInv'
<1>1. q.pc = ep[e].pc /\ q.err = FALSE /\ used' \in [End -> SUBSET FlowIds]
  BY EndFacts DEF Same, MuxInv
<1> QED
  BY <1>1, UserStep, ZenonT(30)

LEMMA OtherField ==
    ASSUME MuxInv, NEW e \in End, NEW q \in Ends, Same(ep[e], q),
           q.flows = ep[e].flows, Len(q.strm) = Len(ep[e].strm), q.call = ep[e].call,
           q.acc = ep[e].acc, q.drops = ep[e].drops,
           Len(q.bnd) <= sc.bindCap, Len(q.dgm) <= DatagramCap,
           ep' = [ep EXCEPT ![e] = q], UNCHANGED <<sc, wire, link, used>>
    PROVE  MuxInv'
<1>1. Sound(q) /\ Keeps(ep[e], q)
  BY EndFacts, OtherSound, ZenonT(30)
<1> QED
  BY <1>1, SameStep, ZenonT(30)

LEMMA DatagramTaken ==
    ASSUME MuxInv, NEW e \in End, GetDatagram(e)
    PROVE  MuxInv'
<1> DEFINE p == ep[e]
           d == Tail(p.dgm)
           g == Append(p.dgot, Head(p.dgm))
           q == [p EXCEPT !.dgm = d, !.dgot = g]
<1>1. /\ Sound(p) /\ p \in Ends /\ ep \in [End -> Ends] /\ p.dgm # << >>
      /\ UNCHANGED <<sc, wire, link, used>>
  BY EndFacts DEF MuxInv, GetDatagram
<1>2. ep' = [ep EXCEPT ![e] = q]
  BY <1>1, ZenonT(60) DEF GetDatagram, Ends
<1>3. p.dgm \in Seq(Nat) /\ p.dgot \in Seq(Nat) /\ Len(p.dgm) <= DatagramCap
  BY <1>1, SoundFields, ZenonT(30) DEF Ends
<1>4. d \in Seq(Nat) /\ Len(d) = Len(p.dgm) - 1 /\ Head(p.dgm) \in Nat
  BY <1>1, <1>3, HeadTailProperties, ZenonT(30)
<1>5. g \in Seq(Nat) /\ Len(d) <= DatagramCap
  BY <1>3, <1>4, ConstantsAssumption, SMTT(30)
<1> HIDE DEF d, g
<1>6. /\ q \in Ends /\ Same(p, q) /\ q.flows = p.flows /\ q.strm = p.strm /\ q.call = p.call
      /\ q.acc = p.acc /\ q.bnd = p.bnd /\ q.dgm = d /\ q.drops = p.drops
  BY <1>1, <1>4, <1>5, ZenonT(60) DEF Ends, Same
<1> HIDE DEF q
<1>7. Len(q.bnd) <= sc.bindCap
  BY <1>1, <1>6, SoundFields, ZenonT(30)
<1> QED
  BY <1>1, <1>2, <1>5, <1>6, <1>7, OtherField, ZenonT(30)

LEMMA BindTaken ==
    ASSUME MuxInv, NEW e \in End, NextBindRequest(e)
    PROVE  MuxInv'
<1> DEFINE p == ep[e]
           b == Tail(p.bnd)
           h == p.held \cup {[id |-> Head(p.bnd), reply |-> "no"]}
           q == [p EXCEPT !.bnd = b, !.held = h]
<1>1. /\ Sound(p) /\ p \in Ends /\ ep \in [End -> Ends] /\ p.bnd # << >>
      /\ UNCHANGED <<sc, wire, link, used>> /\ sc.bindCap \in Nat
  BY EndFacts, ScenarioFacts, ZenonT(30) DEF MuxInv, NextBindRequest
<1>2. ep' = [ep EXCEPT ![e] = q]
  BY <1>1, ZenonT(60) DEF NextBindRequest, Ends
<1>3. p.bnd \in Seq(FlowIds) /\ Len(p.bnd) <= sc.bindCap
      /\ p.held \in SUBSET [id : FlowIds, reply : {"no", "yes"}]
  BY <1>1, SoundFields, ZenonT(30) DEF Ends
<1>4. b \in Seq(FlowIds) /\ Len(b) = Len(p.bnd) - 1 /\ Head(p.bnd) \in FlowIds
  BY <1>1, <1>3, HeadTailProperties, SMTT(30)
<1>5. h \in SUBSET [id : FlowIds, reply : {"no", "yes"}] /\ Len(b) <= sc.bindCap
  BY <1>1, <1>3, <1>4, SMTT(30)
<1> HIDE DEF b, h
<1>6. /\ q \in Ends /\ Same(p, q) /\ q.flows = p.flows /\ q.strm = p.strm /\ q.call = p.call
      /\ q.acc = p.acc /\ q.bnd = b /\ q.dgm = p.dgm /\ q.drops = p.drops
  BY <1>1, <1>4, <1>5, ZenonT(30) DEF Ends, Same
<1> HIDE DEF q
<1>7. Len(q.dgm) <= DatagramCap
  BY <1>1, <1>6, SoundFields, SMTT(30)
<1> QED
  BY <1>1, <1>2, <1>5, <1>6, <1>7, OtherField, ZenonT(30)


LEMMA StreamFacts ==
    ASSUME MuxInv, NEW e \in End, NEW s \in 1..Len(ep[e].strm)
    PROVE  Sound(ep[e]) /\ ep[e].strm[s] \in Streams /\ s \in Nat
<1>1. Sound(ep[e]) /\ ep[e] \in Ends
  BY EndFacts, ZenonT(30)
<1>2. ep[e].strm \in Seq(Streams)
  BY <1>1 DEF Ends
<1> QED
  BY <1>1, <1>2, SMTT(30)

LEMMA DatagramSent ==
    ASSUME MuxInv, NEW e \in End, SendDatagram(e)
    PROVE  MuxInv'
<1> DEFINE p == ep[e]
           n == p.dsent + 1
           r == Send(p, Datagram(n))
           q == [r EXCEPT !.dsent = n]
<1>0. Sound(p) /\ p \in Ends
  BY EndFacts, ZenonT(30)
<1>1. Sound(p) /\ n \in Nat /\ UNCHANGED <<sc, wire, link, used>>
  BY <1>0, SMTT(60) DEF SendDatagram, Ends
<1>2. ep' = [ep EXCEPT ![e] = q]
  BY SMTT(30) DEF SendDatagram
<1>3. Sound(r) /\ Keeps(p, r) /\ Same(p, r)
  BY <1>1, FrameTypes, SendSound, ZenonT(30)
<1> HIDE DEF r, n
<1>4. /\ q \in Ends /\ Same(r, q) /\ q.flows = r.flows /\ q.strm = r.strm /\ q.call = r.call
      /\ q.acc = r.acc /\ q.bnd = r.bnd /\ q.dgm = r.dgm /\ q.drops = r.drops
  BY <1>1, <1>3, ZenonT(60) DEF Sound, Ends, Same
<1> HIDE DEF q
<1>5. Sound(q) /\ Keeps(r, q)
  BY <1>3, <1>4, SoundFields, OtherSound, ZenonT(30)
<1>6. Keeps(p, q) /\ Same(p, q)
  BY <1>3, <1>4, <1>5, KeepsTrans, SameTrans, SMTT(30)
<1> QED
  BY <1>1, <1>2, <1>5, <1>6, SameStep, ZenonT(30)

LEMMA StreamWrites ==
    ASSUME MuxInv, NEW e \in End, NEW s \in 1..Len(ep[e].strm), Write(e, s)
    PROVE  MuxInv'
<1> DEFINE p == ep[e]
           st == p.strm[s]
           f == Push(st.id, s, st.sent + 1)
           r == Send(p, f)
           m == st.credit - 1
           n == IF p.txOpen THEN st.sent + 1 ELSE st.sent
           x == [st EXCEPT !.credit = m, !.sent = n]
           q == [r EXCEPT !.strm[s] = x]
<1>1. Sound(p) /\ st \in Streams /\ s \in Nat
  BY StreamFacts, SMTT(30)
<1>2. st.id \in FlowIds /\ st.sent + 1 \in Nat /\ n \in Nat /\ st.credit \in Nat
  <2> HIDE DEF st
  <2> QED
    BY <1>1, StreamValues, SMTT(30)
<1>3. m \in Nat /\ UNCHANGED <<sc, wire, link, used>>
  <2>1. st.credit > 0 /\ UNCHANGED <<sc, wire, link, used>>
    BY ZenonT(30) DEF Write
  <2> HIDE DEF st
  <2> QED
    BY <1>2, <2>1
<1>4. f \in Frames
  <2> HIDE DEF st
  <2> QED
    BY <1>1, <1>2, FrameTypes, SMTT(30)
<1>5. ep' = [ep EXCEPT ![e] = q]
  BY ZenonT(30) DEF Write
<1> HIDE DEF st, f, n, m
<1>6. x \in Streams
  <2> DEFINE y == [st EXCEPT !.credit = m]
  <2>1. x = [y EXCEPT !.sent = n]
    OBVIOUS
  <2>2. y \in Streams
    BY <1>1, <1>3, StreamFields, ZenonT(30)
  <2> HIDE DEF y, x
  <2> QED
    BY <1>2, <2>1, <2>2, StreamFields, ZenonT(30)
<1>7. Sound(r) /\ Keeps(p, r) /\ Same(p, r) /\ r.strm = p.strm
  BY <1>1, <1>4, SendSound, SMTT(30)
<1> HIDE DEF x, r
<1>8. Sound(q) /\ Keeps(r, q) /\ Same(r, q)
  BY <1>6, <1>7, StreamSound, SMTT(30)
<1> HIDE DEF q
<1>9. Keeps(p, q) /\ Same(p, q)
  BY <1>7, <1>8, KeepsTrans, SameTrans, SMTT(30)
<1> QED
  BY <1>3, <1>5, <1>8, <1>9, SameStep, ZenonT(30)

LEMMA StreamReads ==
    ASSUME MuxInv, NEW e \in End, NEW s \in 1..Len(ep[e].strm), Read(e, s)
    PROVE  MuxInv'
<1> DEFINE p == ep[e]
           st == p.strm[s]
           due == st.since + 1 >= st.thr
           t == Tail(st.q)
           g == Append(st.got, Head(st.q))
           n == IF due THEN 0 ELSE st.since + 1
           x == [st EXCEPT !.q = t, !.got = g, !.since = n]
           r == [p EXCEPT !.strm[s] = x]
           f == Ack(st.id, st.since + 1)
           q == IF due THEN Send(r, f) ELSE r
<1>1. Sound(p) /\ st \in Streams
  BY StreamFacts, SMTT(30)
<1>2. /\ st.id \in FlowIds /\ st.since + 1 \in Nat /\ n \in Nat
      /\ st.q \in Seq(Words) /\ st.got \in Seq(Words)
  <2> HIDE DEF st
  <2>1. /\ st.id \in FlowIds /\ st.since \in Nat /\ st.q \in Seq(Words) /\ st.got \in Seq(Words)
    BY <1>1, StreamValues, ZenonT(30)
  <2> QED
    BY <2>1, SMTT(30)
<1>3. ep' = [ep EXCEPT ![e] = q] /\ st.q # << >> /\ UNCHANGED <<sc, wire, link, used>>
  BY ZenonT(30) DEF Read
<1>4. t \in Seq(Words) /\ g \in Seq(Words)
  BY <1>2, <1>3, HeadTailProperties, SMTT(30)
<1>5. f \in Frames
  <2> HIDE DEF st
  <2> QED
    BY <1>2, FrameTypes
<1> HIDE DEF st, t, g, n, f, due
<1>6. x \in Streams
  <2> DEFINE y == [st EXCEPT !.q = t]
             z == [y EXCEPT !.got = g]
  <2>1. x = [z EXCEPT !.since = n]
    OBVIOUS
  <2>2. y \in Streams
    BY <1>1, <1>4, StreamFields, ZenonT(30)
  <2> HIDE DEF y, x
  <2>3. z \in Streams
    BY <1>4, <2>2, StreamFields, ZenonT(60)
  <2> HIDE DEF z
  <2> QED
    BY <1>2, <2>1, <2>3, StreamFields, ZenonT(30)
<1> HIDE DEF x
<1>7. Sound(r) /\ Keeps(p, r) /\ Same(p, r)
  BY <1>1, <1>6, StreamSound, SMTT(30)
<1> HIDE DEF r
<1>8. Sound(q) /\ Keeps(r, q) /\ Same(r, q)
  <2>1. CASE due
    BY <1>5, <1>7, <2>1, SendSound, SMTT(30)
  <2>2. CASE ~due
    BY <1>7, <2>2, SMTT(30) DEF Keeps, Same
  <2> QED
    BY <2>1, <2>2, SMTT(30)
<1> HIDE DEF q
<1>9. Keeps(p, q) /\ Same(p, q)
  BY <1>7, <1>8, KeepsTrans, SameTrans, SMTT(30)
<1> QED
  BY <1>3, <1>8, <1>9, SameStep, ZenonT(60)


LEMMA StreamShutDown ==
    ASSUME MuxInv, NEW e \in End, NEW s \in 1..Len(ep[e].strm), Shutdown(e, s)
    PROVE  MuxInv'
<1> DEFINE p == ep[e]
           st == p.strm[s]
           x == [st EXCEPT !.fin = TRUE]
           r == [p EXCEPT !.strm[s] = x]
           f == Finish(st.id)
           q == Send(r, f)
<1>1. Sound(p) /\ st \in Streams
  BY StreamFacts
<1>2. ep' = [ep EXCEPT ![e] = q] /\ UNCHANGED <<sc, wire, link, used>>
  BY ZenonT(30) DEF Shutdown
<1> HIDE DEF st
<1>3. f \in Frames /\ x \in Streams
  BY <1>1, StreamValues, StreamFields, FrameTypes, ZenonT(30)
<1> HIDE DEF f, x
<1>4. Sound(r) /\ Keeps(p, r) /\ Same(p, r)
  BY <1>1, <1>3, StreamSound, ZenonT(30)
<1> HIDE DEF r
<1>5. Sound(q) /\ Keeps(r, q) /\ Same(r, q)
  BY <1>3, <1>4, SendSound, SMTT(30)
<1> HIDE DEF q
<1>6. Keeps(p, q) /\ Same(p, q)
  BY <1>4, <1>5, KeepsTrans, SameTrans
<1> QED
  BY <1>2, <1>5, <1>6, SameStep, ZenonT(30)

LEMMA StreamDropped ==
    ASSUME MuxInv, NEW e \in End, NEW s \in 1..Len(ep[e].strm), Drop(e, s)
    PROVE  MuxInv'
<1> DEFINE q == DropStream(ep[e], s)
<1>1. ep' = [ep EXCEPT ![e] = q] /\ UNCHANGED <<sc, wire, link, used>>
  BY SMTT(30) DEF Drop
<1>2. Sound(q) /\ Keeps(ep[e], q) /\ Same(ep[e], q)
  BY StreamFacts, DropStreamSound, ZenonT(30)
<1> HIDE DEF q
<1> QED
  BY <1>1, <1>2, SameStep, ZenonT(30)

(* What the user does with a bind request: h and g are what is held and    *)
(* what was granted afterwards.                                            *)
LEMMA BindAnswered ==
    ASSUME MuxInv, NEW e \in End, NEW h \in SUBSET [id : FlowIds, reply : {"no", "yes"}],
           NEW g \in SUBSET FlowIds, NEW f \in Frames,
           ep' = [ep EXCEPT ![e] = Send([@ EXCEPT !.held = h, !.granted = g], f)],
           UNCHANGED <<sc, wire, link, used>>
    PROVE  MuxInv'
<1> DEFINE p == ep[e]
           r == [p EXCEPT !.held = h, !.granted = g]
           q == Send(r, f)
<1>1. Sound(p) /\ p \in Ends
  BY EndFacts, ZenonT(30)
<1>2. /\ r \in Ends /\ Same(p, r) /\ r.flows = p.flows /\ r.strm = p.strm /\ r.call = p.call
      /\ r.acc = p.acc /\ r.bnd = p.bnd /\ r.dgm = p.dgm /\ r.drops = p.drops
  BY <1>1, ZenonT(30) DEF Ends, Same
<1>3. ep' = [ep EXCEPT ![e] = q]
  OBVIOUS
<1> HIDE DEF r
<1>4. Sound(r) /\ Keeps(p, r)
  <2> HIDE DEF p
  <2> QED
    BY <1>1, <1>2, SoundFields, OtherSound, ZenonT(30)
<1>5. Sound(q) /\ Keeps(r, q) /\ Same(r, q)
  BY <1>4, SendSound, ZenonT(30)
<1> HIDE DEF q
<1>6. Keeps(p, q) /\ Same(p, q)
  BY <1>2, <1>4, <1>5, KeepsTrans, SameTrans, ZenonT(30)
<1> QED
  BY <1>3, <1>5, <1>6, SameStep, ZenonT(30)

LEMMA BindReplies ==
    ASSUME MuxInv, NEW e \in End, NEW r \in ep[e].held, AcceptBind(e, r) \/ DropBind(e, r)
    PROVE  MuxInv'
<1> DEFINE p == ep[e]
           X == [id : FlowIds, reply : {"no", "yes"}]
<1>1. p \in Ends
  BY EndFacts, ZenonT(30)
<1>2. p.held \in SUBSET X /\ p.granted \in SUBSET FlowIds
  BY <1>1, ZenonT(30) DEF Ends
<1>3. r \in X
  BY <1>2, ZenonT(30)
<1>4. r.id \in FlowIds /\ [r EXCEPT !.reply = "yes"] \in X
  BY <1>3
<1>5. Finish(r.id) \in Frames /\ Reset(r.id) \in Frames
  BY <1>4, FrameTypes, SMTT(30)
<1>6. CASE AcceptBind(e, r)
  <2> DEFINE h == (p.held \ {r}) \cup {[r EXCEPT !.reply = "yes"]}
             g == p.granted \cup {r.id}
  <2>1. h \in SUBSET X /\ g \in SUBSET FlowIds
    BY <1>2, <1>4, SMTT(30)
  <2>2. ep' = [ep EXCEPT ![e] = Send([@ EXCEPT !.held = h, !.granted = g], Finish(r.id))]
        /\ UNCHANGED <<sc, wire, link, used>>
    BY <1>6, SMTT(30) DEF AcceptBind
  <2> HIDE DEF h, g
  <2> QED
    BY <1>5, <2>1, <2>2, BindAnswered, ZenonT(30)
<1>7. CASE DropBind(e, r)
  <2> DEFINE h == p.held \ {r}
             g == p.granted
  <2>1. h \in SUBSET X /\ g \in SUBSET FlowIds
    BY <1>2
  <2>2. [p EXCEPT !.held = h] = [p EXCEPT !.held = h, !.granted = g]
    <3> HIDE DEF h
    <3> QED
      BY <1>1, Zenon DEF Ends
  <2>3. ep' = [ep EXCEPT ![e] = Send([@ EXCEPT !.held = h, !.granted = g], Reset(r.id))]
        /\ UNCHANGED <<sc, wire, link, used>>
    BY <1>7, <2>2, ZenonT(30) DEF DropBind
  <2> HIDE DEF h, g
  <2> QED
    BY <1>5, <2>1, <2>3, BindAnswered, ZenonT(60)
<1> QED
  BY <1>6, <1>7, SMTT(30)

LEMMA MuxDropped ==
    ASSUME MuxInv, NEW e \in End, DropMux(e)
    PROVE  MuxInv'
<1> DEFINE p == ep[e]
           d == Dropped(p)
           q == IF p.pc = "done" THEN TaskDone(d) ELSE d
<1>1. Sound(p) /\ p.err = FALSE /\ sc.bindCap \in Nat
  BY EndFacts, ScenarioFacts, ZenonT(30)
<1>2. ep' = [ep EXCEPT ![e] = q] /\ UNCHANGED <<sc, wire, link>> /\ used' \in [End -> SUBSET FlowIds]
  BY ZenonT(30) DEF DropMux, Dropped, MuxInv
<1>3. Sound(d) /\ Keeps(p, d) /\ d.pc = p.pc /\ d.err = p.err
  BY <1>1, DroppedSound
<1> HIDE DEF d
<1>4. CASE p.pc = "done"
  <2>1. Steps(p, q)
    BY <1>3, <1>4, TaskDoneSteps, KeepsTrans, ZenonT(30) DEF Steps
  <2> HIDE DEF q
  <2> QED
    BY <1>2, <1>4, <2>1, LocalStep, ZenonT(30)
<1>5. CASE p.pc # "done"
  BY <1>1, <1>2, <1>3, <1>5, UserStep, ZenonT(60)
<1> QED
  BY <1>4, <1>5, SMTT(30)


-----------------------------------------------------------------------------
(* The invariant, and what it says. *)

LEMMA MuxInit == Init => MuxInv
<1> SUFFICES ASSUME Init PROVE MuxInv
  BY SMTT(30)
<1>1. ep = [e \in End |-> NewEnd] /\ wire = [e \in End |-> << >>] /\ link = TRUE
      /\ used = [e \in End |-> {}] /\ sc \in Scenarios /\ sc.bindCap \in Nat
  BY ConstantsAssumption, SMTT(30) DEF Init
<1>2. NewEnd \in Ends
  <2> DEFINE t == [id \in FlowIds |-> NoSlot]
  <2>1. t \in [FlowIds -> Slots] /\ NoHold \in Holds
    BY SlotFacts DEF Holds
  <2>2. /\ << >> \in Seq(Streams) /\ << >> \in Seq(CallType) /\ << >> \in Seq(Frames)
        /\ << >> \in Seq(FlowIds \cup {0}) /\ << >> \in Seq(Nat) /\ << >> \in Seq(FlowIds)
    BY SMTT(30)
  <2> HIDE DEF t
  <2>3. NewEnd = [flows |-> t, strm |-> << >>, call |-> << >>, tx |-> << >>, txOpen |-> TRUE,
                  drops |-> << >>, acc |-> << >>, bnd |-> << >>, dgm |-> << >>, dsent |-> 0,
                  dgot |-> << >>, held |-> {}, granted |-> {}, hold |-> NoHold, pc |-> "run",
                  drain |-> FALSE, srcEnd |-> FALSE, err |-> FALSE, cut |-> FALSE,
                  alive |-> TRUE]
    BY SMTT(30) DEF NewEnd, t
  <2> QED
    BY <2>1, <2>2, <2>3, SMTT(30) DEF Ends
<1>3. /\ \A id \in FlowIds : NewEnd.flows[id].k = "none"
      /\ NewEnd.acc = << >> /\ NewEnd.hold.k = "none" /\ NewEnd.call = << >> /\ NewEnd.bnd = << >>
      /\ NewEnd.dgm = << >> /\ NewEnd.drops = << >> /\ NewEnd.txOpen = TRUE /\ NewEnd.pc = "run"
      /\ NewEnd.err = FALSE
  BY ZenonT(30) DEF NewEnd, NoSlot, NoHold
<1>4. Sound(NewEnd)
  <2>1. Pointing(NewEnd)
    BY <1>3, SMTT(30) DEF Pointing
  <2>2. Calling(NewEnd)
    BY <1>3, SMTT(30) DEF Calling
  <2>3. Bounded(NewEnd)
    BY <1>1, <1>3, ConstantsAssumption, SMTT(30) DEF Bounded
  <2> QED
    BY <1>2, <2>1, <2>2, <2>3, SMTT(30) DEF Sound
<1>5. << >> \in Seq(Messages) /\ Len(<< >>) = 0
  BY SMTT(30)
<1> QED
  BY <1>1, <1>2, <1>3, <1>4, <1>5, SMTT(30) DEF MuxInv

LEMMA MuxStep == MuxInv /\ [Next]_vars => MuxInv'
<1> SUFFICES ASSUME MuxInv, [Next]_vars PROVE MuxInv'
  OBVIOUS
<1>1. CASE BreakLink
  BY <1>1, LinkBreaks, SMTT(30)
<1>2. ASSUME NEW e \in End, Task(e) PROVE MuxInv'
  BY <1>2, Receives, Unblocks, Breaks, Disallows, Closes, Ended, SMTT(30) DEF Task
<1>3. ASSUME NEW e \in End, DroppedPorts(e) \/ FrameRecv(e) PROVE MuxInv'
  BY <1>3, ClosesPorts, Writes, SMTT(30)
<1>4. ASSUME NEW e \in End, Call(e) PROVE MuxInv'
  BY <1>4, RequestSent, CallResumes, SMTT(30) DEF Call
<1>5. ASSUME NEW e \in End, Accept(e) PROVE MuxInv'
  BY <1>5, StreamAccepted, BindTaken, DatagramTaken, SMTT(30) DEF Accept
<1>6. ASSUME NEW e \in End, Reject(e) \/ Reads(e) PROVE MuxInv'
  BY <1>6, BindReplies, StreamReads, SMTT(30) DEF Reject, Reads
<1>7. ASSUME NEW e \in End, User(e) PROVE MuxInv'
  <2>1. CASE NewStreamChannel(e)
    BY <2>1, CallStarts, SMTT(30) DEF NewStreamChannel
  <2>2. CASE RequestBind(e)
    BY <2>2, CallStarts, SMTT(30) DEF RequestBind
  <2>3. CASE SendDatagram(e)
    BY <2>3, DatagramSent, SMTT(30)
  <2>4. CASE \E c \in 1..Len(ep[e].call) : CancelCall(e, c)
    BY <2>4, CallCancelled, SMTT(30)
  <2>5. CASE \E s \in 1..Len(ep[e].strm) : Write(e, s) \/ Shutdown(e, s) \/ Drop(e, s)
    BY <2>5, StreamWrites, StreamShutDown, StreamDropped, SMTT(30)
  <2>6. CASE \E r \in ep[e].held : AcceptBind(e, r)
    BY <2>6, BindReplies, SMTT(30)
  <2>7. CASE DropMux(e)
    BY <2>7, MuxDropped
  <2> QED
    BY <1>7, <2>1, <2>2, <2>3, <2>4, <2>5, <2>6, <2>7, ZenonT(30) DEF User
<1>8. CASE UNCHANGED vars
  <2>1. UNCHANGED <<sc, ep, wire, link, used>>
    BY <1>8, SMTT(30) DEF vars
  <2>2. \A e \in End : Sound(ep[e])'
    <3>1. \A e \in End : Sound(ep'[e])
      BY <2>1, ZenonT(30) DEF MuxInv
    <3> QED
      BY <2>1, <3>1, ZenonT(60) DEF Sound, Pointing, Calling, Bounded
  <2>3. Cause' <=> Cause
    BY <2>1 DEF Cause
  <2> HIDE DEF Cause
  <2> QED
    BY <2>1, <2>2, <2>3, ZenonT(30) DEF MuxInv
<1> QED
  BY <1>1, <1>2, <1>3, <1>4, <1>5, <1>6, <1>7, <1>8, ZenonT(30) DEF Next

(* Both ends stay sound: whatever refers to a stream or a call refers to   *)
(* one that exists, a request in the flow table belongs to a call with the *)
(* same flow id and no answer, and no Close is on the wire of an end whose *)
(* task runs.                                                              *)
THEOREM MuxInductive == Spec => []MuxInv
  BY MuxInit, MuxStep, PTL DEF Spec

(* Every field of both ends stays in its type, and every queue within its  *)
(* size, through any handler, user call, wind-down or broken connection.   *)
THEOREM EndsStayTyped == Spec => []TypeOK
<1>1. MuxInv => TypeOK
  <2> SUFFICES ASSUME MuxInv PROVE TypeOK
    OBVIOUS
  <2>1. link \in BOOLEAN
    BY ZenonT(30) DEF MuxInv
  <2>2. ASSUME NEW e \in End
        PROVE  /\ \A id \in FlowIds : ep[e].flows[id] \in Slots
               /\ \A s \in 1..Len(ep[e].strm) :
                    /\ ep[e].strm[s].own \in {"oneshot", "hold", "queue", "user", "gone"}
                    /\ {ep[e].strm[s].credit, ep[e].strm[s].since, ep[e].strm[s].sent} \subseteq Nat
               /\ \A c \in 1..Len(ep[e].call) :
                    /\ ep[e].call[c].st \in {"send", "wait", "ok", "refused", "rejected", "closed",
                                             "cancelled"}
                    /\ ep[e].call[c].res \in {"empty", "stream", "none", "dropped", "yes", "no"}
               /\ ep[e].drops \in Seq(FlowIds \cup {0})
               /\ Len(ep[e].acc) <= AcceptCap /\ Len(ep[e].bnd) <= sc.bindCap
               /\ Len(ep[e].dgm) <= DatagramCap
               /\ ep[e].pc \in {"run", "disallow", "closetx", "remaining", "done"}
               /\ ep[e].err = FALSE
    <3> DEFINE p == ep[e]
    <3>1. Sound(p) /\ p.err = FALSE /\ p \in Ends
      BY EndFacts, ZenonT(30)
    <3>2. ASSUME NEW s \in 1..Len(p.strm)
          PROVE  /\ p.strm[s].own \in {"oneshot", "hold", "queue", "user", "gone"}
                 /\ {p.strm[s].credit, p.strm[s].since, p.strm[s].sent} \subseteq Nat
      BY StreamFacts, ZenonT(90) DEF Streams
    <3>3. ASSUME NEW c \in 1..Len(p.call)
          PROVE  p.call[c].st \in CallStates /\ p.call[c].res \in Results
      BY CallFacts, ZenonT(60) DEF CallType
    <3>4. p.pc \in {"run", "disallow", "closetx", "remaining", "done"}
      BY <3>1, SMTT(30) DEF Ends
    <3> HIDE DEF p
    <3>5. /\ \A id \in FlowIds : p.flows[id] \in Slots
          /\ p.drops \in Seq(FlowIds \cup {0})
          /\ Len(p.acc) <= AcceptCap /\ Len(p.bnd) <= sc.bindCap /\ Len(p.dgm) <= DatagramCap
      BY <3>1, SoundFields, SMTT(30)
    <3> QED
      BY <3>1, <3>2, <3>3, <3>4, <3>5, ZenonT(30) DEF p, CallStates, Results
  <2> QED
    BY <2>1, <2>2, ZenonT(60) DEF TypeOK
<1> QED
  BY <1>1, MuxInductive, PTL

(* The task of a multiplexor ends only because the connection broke, a     *)
(* Multiplexor was dropped or a call was cancelled: no frame of a          *)
(* conforming peer, no full queue and no lost datagram makes process_frame *)
(* or wind_down return an error.                                           *)
THEOREM TaskEndsForCause == Spec => []EndsForCause
<1>1. MuxInv => EndsForCause
  BY ZenonT(30) DEF MuxInv, Cause, EndsForCause
<1> QED
  BY <1>1, MuxInductive, PTL

=============================================================================
