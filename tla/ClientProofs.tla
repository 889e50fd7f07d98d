---------------------------- MODULE ClientProofs ----------------------------
(***************************************************************************)
(* No stream request is lost, a SOCKS client is told the truth and the     *)
(* backoff keeps its schedule, for any number of handlers and any options. *)
(*                                                                         *)
(* NoRequestLost counts places; Requests says the same without counting,   *)
(* and where the main loop is when a request is in its hands.  The         *)
(* schedule is given by a recursive function, and the law of that function *)
(* (PowerLaw) is proved first, by induction over the set of the numbers    *)
(* for which it holds.                                                     *)
(***************************************************************************)
EXTENDS Client, FiniteSetTheorems, SequenceTheorems, WellFoundedInduction, TLAPS

JobStates ==
    {"idle", "reserve", "permit", "wait", "reply", "copy", "associate", "relaying", "done", "failed"}
MainStates == {"handshake", "backoff", "loop", "request", "drain", "exited"}
Backoffs == [current : Nat, count : Nat, slept : Nat]

TypeOK ==
    /\ job \in [Jobs -> JobStates]
    /\ told \in [Jobs -> {None, "refused", "granted"}]
    /\ queue \in Seq(Jobs)
    /\ cur \in Jobs \cup {None} /\ parked \in Jobs \cup {None}
    /\ pc \in MainStates
    /\ backoff \in Backoffs /\ retries \in 0..CountMod
    /\ remote \in Remotes /\ max_count \in MaxCounts

Members(q) == {q[i] : i \in 1..Len(q)}
Distinct(q) == \A i, k \in 1..Len(q) : q[i] = q[k] => i = k
Queued == Members(queue)
Permits == {j \in Jobs : job[j] = "permit"}

(* Each waiting handler has its request in one place, and the main loop    *)
(* has both hands free when it takes one up.                               *)
Requests ==
    /\ Distinct(queue)
    /\ cur = None \/ parked = None
    /\ cur \notin Queued /\ parked \notin Queued
    /\ \A j \in Jobs : job[j] = "wait" <=> (j \in Queued \/ j = cur \/ j = parked)
    /\ pc \in {"handshake", "backoff", "loop", "drain"} => cur = None
    /\ pc \in {"loop", "drain", "request"} => parked = None
    /\ pc = "request" => cur # None

(* Permits and requests share the places of the channel. *)
Places == IsFiniteSet(Permits) /\ Len(queue) + Cardinality(Permits) <= Capacity

(* What is told, and who is told. *)
Telling ==
    /\ SocksToldTruth
    /\ \A j \in Jobs : ~Socks(j) => told[j] # "granted" /\ job[j] \notin {"idle", "reply", "associate", "relaying"}

(* The backoff after n intervals in a row. *)
Schedule(b, n) ==
    /\ n = 0 => b.current = Initial /\ b.count = 0
    /\ n > 0 => /\ b.slept = AtMost(Initial * Power[n - 1], MaxInterval)
                /\ b.current = b.slept * Mult
    /\ max_count # 0 => b.count = n /\ n <= max_count

Retrying ==
    /\ Schedule(backoff, retries)
    /\ pc = "backoff" => retries > 0
    /\ result # None => pc = "exited"
    /\ result = "MaxRetryCountReached" => retries = max_count

Errors ==
    HandshakeErrors \cup TaskErrors
        \cup {<<"StreamRequestTimeout">>, <<"Mux", "FlowIdRejected">>, <<"Mux", "Closed">>}

IInv == TypeOK /\ Requests /\ Places /\ Telling /\ Retrying

-----------------------------------------------------------------------------
(* Powers. *)

(* A set of numbers has a smallest one. *)
LEMMA LeastNat == ASSUME NEW T, T \subseteq Nat, T # {} PROVE \E m \in T : \A n \in T : m <= n
<1>1. PICK m \in T : \A y \in T : ~ (<<y, m>> \in OpToRel(<, Nat))
  BY WFMin, NatLessThanWellFounded
<1>2. \A y \in T : ~(y < m)
  BY <1>1, ZenonT(30) DEF OpToRel
<1> QED
  BY <1>2

(* Induction, for the set of the numbers that have a property. *)
LEMMA SetInduction ==
    ASSUME NEW S, 0 \in S, \A n \in Nat : n \in S => n + 1 \in S
    PROVE  Nat \subseteq S
<1> DEFINE T == Nat \ S
<1> SUFFICES ASSUME T # {} PROVE FALSE
  OBVIOUS
<1>1. PICK m \in T : \A n \in T : m <= n
  BY LeastNat, ZenonT(30)
<1>2. m # 0 /\ m \in Nat /\ m - 1 \in Nat
  BY <1>1
<1>3. m - 1 \in S
  BY <1>1, <1>2
<1> QED
  BY <1>1, <1>2, <1>3

(* Power is the function its recursion describes: for each n there is one  *)
(* way to compute its first n values.                                      *)
LEMMA PowerLaw == \A n \in Nat : Power[n] = IF n = 0 THEN 1 ELSE Mult * Power[n - 1]
<1> DEFINE Upto(n, g) == /\ g \in [0..n -> Nat] /\ g[0] = 1 /\ \A k \in 1..n : g[k] = Mult * g[k - 1]
           S == {n \in Nat : \E g : Upto(n, g)}
           U == {n \in Nat : \A g, h : Upto(n, g) /\ Upto(n, h) => g[n] = h[n]}
<1>1. Nat \subseteq S
  <2>1. 0 \in S
    <3>1. Upto(0, [k \in 0..0 |-> 1])
      OBVIOUS
    <3> QED
      BY <3>1, ZenonT(30)
  <2>2. ASSUME NEW n \in Nat, n \in S PROVE n + 1 \in S
    <3>1. PICK g : Upto(n, g)
      BY <2>2
    <3> DEFINE h == [k \in 0..(n + 1) |-> IF k = n + 1 THEN Mult * g[n] ELSE g[k]]
    <3>2. Upto(n + 1, h)
      <4>1. /\ g \in [0..n -> Nat] /\ g[0] = 1 /\ \A k \in 1..n : g[k] = Mult * g[k - 1]
        BY <3>1, ZenonT(30)
      <4>2. /\ n \in 0..n /\ 0 \in 0..(n + 1) /\ 0 # n + 1
            /\ \A k \in 0..(n + 1) : k = n + 1 \/ (k # n + 1 /\ k \in 0..n)
            /\ \A k \in 1..(n + 1) : k \in 0..(n + 1) /\ k - 1 \in 0..(n + 1) /\ k - 1 # n + 1
            /\ \A k \in 1..(n + 1) : k # n + 1 => k \in 1..n
        OBVIOUS
      <4>3. Mult * g[n] \in Nat
        BY <4>1, <4>2, ClientAssumption
      <4>4. h \in [0..(n + 1) -> Nat]
        BY <4>1, <4>2, <4>3, ZenonT(30)
      <4>5. \A k \in 0..(n + 1) : h[k] = IF k = n + 1 THEN Mult * g[n] ELSE g[k]
        BY ZenonT(30)
      <4> HIDE DEF h
      <4>6. h[0] = 1
        BY <4>1, <4>2, <4>5, ZenonT(30)
      <4>7. ASSUME NEW k \in 1..(n + 1) PROVE h[k] = Mult * h[k - 1]
        <5>1. k \in 0..(n + 1) /\ k - 1 \in 0..(n + 1) /\ k - 1 # n + 1 /\ (k # n + 1 => k \in 1..n)
          BY <4>2, <4>7, ZenonT(30)
        <5>2. h[k - 1] = g[k - 1]
          BY <4>5, <5>1, ZenonT(30)
        <5>3. CASE k = n + 1
          <6>1. k - 1 = n
            BY <5>3
          <6>2. h[k] = Mult * g[n]
            BY <4>5, <5>1, <5>3, ZenonT(30)
          <6> QED
            BY <5>2, <6>1, <6>2, ZenonT(30)
        <5>4. CASE k # n + 1
          BY <4>1, <4>5, <5>1, <5>2, <5>4, ZenonT(30)
        <5> QED
          BY <5>3, <5>4
      <4> QED
        BY <4>4, <4>6, <4>7, ZenonT(30)
    <3> HIDE DEF h, Upto
    <3> QED
      BY <3>2
  <2> QED
    <3> HIDE DEF S
    <3> QED BY <2>1, <2>2, SetInduction
<1>2. Nat \subseteq U
  <2>1. 0 \in U
    OBVIOUS
  <2>2. ASSUME NEW n \in Nat, n \in U PROVE n + 1 \in U
    <3> SUFFICES ASSUME NEW g, NEW h, Upto(n + 1, g), Upto(n + 1, h) PROVE g[n + 1] = h[n + 1]
      <4>1. n + 1 \in Nat
        OBVIOUS
      <4> HIDE DEF Upto
      <4> QED
        BY <4>1, Zenon
    <3> DEFINE g1 == [k \in 0..n |-> g[k]]
               h1 == [k \in 0..n |-> h[k]]
    <3>1. Upto(n, g1) /\ Upto(n, h1)
      OBVIOUS
    <3>2. g1[n] = h1[n]
      BY <2>2, <3>1, ZenonT(30)
    <3> QED
      BY <3>2
  <2> QED
    <3> HIDE DEF U
    <3> QED BY <2>1, <2>2, SetInduction
<1> DEFINE F == [n \in Nat |-> (CHOOSE g : Upto(n, g))[n]]
<1>3. F = [n \in Nat |-> IF n = 0 THEN 1 ELSE Mult * F[n - 1]]
  <2> DEFINE G(n) == CHOOSE g : Upto(n, g)
  <2>1. \A n \in Nat : Upto(n, G(n))
    <3> HIDE DEF Upto
    <3> QED
      BY <1>1
  <2>2. ASSUME NEW n \in Nat, n # 0 PROVE F[n] = Mult * F[n - 1]
    <3>1. Upto(n, G(n)) /\ n - 1 \in Nat /\ Upto(n - 1, G(n - 1))
      <4>1. n - 1 \in Nat
        BY <2>2
      <4> HIDE DEF Upto, G
      <4> QED
        BY <2>1, <4>1
    <3> DEFINE g == G(n)
               g1 == [k \in 0..(n-1) |-> g[k]]
               h == G(n - 1)
    <3>2. Upto(n, g) /\ Upto(n - 1, h)
      BY <3>1, ZenonT(30)
    <3> HIDE DEF g, h
    <3>3. Upto(n - 1, g1)
      BY <3>2, <3>1
    <3>4. g1[n - 1] = h[n - 1]
      <4> HIDE DEF Upto, g1
      <4> QED
        BY <3>1, <3>2, <3>3, <1>2
    <3>5. g[n] = Mult * g[n - 1]
      BY <3>2, <2>2
    <3>6. F[n] = g[n] /\ F[n - 1] = h[n - 1]
      BY <3>1, Zenon DEF g, h
    <3>7. g1[n - 1] = g[n - 1]
      BY <3>1
    <3> HIDE DEF F, g1
    <3> QED
      BY <3>4, <3>5, <3>6, <3>7
  <2>3. F[0] = 1
    BY <2>1, ZenonT(30)
  <2>4. \A n \in Nat : F[n] = IF n = 0 THEN 1 ELSE Mult * F[n - 1]
    <3> HIDE DEF F
    <3> QED
      BY <2>2, <2>3
  <2>5. F = [n \in Nat |-> F[n]]
    OBVIOUS
  <2> HIDE DEF F
  <2> QED
    BY <2>4, <2>5, ZenonT(30)
<1>4. Power = [n \in Nat |-> IF n = 0 THEN 1 ELSE Mult * Power[n - 1]]
  <2> HIDE DEF F
  <2> QED
    BY <1>3 DEF Power
<1> QED
  BY <1>4

LEMMA PowerType == \A n \in Nat : Power[n] \in Nat
<1> DEFINE S == {n \in Nat : Power[n] \in Nat}
<1>1. 0 \in S
  BY PowerLaw
<1>2. ASSUME NEW n \in Nat, n \in S PROVE n + 1 \in S
  <2>1. Power[n + 1] = Mult * Power[n]
    BY PowerLaw
  <2> QED
    BY <1>2, <2>1, ClientAssumption
<1> HIDE DEF S
<1>3. Nat \subseteq S
  BY <1>1, <1>2, SetInduction
<1> QED
  BY <1>3 DEF S

-----------------------------------------------------------------------------
(* The backoff. *)

(* Multiplying does not shrink an interval. *)
LEMMA Grows == \A x \in Nat : x * Mult \in Nat /\ x <= x * Mult
BY ClientAssumption

(* Clamping before each multiplication is clamping once at the end. *)
LEMMA ClampOnce ==
    ASSUME NEW x \in Nat
    PROVE  AtMost(AtMost(x, MaxInterval) * Mult, MaxInterval) = AtMost(x * Mult, MaxInterval)
<1>1. x * Mult \in Nat /\ x <= x * Mult /\ MaxInterval * Mult \in Nat /\ MaxInterval <= MaxInterval * Mult
  BY Grows, ClientAssumption
<1>2. CASE x <= MaxInterval
  BY <1>2 DEF AtMost
<1>3. CASE ~(x <= MaxInterval)
  <2>1. ~(x * Mult <= MaxInterval)
    BY <1>1, <1>3, ClientAssumption
  <2>2. AtMost(x, MaxInterval) = MaxInterval /\ AtMost(x * Mult, MaxInterval) = MaxInterval
    BY <1>3, <2>1 DEF AtMost
  <2>3. AtMost(MaxInterval * Mult, MaxInterval) = MaxInterval
    BY <1>1, ClientAssumption DEF AtMost
  <2> QED
    BY <2>2, <2>3
<1> QED
  BY <1>2, <1>3

(* Backoff::advance takes a schedule one interval further; when the count  *)
(* of retries is at its bound, the interval has been at its maximum.       *)
LEMMA AdvanceKeeps ==
    ASSUME NEW b \in Backoffs, NEW n \in 0..CountMod, max_count \in MaxCounts,
           Schedule(b, n), ~Exhausted(b)
    PROVE  /\ Advance(b) \in Backoffs /\ AtMost(n + 1, CountMod) \in 1..CountMod
           /\ Schedule(Advance(b), AtMost(n + 1, CountMod))
<1>t. /\ b.current \in Nat /\ b.count \in Nat /\ b.slept \in Nat /\ n \in Nat
      /\ CountMod \in Nat \ {0} /\ MaxInterval \in Nat /\ Initial \in Nat /\ Mult \in Nat
      /\ max_count \in Nat /\ max_count < CountMod
  BY ClientAssumption DEF Backoffs
<1> DEFINE old == AtMost(b.current, MaxInterval)
           m == AtMost(n + 1, CountMod)
<1>1. old \in Nat /\ old * Mult \in Nat /\ (b.count + 1) % CountMod \in Nat
  BY <1>t, Grows DEF AtMost
<1>2. Advance(b) \in Backoffs
  BY <1>1 DEF Advance, Backoffs
<1>3. m \in 1..CountMod
  BY <1>t DEF AtMost
<1>4. old = AtMost(Initial * Power[n], MaxInterval)
  <2>1. CASE n = 0
    <3>1. Power[n] = 1
      BY <2>1, PowerLaw
    <3> QED
      BY <1>t, <2>1, <3>1 DEF Schedule
  <2>2. CASE n > 0
    <3> DEFINE x == Initial * Power[n - 1]
    <3>1. n - 1 \in Nat /\ Power[n - 1] \in Nat
      BY <1>t, <2>2, PowerType
    <3>2. Power[n] = Mult * Power[n - 1]
      BY <1>t, <2>2, PowerLaw
    <3>3. x \in Nat /\ Initial * Power[n] = x * Mult
      BY <1>t, <3>1, <3>2
    <3>4. b.current = AtMost(x, MaxInterval) * Mult
      BY <2>2 DEF Schedule
    <3> HIDE DEF x
    <3> QED
      BY <3>3, <3>4, ClampOnce
  <2> QED
    BY <1>t, <2>1, <2>2
<1>5. old = AtMost(Initial * Power[m - 1], MaxInterval)
  <2>1. CASE n + 1 <= CountMod
    <3>1. m - 1 = n
      BY <1>t, <2>1 DEF AtMost
    <3> QED
      BY <1>4, <3>1
  <2>2. CASE ~(n + 1 <= CountMod)
    <3> DEFINE x == Initial * Power[CountMod - 1]
    <3>1. n = CountMod /\ m = CountMod /\ CountMod - 1 \in Nat
      BY <1>t, <2>2 DEF AtMost
    <3>2. Power[CountMod - 1] \in Nat /\ Power[CountMod] = Mult * Power[CountMod - 1]
      BY <1>t, <3>1, PowerLaw, PowerType
    <3>3. x \in Nat /\ x >= MaxInterval /\ Initial * Power[CountMod] = x * Mult
      BY <1>t, <3>2, SaturationAssumption
    <3>4. x * Mult \in Nat /\ x <= x * Mult
      BY <3>3, Grows
    <3> HIDE DEF x
    <3>5. AtMost(x, MaxInterval) = MaxInterval /\ AtMost(x * Mult, MaxInterval) = MaxInterval
      BY <1>t, <3>3, <3>4 DEF AtMost
    <3> QED
      BY <1>4, <3>1, <3>3, <3>5 DEF x
  <2> QED
    BY <2>1, <2>2
<1>6. max_count # 0 => (b.count + 1) % CountMod = m /\ m <= max_count
  <2> SUFFICES ASSUME max_count # 0 PROVE (b.count + 1) % CountMod = m /\ m <= max_count
    OBVIOUS
  <2>1. b.count = n /\ n < max_count
    BY <1>t DEF Schedule, Exhausted
  <2>2. n + 1 < CountMod
    BY <1>t, <2>1
  <2> QED
    BY <1>t, <2>1, <2>2 DEF AtMost
<1> HIDE DEF old, m
<1>7. Schedule(Advance(b), m)
  <2>1. /\ Advance(b).slept = old /\ Advance(b).current = old * Mult
        /\ Advance(b).count = (b.count + 1) % CountMod
    BY DEF Advance, old
  <2> QED
    BY <1>3, <1>5, <1>6, <2>1, SMTT(30) DEF Schedule
<1> QED
  BY <1>2, <1>3, <1>7 DEF m

(* The match on the result: the client waits or returns. *)
LEMMA FailedKeeps ==
    ASSUME TypeOK, Retrying, UNCHANGED args, NEW e \in Errors, NEW b, NEW n, Failed(e, b, n),
           (b = backoff /\ n = retries) \/ (b = BackoffNew /\ n = 0), pc # "exited"
    PROVE  /\ backoff' \in Backoffs /\ retries' \in 0..CountMod
           /\ pc' \in {"backoff", "exited"} /\ Retrying'
<1>t. /\ max_count \in MaxCounts /\ max_count \in Nat /\ max_count' = max_count
      /\ backoff \in Backoffs /\ retries \in 0..CountMod /\ CountMod \in Nat
  BY ClientAssumption DEF TypeOK, args
<1>1. BackoffNew \in Backoffs /\ Schedule(BackoffNew, 0)
  BY <1>t, ClientAssumption DEF BackoffNew, Backoffs, Schedule
<1>2. b \in Backoffs /\ n \in 0..CountMod /\ Schedule(b, n)
  BY <1>t, <1>1 DEF Retrying
<1>3. result = None
  BY DEF Retrying
<1>5. CASE ~retryable(e)
  <2>1. Head(e) # "MaxRetryCountReached"
    BY DEF Errors, HandshakeErrors, TaskErrors
  <2>2. pc' = "exited" /\ result' = Head(e) /\ UNCHANGED <<backoff, retries>>
    BY <1>5 DEF Failed, Exit
  <2> QED
    BY <1>t, <2>1, <2>2 DEF Retrying, Schedule
<1>6. CASE retryable(e) /\ Exhausted(b)
  <2>1. max_count # 0 /\ b.count = n /\ n = max_count
    BY <1>2, <1>6, <1>t DEF Exhausted, Schedule, Backoffs
  <2>2. b = backoff /\ n = retries
    BY <2>1
  <2>3. pc' = "exited" /\ UNCHANGED <<backoff, retries>>
    BY <1>6 DEF Failed, Exit
  <2> QED
    BY <1>t, <2>1, <2>2, <2>3, SMTT(30) DEF Retrying, Schedule
<1>7. CASE retryable(e) /\ ~Exhausted(b)
  <2>1. pc' = "backoff" /\ backoff' = Advance(b) /\ retries' = AtMost(n + 1, CountMod) /\ result' = None
    BY <1>3, <1>7 DEF Failed
  <2>2. /\ Advance(b) \in Backoffs /\ AtMost(n + 1, CountMod) \in 1..CountMod
        /\ Schedule(Advance(b), AtMost(n + 1, CountMod))
    BY <1>2, <1>7, <1>t, AdvanceKeeps, SMTT(30)
  <2> QED
    BY <1>t, <2>1, <2>2 DEF Retrying, Schedule, None
<1> QED
  BY <1>5, <1>6, <1>7, SMTT(30)

(* The steps as the main loop sees them. *)
LEMMA MainCases ==
    [Next]_vars =>
        /\ UNCHANGED args
        /\ \/ UNCHANGED <<pc, backoff, retries, result>>
           \/ pc # "exited" /\ UNCHANGED <<backoff, retries, result>>
                /\ pc' \in {"handshake", "loop", "request", "drain"}
           \/ pc # "exited" /\ \E r \in {<<"Ok">>, <<"HandshakeCancelled">>, <<"RemoteHandlerExited">>} : Exit(r)
           \/ pc # "exited" /\ \E e \in Errors : Failed(e, backoff, retries) \/ Failed(e, BackoffNew, 0)
<1> SUFFICES ASSUME [Next]_vars
             PROVE  /\ UNCHANGED args
                    /\ \/ UNCHANGED <<pc, backoff, retries, result>>
                       \/ pc # "exited" /\ UNCHANGED <<backoff, retries, result>>
                            /\ pc' \in {"handshake", "loop", "request", "drain"}
                       \/ pc # "exited" /\ \E r \in {<<"Ok">>, <<"HandshakeCancelled">>, <<"RemoteHandlerExited">>} : Exit(r)
                       \/ pc # "exited" /\ \E e \in Errors : Failed(e, backoff, retries) \/ Failed(e, BackoffNew, 0)
  BY SMTT(30)
<1>1. ASSUME NEW j \in Jobs,
             \/ Handler(j) \/ Reserve(j) \/ Request(j) \/ Arrive(j) \/ AcceptFails(j)
             \/ RelayAborted(j) \/ CopyEnds(j)
      PROVE  UNCHANGED <<mainVars, args>>
  BY <1>1, ZenonT(30) DEF Handler, Reserve, Request, Arrive, AcceptFails, RelayAborted, CopyEnds, AcceptTcp, SocksAccept,
     HandleConnect, HandleAssociate
<1>2. CASE BackoffOver \/ TakeRequest \/ HandshakeOk \/ RequestOk \/ MuxEnds \/ CtrlC
  BY <1>2 DEF BackoffOver, TakeRequest, HandshakeOk, RequestOk, MuxEnds, CtrlC
<1>3. CASE ListenersExit \/ CtrlCEarly
  BY <1>3 DEF ListenersExit, CtrlCEarly, Running
<1>4. CASE HandshakeFails
  BY <1>4 DEF HandshakeFails, Errors
<1>5. CASE RequestFails
  BY <1>5 DEF RequestFails, ConnectionFailed, Errors
<1>6. CASE JoinMux
  BY <1>6 DEF JoinMux, ConnectionFailed, Ended, Errors
<1>7. CASE Drained
  BY <1>7 DEF Drained, ConnectionFailed, Errors
<1>8. CASE UNCHANGED vars
  BY <1>8, SMTT(30) DEF vars, mainVars
<1> QED
  BY <1>1, <1>2, <1>3, <1>4, <1>5, <1>6, <1>7, <1>8, ZenonT(30) DEF Next, MainStep, mainVars

LEMMA RetryStep ==
    TypeOK /\ Retrying /\ [Next]_vars
        => /\ backoff' \in Backoffs /\ retries' \in 0..CountMod /\ pc' \in MainStates
           /\ remote' \in Remotes /\ max_count' \in MaxCounts /\ Retrying'
<1> SUFFICES ASSUME TypeOK, Retrying, [Next]_vars
             PROVE  /\ backoff' \in Backoffs /\ retries' \in 0..CountMod /\ pc' \in MainStates
                    /\ remote' \in Remotes /\ max_count' \in MaxCounts /\ Retrying'
  OBVIOUS
<1>0. UNCHANGED args /\ remote' \in Remotes /\ max_count' \in MaxCounts /\ max_count' = max_count
  BY MainCases DEF TypeOK, args
<1>1. CASE UNCHANGED <<pc, backoff, retries, result>>
  BY <1>0, <1>1 DEF TypeOK, Retrying, Schedule
<1>2. CASE pc # "exited" /\ UNCHANGED <<backoff, retries, result>> /\ pc' \in {"handshake", "loop", "request", "drain"}
  BY <1>0, <1>2 DEF TypeOK, Retrying, Schedule, MainStates
<1>3. CASE pc # "exited" /\ \E r \in {<<"Ok">>, <<"HandshakeCancelled">>, <<"RemoteHandlerExited">>} : Exit(r)
  BY <1>0, <1>3 DEF TypeOK, Retrying, Schedule, MainStates, Exit
<1>4. ASSUME pc # "exited", NEW e \in Errors, Failed(e, backoff, retries) \/ Failed(e, BackoffNew, 0)
      PROVE  backoff' \in Backoffs /\ retries' \in 0..CountMod /\ pc' \in MainStates /\ Retrying'
  BY <1>0, <1>4, FailedKeeps DEF MainStates
<1> QED
  BY <1>0, <1>1, <1>2, <1>3, <1>4, MainCases, SMTT(30)

-----------------------------------------------------------------------------
(* The handlers. *)

(* Which remotes there are (handle_remote). *)
LEMMA Kinds ==
    TypeOK => \A j \in Jobs : Kind(j) \in {"tcp", "tcp_stdio", "socks", "socks_stdio"}
<1> SUFFICES ASSUME TypeOK, NEW j \in Jobs
             PROVE  Kind(j) \in {"tcp", "tcp_stdio", "socks", "socks_stdio"}
  OBVIOUS
<1>1. remote[j] \in [local : {"inet", "stdio"}, remote : {"inet", "socks"}, protocol : {"tcp"}]
  BY ClientAssumption DEF TypeOK
<1>2. /\ remote[j].local \in {"inet", "stdio"} /\ remote[j].remote \in {"inet", "socks"}
      /\ remote[j].protocol = "tcp"
  BY <1>1
<1> QED
  BY <1>2 DEF Kind, handle_remote

(* What on_socks_accept makes of a request. *)
LEMMA Outcomes ==
    ASSUME NEW over, NEW q \in SocksRequests
    PROVE  SocksOutcome(q, over) \in
             {<<None, over>>, <<"refused", over>>, <<None, "associate">>, <<None, "reserve">>}
<1>1. /\ q.version \in {4, 5, 6} /\ q.noauth \in BOOLEAN /\ q.command \in {1, 2, 3}
      /\ q.hangup \in BOOLEAN
  BY SMTT(30) DEF SocksRequests
<1> QED
  BY <1>1 DEF SocksOutcome

(* The steps of a handler that leave the channel alone. *)
Handling(j) ==
    \/ SocksAccept(j) \/ HandleConnect(j) \/ HandleAssociate(j) \/ Reserve(j)
    \/ AcceptFails(j) \/ RelayAborted(j) \/ CopyEnds(j)

(* Where they take it. *)
LEMMA HandlerCases ==
    ASSUME TypeOK, NEW j \in Jobs, Handling(j)
    PROVE  /\ job[j] # "wait" /\ UNCHANGED <<queue, mainVars, args>>
           /\ \E s \in JobStates \ {"wait"} : job' = [job EXCEPT ![j] = s]
           /\ Reserve(j) \/ (job'[j] = "permit" => job[j] = "permit")
           /\ \/ UNCHANGED told
              \/ \E t \in {None, "refused", "granted"} : told' = [told EXCEPT ![j] = t]
<1>t. job \in [Jobs -> JobStates] /\ told \in [Jobs -> {None, "refused", "granted"}]
  BY DEF TypeOK
<1>o. SocksOver(j) \in {"idle", "done"}
  BY DEF SocksOver
<1>1. CASE SocksAccept(j)
  <2>1. PICK o \in {SocksOutcome(q, SocksOver(j)) : q \in SocksRequests} :
             told' = [told EXCEPT ![j] = o[1]] /\ Goto(j, o[2])
    BY <1>1, ZenonT(30) DEF SocksAccept
  <2>2. o \in {<<None, SocksOver(j)>>, <<"refused", SocksOver(j)>>, <<None, "associate">>, <<None, "reserve">>}
    BY <2>1, Outcomes
  <2>3. o[1] \in {None, "refused"} /\ o[2] \in {"idle", "done", "associate", "reserve"}
    BY <1>o, <2>2
  <2> QED
    BY <1>1, <1>t, <2>1, <2>3, ZenonT(30) DEF SocksAccept, Goto, JobStates
<1>2. CASE HandleConnect(j)
  BY <1>2, <1>t, <1>o, SMTT(30) DEF HandleConnect, Goto, JobStates
<1>3. CASE HandleAssociate(j)
  BY <1>3, <1>t, <1>o, SMTT(30) DEF HandleAssociate, Goto, JobStates
<1>4. CASE Reserve(j)
  BY <1>4, <1>t, ZenonT(30) DEF Reserve, Goto, JobStates
<1>5. CASE AcceptFails(j)
  BY <1>5, <1>t, ZenonT(30) DEF AcceptFails, Goto, JobStates
<1>6. CASE RelayAborted(j)
  BY <1>6, <1>t, <1>o, ZenonT(30) DEF RelayAborted, Goto, JobStates
<1>7. CASE CopyEnds(j)
  BY <1>7, <1>t, <1>o DEF CopyEnds, Goto, JobStates
<1> QED
  BY <1>1, <1>2, <1>3, <1>4, <1>5, <1>6, <1>7, ZenonT(30) DEF Handling

(* The steps that touch no handler and no request. *)
Quiet ==
    /\ UNCHANGED <<job, told, queue, cur, parked, args>>
    /\ \/ pc' = pc \/ pc' = "exited"
       \/ pc \in {"handshake", "loop", "drain"} /\ pc' = "backoff"
       \/ pc = "backoff" /\ pc' = "handshake"
       \/ pc = "loop" /\ pc' = "drain"

LEMMA StepCases ==
    ASSUME [Next]_vars
    PROVE  \/ Quiet \/ (\E j \in Jobs : Handling(j) \/ AcceptTcp(j) \/ Request(j))
           \/ TakeRequest \/ HandshakeOk \/ RequestOk \/ RequestFails
<1>1. ASSUME NEW j \in Jobs, Arrive(j) PROVE Quiet
  BY <1>1 DEF Arrive, Quiet, mainVars
<1>2. CASE BackoffOver \/ MuxEnds \/ CtrlC
  BY <1>2 DEF BackoffOver, MuxEnds, CtrlC, Quiet, jobVars
<1>3. CASE ListenersExit \/ CtrlCEarly
  BY <1>3 DEF ListenersExit, CtrlCEarly, Exit, Quiet, jobVars
<1>4. CASE HandshakeFails
  BY <1>4, SMTT(30) DEF HandshakeFails, Failed, Exit, Quiet, jobVars
<1>5. CASE JoinMux
  BY <1>5 DEF JoinMux, ConnectionFailed, Failed, Exit, Quiet, jobVars
<1>6. CASE Drained
  BY <1>6 DEF Drained, ConnectionFailed, Failed, Exit, Quiet, jobVars
<1>7. CASE UNCHANGED vars
  BY <1>7 DEF vars, mainVars, jobVars, Quiet
<1> QED
  BY <1>1, <1>2, <1>3, <1>4, <1>5, <1>6, <1>7, ZenonT(30) DEF Next, MainStep, Handler, Handling

-----------------------------------------------------------------------------
(* The channel. *)

LEMMA Sending ==
    ASSUME NEW q \in Seq(Jobs), NEW j \in Jobs
    PROVE  /\ Append(q, j) \in Seq(Jobs) /\ Len(Append(q, j)) = Len(q) + 1
           /\ Members(Append(q, j)) = Members(q) \cup {j}
           /\ Distinct(q) /\ j \notin Members(q) => Distinct(Append(q, j))
<1>1. /\ Append(q, j) \in Seq(Jobs) /\ Len(Append(q, j)) = Len(q) + 1 /\ Len(q) \in Nat
      /\ Append(q, j)[Len(q) + 1] = j
      /\ \A i \in 1..Len(q) : Append(q, j)[i] = q[i]
  OBVIOUS
<1>2. 1..(Len(q) + 1) = (1..Len(q)) \cup {Len(q) + 1}
  BY <1>1
<1> QED
  BY <1>1, <1>2 DEF Members, Distinct

LEMMA Receiving ==
    ASSUME NEW q \in Seq(Jobs), q # << >>
    PROVE  /\ Head(q) \in Jobs /\ Tail(q) \in Seq(Jobs) /\ Len(Tail(q)) = Len(q) - 1
           /\ Members(q) = Members(Tail(q)) \cup {Head(q)}
           /\ Distinct(q) => Distinct(Tail(q)) /\ Head(q) \notin Members(Tail(q))
<1>1. /\ Head(q) \in Jobs /\ Tail(q) \in Seq(Jobs) /\ Len(Tail(q)) = Len(q) - 1 /\ Len(q) \in Nat \ {0}
      /\ Head(q) = q[1]
      /\ \A i \in 1..(Len(q) - 1) : Tail(q)[i] = q[i + 1]
  OBVIOUS
<1>2. \A i \in 1..Len(q) : i = 1 \/ (i - 1 \in 1..(Len(q) - 1) /\ q[i] = Tail(q)[i - 1])
  BY <1>1
<1>3. Members(q) \subseteq Members(Tail(q)) \cup {Head(q)}
  <2>1. \A i \in 1..Len(q) : q[i] = Head(q) \/ \E j \in 1..Len(Tail(q)) : q[i] = Tail(q)[j]
    BY <1>1, <1>2, ZenonT(30)
  <2> QED
    BY <2>1, ZenonT(30) DEF Members
<1>4. Members(Tail(q)) \cup {Head(q)} \subseteq Members(q)
  BY <1>1 DEF Members
<1>5. ASSUME Distinct(q) PROVE Distinct(Tail(q)) /\ Head(q) \notin Members(Tail(q))
  BY <1>1, <1>5, SMTT(30) DEF Members, Distinct
<1> QED
  BY <1>1, <1>3, <1>4, <1>5, SMTT(30)

LEMMA RequestsStep ==
    TypeOK /\ Requests /\ [Next]_vars
        => /\ job' \in [Jobs -> JobStates] /\ queue' \in Seq(Jobs)
           /\ cur' \in Jobs \cup {None} /\ parked' \in Jobs \cup {None} /\ Requests'
<1> SUFFICES ASSUME TypeOK, Requests, [Next]_vars
             PROVE  /\ job' \in [Jobs -> JobStates] /\ queue' \in Seq(Jobs)
                    /\ cur' \in Jobs \cup {None} /\ parked' \in Jobs \cup {None} /\ Requests'
  OBVIOUS
<1>t. /\ job \in [Jobs -> JobStates] /\ queue \in Seq(Jobs) /\ None \notin Jobs
      /\ cur \in Jobs \cup {None} /\ parked \in Jobs \cup {None} /\ pc \in MainStates
  BY ClientAssumption DEF TypeOK
<1>0. Queued \subseteq Jobs
  BY <1>t, SMTT(30) DEF Queued, Members
<1>1. CASE Quiet
  BY <1>1, <1>t, SMTT(30) DEF Quiet, Requests, Queued, MainStates
<1>2. ASSUME NEW j \in Jobs, Handling(j)
      PROVE  /\ job' \in [Jobs -> JobStates] /\ queue' \in Seq(Jobs)
             /\ cur' \in Jobs \cup {None} /\ parked' \in Jobs \cup {None} /\ Requests'
  <2>1. UNCHANGED <<queue, cur, parked, pc>> /\ job[j] # "wait"
    BY <1>2, HandlerCases, SMTT(30) DEF mainVars
  <2>2. PICK s \in JobStates \ {"wait"} : job' = [job EXCEPT ![j] = s]
    BY <1>2, HandlerCases, SMTT(30)
  <2> QED
    BY <1>t, <2>1, <2>2, SMTT(30) DEF Requests, Queued
<1>3. ASSUME NEW j \in Jobs, AcceptTcp(j) \/ Request(j)
      PROVE  /\ job' \in [Jobs -> JobStates] /\ queue' \in Seq(Jobs)
             /\ cur' \in Jobs \cup {None} /\ parked' \in Jobs \cup {None} /\ Requests'
  <2>1. /\ UNCHANGED <<cur, parked, pc>> /\ job[j] # "wait"
        /\ job' = [job EXCEPT ![j] = "wait"] /\ queue' = Append(queue, j)
    BY <1>3 DEF AcceptTcp, Request, Goto, mainVars
  <2>2. j \notin Queued /\ j # cur /\ j # parked
    BY <2>1, SMTT(30) DEF Requests
  <2>3. queue' \in Seq(Jobs) /\ Distinct(queue') /\ Queued' = Queued \cup {j}
    BY <1>t, <2>1, <2>2, Sending, SMTT(30) DEF Requests, Queued
  <2>4. job' \in [Jobs -> JobStates] /\ \A k \in Jobs : job'[k] = "wait" <=> (k = j \/ job[k] = "wait")
    BY <1>t, <2>1, SMTT(30) DEF JobStates
  <2> HIDE DEF Queued
  <2> QED
    BY <1>t, <2>1, <2>2, <2>3, <2>4, SMTT(30) DEF Requests
<1>4. CASE TakeRequest
  <2>1. /\ queue # << >> /\ cur' = Head(queue) /\ queue' = Tail(queue) /\ pc = "loop" /\ pc' = "request"
        /\ UNCHANGED <<job, parked>>
    BY <1>4, SMTT(30) DEF TakeRequest, jobVars
  <2>2. /\ queue' \in Seq(Jobs) /\ cur' \in Jobs /\ Distinct(queue') /\ Queued = Queued' \cup {cur'}
        /\ cur' \notin Queued'
    BY <1>t, <2>1, Receiving, SMTT(30) DEF Requests, Queued
  <2> QED
    BY <1>t, <1>0, <2>1, <2>2, SMTT(30) DEF Requests
<1>5. CASE HandshakeOk
  <2>1. /\ UNCHANGED <<job, queue>> /\ cur' = parked /\ parked' = None /\ cur = None
        /\ pc' = IF parked = None THEN "loop" ELSE "request"
    BY <1>5, SMTT(30) DEF HandshakeOk, jobVars, Requests
  <2> QED
    BY <1>t, <1>0, <2>1, SMTT(30) DEF Requests, Queued
<1>6. CASE RequestOk
  <2>1. /\ UNCHANGED <<queue, parked>> /\ cur' = None /\ pc' = "loop" /\ parked = None /\ cur \in Jobs
    BY <1>6, <1>t, ZenonT(30) DEF RequestOk, Requests
  <2>2. Kind(cur) \in {"tcp", "tcp_stdio", "socks", "socks_stdio"}
    BY <2>1, Kinds
  <2>3. PICK s \in {"reserve", "copy", "reply"} : job' = [job EXCEPT ![cur] = s]
    BY <1>6, <2>2, ZenonT(30) DEF RequestOk, Goto, Socks
  <2>4. job' \in [Jobs -> JobStates] /\ \A k \in Jobs : job'[k] = "wait" <=> (k # cur /\ job[k] = "wait")
    BY <1>t, <2>1, <2>3 DEF JobStates
  <2> QED
    BY <1>t, <1>0, <2>1, <2>4, SMTT(30) DEF Requests, Queued
<1>7. CASE RequestFails
  <2>1. /\ UNCHANGED <<job, queue>> /\ parked' = cur /\ cur' = None /\ pc' \in {"exited", "backoff"}
        /\ parked = None
    BY <1>7 DEF RequestFails, ConnectionFailed, Failed, Exit, jobVars, Requests
  <2> QED
    BY <1>t, <1>0, <2>1 DEF Requests, Queued
<1> QED
  BY <1>1, <1>2, <1>3, <1>4, <1>5, <1>6, <1>7, StepCases, ZenonT(30)

LEMMA PlacesStep == TypeOK /\ Requests /\ Places /\ [Next]_vars => Places'
<1> SUFFICES ASSUME TypeOK, Requests, Places, [Next]_vars PROVE Places'
  OBVIOUS
<1>t. /\ job \in [Jobs -> JobStates] /\ queue \in Seq(Jobs) /\ None \notin Jobs
      /\ cur \in Jobs \cup {None} /\ Capacity \in Nat /\ Len(queue) \in Nat
  BY ClientAssumption DEF TypeOK
<1>c. IsFiniteSet(Permits) /\ Cardinality(Permits) \in Nat /\ Len(queue) + Cardinality(Permits) <= Capacity
  BY FS_CardinalityType DEF Places
<1>f. Free = Capacity - Len(queue) - Cardinality(Permits)
  BY DEF Free, Permits
<1>s. ASSUME Permits' \subseteq Permits, Len(queue') \in Nat, Len(queue') <= Len(queue) PROVE Places'
  <2>1. /\ IsFiniteSet(Permits') /\ Cardinality(Permits') <= Cardinality(Permits)
        /\ Cardinality(Permits') \in Nat
    BY <1>s, <1>c, FS_Subset, FS_CardinalityType, SMTT(30)
  <2> QED
    BY <1>s, <1>c, <1>t, <2>1, SMTT(30) DEF Places
<1>1. CASE Quiet
  BY <1>1, <1>s, <1>t, SMTT(30) DEF Quiet, Permits
<1>2. ASSUME NEW j \in Jobs, Handling(j), ~Reserve(j) PROVE Places'
  <2>1. UNCHANGED queue /\ (job'[j] = "permit" => job[j] = "permit")
    BY <1>2, HandlerCases
  <2>2. PICK s \in JobStates : job' = [job EXCEPT ![j] = s]
    BY <1>2, HandlerCases
  <2>3. Permits' \subseteq Permits
    BY <1>t, <2>1, <2>2, SMTT(30) DEF Permits
  <2> QED
    BY <1>s, <1>t, <2>1, <2>3, SMTT(30)
<1>3. ASSUME NEW j \in Jobs, Reserve(j) PROVE Places'
  <2>1. UNCHANGED queue /\ Free > 0 /\ job[j] = "reserve" /\ job' = [job EXCEPT ![j] = "permit"]
    BY <1>3 DEF Reserve, Goto
  <2>2. Permits' = Permits \cup {j} /\ j \notin Permits
    BY <1>t, <2>1, SMTT(30) DEF Permits
  <2>3. IsFiniteSet(Permits') /\ Cardinality(Permits') = Cardinality(Permits) + 1
    BY <1>c, <2>2, FS_AddElement, SMTT(30)
  <2> QED
    BY <1>c, <1>f, <1>t, <2>1, <2>3, SMTT(30) DEF Places
<1>4. ASSUME NEW j \in Jobs, AcceptTcp(j) PROVE Places'
  <2>1. job[j] = "permit" /\ job' = [job EXCEPT ![j] = "wait"] /\ queue' = Append(queue, j)
    BY <1>4 DEF AcceptTcp, Goto
  <2>2. Permits' = Permits \ {j} /\ j \in Permits
    BY <1>t, <2>1 DEF Permits
  <2>3. IsFiniteSet(Permits') /\ Cardinality(Permits') = Cardinality(Permits) - 1
    BY <1>c, <2>2, FS_RemoveElement, SMTT(30)
  <2>4. Len(queue') = Len(queue) + 1
    BY <1>t, <2>1, SMTT(30)
  <2> QED
    BY <1>c, <1>t, <2>3, <2>4, SMTT(30) DEF Places
<1>5. ASSUME NEW j \in Jobs, Request(j) PROVE Places'
  <2>1. /\ Free > 0 /\ job[j] = "reserve" /\ job' = [job EXCEPT ![j] = "wait"]
        /\ queue' = Append(queue, j)
    BY <1>5 DEF Request, Goto
  <2>2. Permits' = Permits
    BY <1>t, <2>1 DEF Permits
  <2>3. Len(queue') = Len(queue) + 1
    BY <1>t, <2>1
  <2> QED
    BY <1>c, <1>f, <1>t, <2>1, <2>2, <2>3, SMTT(30) DEF Places
<1>6. CASE TakeRequest
  <2>1. queue # << >> /\ queue' = Tail(queue) /\ UNCHANGED job
    BY <1>6 DEF TakeRequest, jobVars
  <2>2. Len(queue') = Len(queue) - 1 /\ Len(queue') \in Nat
    BY <1>t, <2>1, SMTT(30)
  <2> QED
    BY <1>s, <1>t, <2>1, <2>2, SMTT(30) DEF Permits
<1>7. CASE HandshakeOk
  BY <1>7, <1>s, <1>t, SMTT(30) DEF HandshakeOk, jobVars, Permits
<1>8. CASE RequestOk
  <2>1. UNCHANGED queue /\ cur \in Jobs
    BY <1>8, <1>t DEF RequestOk, Requests
  <2>2. Kind(cur) \in {"tcp", "tcp_stdio", "socks", "socks_stdio"}
    BY <2>1, Kinds
  <2>3. PICK s \in {"reserve", "copy", "reply"} : job' = [job EXCEPT ![cur] = s]
    BY <1>8, <2>2, ZenonT(30) DEF RequestOk, Goto, Socks
  <2>4. Permits' \subseteq Permits
    BY <1>t, <2>1, <2>3 DEF Permits
  <2> QED
    BY <1>s, <1>t, <2>1, <2>4, SMTT(30)
<1>9. CASE RequestFails
  BY <1>9, <1>s, <1>t DEF RequestFails, jobVars, Permits
<1> QED
  BY <1>1, <1>2, <1>3, <1>4, <1>5, <1>6, <1>7, <1>8, <1>9, StepCases, ZenonT(30)

(* What the SOCKS clients are told. *)
LEMMA TellingStep ==
    TypeOK /\ Requests /\ Telling /\ [Next]_vars
        => Telling' /\ told' \in [Jobs -> {None, "refused", "granted"}]
<1> SUFFICES ASSUME TypeOK, Requests, Telling, [Next]_vars
             PROVE  Telling' /\ told' \in [Jobs -> {None, "refused", "granted"}]
  OBVIOUS
<1>t. /\ job \in [Jobs -> JobStates] /\ told \in [Jobs -> {None, "refused", "granted"}]
      /\ cur \in Jobs \cup {None}
  BY SMTT(30) DEF TypeOK
<1>k. \A j \in Jobs : (Socks(j))' = Socks(j)
  BY MainCases DEF Socks, Kind, args
<1>w. \A j \in Jobs : SocksOver(j) \in {"idle", "done"}
  BY DEF SocksOver
<1> DEFINE Fine(s, t, k) == /\ t = "granted" => s \in {"copy", "relaying", "idle", "done", "failed"}
                            /\ s \in {"copy", "relaying"} /\ k => t = "granted"
                            /\ ~k => t # "granted" /\ s \notin {"idle", "reply", "associate", "relaying"}
<1>f. \A j \in Jobs : Fine(job[j], told[j], Socks(j))
  BY SMTT(30) DEF Telling, SocksToldTruth
<1>g. ASSUME \A j \in Jobs : Fine(job'[j], told'[j], Socks(j)) PROVE Telling'
  BY <1>g, <1>k, SMTT(30) DEF Telling, SocksToldTruth
<1>i. ASSUME NEW j \in Jobs, NEW s \in JobStates, NEW t \in {None, "refused", "granted"},
             job' = [job EXCEPT ![j] = s], told' = [told EXCEPT ![j] = t], Fine(s, t, Socks(j))
      PROVE  Telling' /\ told' \in [Jobs -> {None, "refused", "granted"}]
  <2> HIDE DEF Fine
  <2>1. \A k \in Jobs : Fine(job'[k], told'[k], Socks(k))
    BY <1>i, <1>t, <1>f, SMTT(30)
  <2> QED
    BY <1>i, <1>t, <1>g, <2>1, SMTT(30)
<1>u. \A j \in Jobs : told = [told EXCEPT ![j] = told[j]]
  BY <1>t, SMTT(30)
<1>1. CASE Quiet
  BY <1>1, <1>t, <1>f, <1>g, SMTT(30) DEF Quiet
<1>2. ASSUME NEW j \in Jobs, SocksAccept(j)
      PROVE  Telling' /\ told' \in [Jobs -> {None, "refused", "granted"}]
  <2>1. PICK o \in {SocksOutcome(q, SocksOver(j)) : q \in SocksRequests} :
             told' = [told EXCEPT ![j] = o[1]] /\ Goto(j, o[2])
    BY <1>2, ZenonT(30) DEF SocksAccept
  <2>2. o \in {<<None, SocksOver(j)>>, <<"refused", SocksOver(j)>>, <<None, "associate">>, <<None, "reserve">>}
    BY <2>1, Outcomes
  <2>3. o[1] \in {None, "refused"} /\ o[2] \in {"idle", "done", "associate", "reserve"}
    BY <1>w, <2>2
  <2>4. Fine(o[2], o[1], Socks(j)) /\ o[2] \in JobStates
    BY <1>2, <2>3 DEF SocksAccept, None, JobStates
  <2> QED
    BY <1>i, <2>1, <2>3, <2>4, ZenonT(30) DEF Goto
<1>3. ASSUME NEW j \in Jobs, HandleConnect(j)
      PROVE  Telling' /\ told' \in [Jobs -> {None, "refused", "granted"}]
  <2>1. Socks(j) /\ told[j] # "granted"
    BY <1>3, <1>f, SMTT(30) DEF HandleConnect
  <2>2. CASE told' = [told EXCEPT ![j] = "granted"] /\ Goto(j, "copy")
    BY <1>i, <2>1, <2>2, ZenonT(30) DEF Goto, JobStates
  <2>3. CASE Goto(j, SocksOver(j)) /\ UNCHANGED told
    BY <1>i, <1>u, <1>t, <1>w, <2>1, <2>3, ZenonT(30) DEF Goto, JobStates
  <2> QED
    BY <1>3, <2>2, <2>3, SMTT(30) DEF HandleConnect
<1>4. ASSUME NEW j \in Jobs, HandleAssociate(j)
      PROVE  Telling' /\ told' \in [Jobs -> {None, "refused", "granted"}]
  <2>1. Socks(j) /\ told[j] # "granted"
    BY <1>4, <1>f, SMTT(30) DEF HandleAssociate
  <2>2. ASSUME NEW t \in {"refused", None}, told' = [told EXCEPT ![j] = t], Goto(j, SocksOver(j))
        PROVE  Telling' /\ told' \in [Jobs -> {None, "refused", "granted"}]
    BY <1>i, <1>w, <2>1, <2>2, ZenonT(30) DEF Goto, JobStates, None
  <2>3. CASE told' = [told EXCEPT ![j] = "granted"] /\ Goto(j, "relaying")
    BY <1>i, <2>1, <2>3, ZenonT(30) DEF Goto, JobStates
  <2>4. CASE Goto(j, SocksOver(j)) /\ UNCHANGED told
    BY <1>i, <1>u, <1>t, <1>w, <2>1, <2>4, ZenonT(30) DEF Goto, JobStates
  <2> QED
    BY <1>4, <2>2, <2>3, <2>4, SMTT(30) DEF HandleAssociate
<1>5. ASSUME NEW j \in Jobs, NEW s \in JobStates, job' = [job EXCEPT ![j] = s], UNCHANGED told,
             Fine(s, told[j], Socks(j))
      PROVE  Telling' /\ told' \in [Jobs -> {None, "refused", "granted"}]
  BY <1>i, <1>u, <1>t, <1>5, ZenonT(30)
<1>6. ASSUME NEW j \in Jobs, Reserve(j) \/ AcceptFails(j)
      PROVE  Telling' /\ told' \in [Jobs -> {None, "refused", "granted"}]
  <2>1. \/ ~Socks(j) /\ job[j] \in {"reserve", "permit"} /\ job' = [job EXCEPT ![j] = "permit"]
        \/ job' = [job EXCEPT ![j] = "failed"]
    BY <1>6 DEF Reserve, AcceptFails, Goto, Socks
  <2>2. UNCHANGED told
    BY <1>6 DEF Reserve, AcceptFails
  <2> QED
    BY <1>5, <1>f, <2>1, <2>2 DEF JobStates
<1>7. ASSUME NEW j \in Jobs, RelayAborted(j)
      PROVE  Telling' /\ told' \in [Jobs -> {None, "refused", "granted"}]
  <2>1. UNCHANGED told /\ job[j] = "relaying" /\ job' = [job EXCEPT ![j] = SocksOver(j)]
    BY <1>7, SMTT(30) DEF RelayAborted, Goto
  <2> QED
    BY <1>5, <1>f, <1>w, <2>1, ZenonT(30) DEF JobStates
<1>8. ASSUME NEW j \in Jobs, CopyEnds(j)
      PROVE  Telling' /\ told' \in [Jobs -> {None, "refused", "granted"}]
  <2>1. /\ UNCHANGED told /\ job[j] = "copy"
        /\ \/ Socks(j) /\ job' = [job EXCEPT ![j] = SocksOver(j)]
           \/ ~Socks(j) /\ \E s \in {"done", "reserve", "failed"} : job' = [job EXCEPT ![j] = s]
    BY <1>8, SMTT(30) DEF CopyEnds, Goto
  <2> QED
    BY <1>5, <1>f, <1>w, <2>1, ZenonT(30) DEF JobStates
<1>9. ASSUME NEW j \in Jobs, AcceptTcp(j) \/ Request(j)
      PROVE  Telling' /\ told' \in [Jobs -> {None, "refused", "granted"}]
  <2>1. UNCHANGED told /\ job[j] \in {"permit", "reserve"} /\ job' = [job EXCEPT ![j] = "wait"]
    BY <1>9, SMTT(30) DEF AcceptTcp, Request, Goto
  <2> QED
    BY <1>5, <1>f, <2>1, ZenonT(30) DEF JobStates
<1>10. CASE TakeRequest \/ HandshakeOk \/ RequestFails
  BY <1>10, <1>t, <1>f, <1>g, SMTT(30) DEF TakeRequest, HandshakeOk, RequestFails, jobVars
<1>11. CASE RequestOk
  <2>1. UNCHANGED told /\ cur \in Jobs /\ job[cur] = "wait"
    BY <1>11, <1>t, SMTT(30) DEF RequestOk, Requests
  <2>2. Kind(cur) \in {"tcp", "tcp_stdio", "socks", "socks_stdio"}
    BY <2>1, Kinds
  <2>3. \/ ~Socks(cur) /\ job' = [job EXCEPT ![cur] = "reserve"]
        \/ ~Socks(cur) /\ job' = [job EXCEPT ![cur] = "copy"]
        \/ Socks(cur) /\ job' = [job EXCEPT ![cur] = "reply"]
    BY <1>11, <2>2, ZenonT(30) DEF RequestOk, Goto, Socks
  <2> QED
    BY <1>5, <1>f, <2>1, <2>3, SMTT(30) DEF JobStates
<1> QED
  BY <1>1, <1>2, <1>3, <1>4, <1>6, <1>7, <1>8, <1>9, <1>10, <1>11, StepCases, ZenonT(30) DEF Handling

-----------------------------------------------------------------------------

LEMMA InitIInv == Init => IInv
<1> SUFFICES ASSUME Init PROVE IInv
  OBVIOUS
<1>k. \A j \in Jobs : job[j] = IF Socks(j) THEN "idle" ELSE "reserve"
  BY DEF Init
<1>1. TypeOK
  <2>1. job \in [Jobs -> JobStates] /\ told \in [Jobs -> {None, "refused", "granted"}]
    BY DEF Init, JobStates
  <2>2. queue \in Seq(Jobs) /\ cur \in Jobs \cup {None} /\ parked \in Jobs \cup {None}
    BY DEF Init
  <2>3. backoff \in Backoffs /\ retries \in 0..CountMod
    BY ClientAssumption DEF Init, Backoffs, BackoffNew
  <2>4. pc \in MainStates /\ remote \in Remotes /\ max_count \in MaxCounts
    BY ZenonT(30) DEF Init, MainStates
  <2> QED
    BY <2>1, <2>2, <2>3, <2>4, Zenon DEF TypeOK
<1>2. Requests
  BY <1>k, ClientAssumption DEF Init, Requests, Queued, Members, Distinct
<1>3. Permits = {}
  BY <1>k, SMTT(30) DEF Permits
<1>4. Places
  BY <1>3, FS_EmptySet, ClientAssumption, SMTT(30) DEF Init, Places
<1>5. Telling
  BY <1>k, SMTT(30) DEF Init, Telling, SocksToldTruth, None
<1>6. Retrying
  BY ClientAssumption, SMTT(30) DEF Init, Retrying, Schedule, BackoffNew, None
<1> QED
  BY <1>1, <1>2, <1>4, <1>5, <1>6 DEF IInv

LEMMA NextIInv == IInv /\ [Next]_vars => IInv'
<1> SUFFICES ASSUME IInv, [Next]_vars PROVE IInv'
  OBVIOUS
<1>1. TypeOK /\ Requests /\ Places /\ Telling /\ Retrying
  BY SMTT(30) DEF IInv
<1>2. TypeOK'
  BY <1>1, RequestsStep, TellingStep, RetryStep, SMTT(30) DEF TypeOK
<1> QED
  BY <1>1, <1>2, RequestsStep, PlacesStep, TellingStep, RetryStep, SMTT(30) DEF IInv

(* The inductive invariant holds throughout. *)
THEOREM ClientInductive == Spec => []IInv
<1> QED
  BY InitIInv, NextIInv, PTL DEF Spec

(* A set with one element at most has as many as it should. *)
LEMMA CountPlaces ==
    ASSUME TypeOK, Requests, NEW j \in Jobs
    PROVE  LET places == queue \o <<cur, parked>> IN
           Cardinality({i \in 1..Len(places) : places[i] = j}) = IF job[j] = "wait" THEN 1 ELSE 0
<1> DEFINE places == queue \o <<cur, parked>>
           at == {i \in 1..Len(places) : places[i] = j}
           n == Len(queue)
<1>1. queue \in Seq(Jobs) /\ n \in Nat /\ j # None
  BY ClientAssumption DEF TypeOK
<1>2. /\ Len(places) = n + 2 /\ \A i \in 1..n : places[i] = queue[i]
      /\ places[n + 1] = cur /\ places[n + 2] = parked
  <2> DEFINE t == <<cur, parked>>  T == Jobs \cup {cur, parked}
  <2>1. t \in Seq(T) /\ Len(t) = 2 /\ t[1] = cur /\ t[2] = parked
    OBVIOUS
  <2>2. queue \in Seq(T)
    BY <1>1
  <2> HIDE DEF t, T
  <2>3. /\ Len(queue \o t) = n + Len(t)
        /\ \A i \in 1..(n + Len(t)) : (queue \o t)[i] = IF i <= n THEN queue[i] ELSE t[i - n]
    BY <2>1, <2>2, ConcatProperties, ZenonT(30)
  <2>4. n + 1 \in 1..(n + 2) /\ n + 2 \in 1..(n + 2) /\ ~(n + 1 <= n) /\ ~(n + 2 <= n)
        /\ (n + 1) - n = 1 /\ (n + 2) - n = 2 /\ \A i \in 1..n : i \in 1..(n + 2) /\ i <= n
    BY <1>1
  <2>5. \A i \in 1..(n + 2) : (queue \o t)[i] = IF i <= n THEN queue[i] ELSE t[i - n]
    BY <2>1, <2>3, Zenon
  <2>6. Len(queue \o t) = n + 2
    BY <2>1, <2>3, Zenon
  <2>7. \A i \in 1..n : (queue \o t)[i] = queue[i]
    BY <2>4, <2>5, Zenon
  <2>8. (queue \o t)[n + 1] = cur /\ (queue \o t)[n + 2] = parked
    BY <2>1, <2>4, <2>5, Zenon
  <2> QED
    BY <2>6, <2>7, <2>8, Zenon DEF t
<1> HIDE DEF places
<1>3. \A i \in at : i \in 1..n \/ i = n + 1 \/ i = n + 2
  <2>1. \A i \in at : i \in 1..(n + 2)
    BY <1>2, ZenonT(30)
  <2>2. \A i \in 1..(n + 2) : i \in 1..n \/ i = n + 1 \/ i = n + 2
    BY <1>1, SMTT(30)
  <2> QED
    BY <2>1, <2>2, Zenon
<1>4. CASE j \in Queued
  <2>1. PICK i \in 1..n : queue[i] = j
    BY <1>4 DEF Queued, Members
  <2>2. at = {i}
    BY <1>1, <1>2, <1>3, <1>4, <2>1 DEF Requests, Distinct
  <2> QED
    BY <1>4, <2>2, FS_Singleton, ZenonT(30) DEF Requests, places
<1>5. CASE j \notin Queued
  <2>0. \A i \in 1..n : places[i] # j
    BY <1>2, <1>5 DEF Queued, Members
  <2>1. CASE j = cur
    <3>1. at = {n + 1}
      BY <1>1, <1>2, <1>3, <2>0, <2>1 DEF Requests
    <3> QED
      BY <2>1, <3>1, FS_Singleton, ZenonT(30) DEF Requests, places
  <2>2. CASE j = parked
    <3>1. at = {n + 2}
      BY <1>1, <1>2, <1>3, <2>0, <2>2 DEF Requests
    <3> QED
      BY <2>2, <3>1, FS_Singleton, ZenonT(30) DEF Requests, places
  <2>3. CASE j # cur /\ j # parked
    <3>1. at = {}
      BY <1>2, <1>3, <2>0, <2>3
    <3> QED
      BY <1>5, <2>3, <3>1, FS_EmptySet, ZenonT(30) DEF Requests, places
  <2> QED
    BY <2>1, <2>2, <2>3, ZenonT(30)
<1> QED
  BY <1>4, <1>5, ZenonT(30)

(* No request is lost: whatever connections and requests fail, a handler   *)
(* that waits is in the channel, in the hands of get_send_stream_chan or   *)
(* parked in failed_stream_request, in one of these and once, and the      *)
(* channel is never over its capacity.                                     *)
THEOREM RequestKept == Spec => []NoRequestLost
<1>1. IInv => NoRequestLost
  <2> SUFFICES ASSUME IInv PROVE NoRequestLost
    OBVIOUS
  <2>1. Free >= 0
    BY FS_CardinalityType, ClientAssumption DEF IInv, TypeOK, Places, Free, Permits
  <2> QED
    BY <2>1, CountPlaces, ZenonT(30) DEF IInv, NoRequestLost
<1> QED
  BY <1>1, ClientInductive, PTL

(* A SOCKS client is told of success only with its stream or relay there   *)
(* (handle_connect, handle_associate), for any mix of remotes.             *)
THEOREM ClientsToldTruth == Spec => []SocksToldTruth
<1>1. IInv => SocksToldTruth
  BY DEF IInv, Telling
<1> QED
  BY <1>1, ClientInductive, PTL

(* Backoff::advance and its reset in inspect_err: the n-th interval in a   *)
(* row is Initial * Mult^(n-1) up to MaxInterval, for any of the three,    *)
(* and the client gives up after max_retry_count intervals and no other    *)
(* number.                                                                 *)
THEOREM BackoffKeepsSchedule == Spec => []BackoffSchedule
<1>1. IInv => BackoffSchedule
  BY ClientAssumption DEF IInv, TypeOK, Retrying, Schedule, BackoffSchedule
<1> QED
  BY <1>1, ClientInductive, PTL

=============================================================================
