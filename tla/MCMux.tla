------------------------------- MODULE MCMux -------------------------------
(* The scenarios of the runs of Mux. *)
EXTENDS Mux

Each(a, b) == [e \in End |-> IF e = "A" THEN a ELSE b]
OneTwo == Each(1, 2)

Idle ==
    [ids |-> {1}, retries |-> 1, bindCap |-> 0, streams |-> Each(0, 0), binds |-> Each(0, 0),
     writes |-> Each(0, 0), datagrams |-> 0, close |-> {}, drop |-> {}, cancel |-> {}, break |-> FALSE]

(* One stream carries one write one way and two the other; both users      *)
(* half-close and drop it.                                                 *)
Transfer(w) == [Idle EXCEPT !.streams = Each(1, 0), !.writes = w, !.close = End]

(* Both ends open a stream and the flow ids collide. *)
Contention ==
    [Idle EXCEPT !.ids = {1, 2, 3}, !.retries = 2, !.streams = Each(1, 1)]

(* Either Multiplexor is dropped at any point of a stream's life. *)
Shutdown1 == [Idle EXCEPT !.streams = Each(1, 0), !.writes = Each(1, 1), !.close = {"A"}, !.drop = End]

(* Two bind requests, of which only one fits in the queue. *)
Binds == [Idle EXCEPT !.ids = {1, 2}, !.bindCap = 1, !.binds = Each(2, 0), !.close = End,
                      !.drop = End]

(* Two streams, of which only one fits in the accept queue. *)
Backpressure == [Idle EXCEPT !.ids = {1, 2}, !.streams = Each(2, 0), !.drop = End]

(* Two datagrams each way, of which only one fits in the queue. *)
Datagrams == [Idle EXCEPT !.streams = Each(1, 0), !.datagrams = 2, !.drop = {"B"}]

(* The connection breaks at any point, and A may cancel its call. *)
Break == [Idle EXCEPT !.ids = {1, 2}, !.streams = Each(1, 0), !.writes = Each(1, 1), !.close = {"A"},
                      !.cancel = {"A"}, !.break = TRUE]

(* The connection breaks while both ends open a stream. *)
BreakBoth == [Idle EXCEPT !.ids = {1, 2}, !.streams = Each(1, 1), !.break = TRUE]

AllScenarios ==
    {Transfer(Each(1, 2)), Transfer(Each(2, 1)), Contention, Shutdown1, Binds, Backpressure,
     Datagrams, Break, BreakBoth}

(* A cancels its call, and nothing else goes wrong. *)
CancelOnly == {[Idle EXCEPT !.ids = {1, 2}, !.streams = Each(1, 0), !.close = End,
                            !.cancel = {"A"}]}
=============================================================================
