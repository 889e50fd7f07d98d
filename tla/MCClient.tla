------------------------------ MODULE MCClient ------------------------------
(* The remotes of the runs of Client. *)
EXTENDS Client

R(l, r) == [local |-> l, remote |-> r, protocol |-> "tcp"]
Pair(a, b) == [j \in {"j1", "j2"} |-> IF j = "j1" THEN a ELSE b]

(* Two TCP listeners; one with a SOCKS connection, and with standard       *)
(* input; the two kinds of handlers that may return Ok.                    *)
AllPairs == {Pair(R("inet", "inet"), R("inet", "inet")),
             Pair(R("inet", "inet"), R("inet", "socks")),
             Pair(R("inet", "inet"), R("stdio", "inet")),
             Pair(R("stdio", "socks"), R("stdio", "inet"))}
Listeners == {Pair(R("inet", "inet"), R("inet", "inet"))}
=============================================================================
