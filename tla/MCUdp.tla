------------------------------- MODULE MCUdp -------------------------------
(* The scenarios of the run of Udp; the flow ids are alike. *)
EXTENDS Udp, TLC

(* A plain client and a SOCKS client at the same time ... *)
Together == [users |-> {"app", "socks"}, ids |-> Ids, again |-> 0]

(* ... one after the other with the same id ... *)
OneId == {[users |-> {"app", "socks"}, ids |-> {i}, again |-> 1] : i \in Ids}

(* ... and a plain client beside standard input. *)
Stdio == {[users |-> {"app", "stdio"}, ids |-> {i}, again |-> 1] : i \in Ids}

AllScenarios == {Together} \cup OneId \cup Stdio

IdSymmetry == Permutations(Ids)
=============================================================================
