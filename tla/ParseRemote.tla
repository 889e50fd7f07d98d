---------------------------- MODULE ParseRemote ----------------------------
(***************************************************************************)
(* parse_remote.rs: the remotes of the command line.  A string is a        *)
(* sequence of lexemes: ":", "[", "]" and "/", which the parser looks at,  *)
(* and words.  Ports are the words in PortWords.                           *)
(***************************************************************************)
EXTENDS Naturals, Sequences, FiniteSetsExt

CONSTANT PortWords

(* default_host!, of the IPv4 build *)
DefaultLocal == <<"127.0.0.1">>
DefaultUnspec == <<"0.0.0.0">>

At(s, x) == {i \in 1..Len(s) : s[i] = x}

(* Protocol::from_str, which ignores case *)
Protocol(s) ==
    CASE s \in {<<"tcp">>, <<"TCP">>} -> "Tcp"
      [] s \in {<<"udp">>, <<"UDP">>} -> "Udp"
      [] OTHER -> "Invalid"

(* tokenize_remote: the tokens from position i on.  A bracketed host at    *)
(* the end of the string is sliced beyond its end, which panics.           *)
Tokenize(s) ==
    LET Next(x, i) == Min({j \in At(s, x) : j >= i})
        Has(x, i) == \E j \in At(s, x) : j >= i
        Fail(e) == [err |-> e, tokens |-> << >>]
        Then(token, r) == [r EXCEPT !.tokens = <<token>> \o @]
        loop[i \in 1..Len(s) + 1] ==
            IF i <= Len(s) /\ s[i] = "["
              THEN IF ~Has("]", i) THEN Fail("Host")
                   ELSE LET end == Next("]", i) IN
                        IF end = Len(s) THEN Fail("panic")
                        ELSE IF s[end + 1] # ":" THEN Fail("Format")
                        ELSE Then(SubSeq(s, i, end), loop[end + 2])
            ELSE IF Has(":", i)
              THEN Then(SubSeq(s, i, Next(":", i) - 1), loop[Next(":", i) + 1])
            ELSE [err |-> "none", tokens |-> <<SubSeq(s, i, Len(s))>>]
    IN  loop[1]

RemoveBrackets(t) ==
    IF Len(t) >= 2 /\ Head(t) = "[" /\ t[Len(t)] = "]" THEN SubSeq(t, 2, Len(t) - 1) ELSE t

Inet(host, port) == [kind |-> "inet", host |-> host, port |-> port]
Stdio == [kind |-> "stdio", host |-> <<"stdio">>, port |-> << >>]
Socks == [kind |-> "socks", host |-> <<"socks">>, port |-> << >>]

(* The patterns of Remote::from_str: the local and the remote side. *)
Sides(t) ==
    LET Host(i) == RemoveBrackets(t[i])
    IN  CASE Len(t) = 1 ->
               IF t[1] = <<"socks">> THEN <<Inet(DefaultLocal, <<"1080">>), Socks>>
               ELSE <<Inet(DefaultUnspec, t[1]), Inet(DefaultLocal, t[1])>>
          [] Len(t) = 2 ->
               IF t[2] = <<"socks">>
                 THEN <<IF t[1] = <<"stdio">> THEN Stdio ELSE Inet(DefaultLocal, t[1]), Socks>>
                 ELSE IF t[1] = <<"stdio">> THEN <<Stdio, Inet(DefaultLocal, t[2])>>
                 ELSE <<Inet(DefaultUnspec, t[2]), Inet(Host(1), t[2])>>
          [] Len(t) = 3 ->
               IF t[1] = <<"stdio">> THEN <<Stdio, Inet(Host(2), t[3])>>
               ELSE IF t[3] = <<"socks">> THEN <<Inet(Host(1), t[2]), Socks>>
               ELSE <<Inet(DefaultUnspec, t[1]), Inet(Host(2), t[3])>>
          [] Len(t) = 4 -> <<Inet(Host(1), t[2]), Inet(Host(3), t[4])>>
          [] OTHER -> << >>

NoRemote == [local |-> Stdio, remote |-> Socks, protocol |-> "Tcp"]
Failure(e) == [err |-> e, remote |-> NoRemote]

(* port.parse()? of a side *)
PortOk(a) == a.kind # "inet" \/ (Len(a.port) = 1 /\ a.port[1] \in PortWords)

(* Remote::from_str *)
FromStr(s) ==
    LET slash == "/" \in Range(s)
        cut == Max(At(s, "/"))
        protocol == IF slash THEN Protocol(SubSeq(s, cut + 1, Len(s))) ELSE "Tcp"
        t == Tokenize(IF slash THEN SubSeq(s, 1, cut - 1) ELSE s)
        sides == Sides(t.tokens)
    IN  IF protocol = "Invalid" THEN Failure("Protocol")
        ELSE IF t.err # "none" THEN Failure(t.err)
        ELSE IF sides = << >> THEN Failure("Format")
        ELSE IF ~PortOk(sides[1]) \/ ~PortOk(sides[2]) THEN Failure("Port")
        ELSE IF sides[2] = Socks /\ protocol = "Udp" THEN Failure("UdpSocks")
        ELSE [err |-> "none",
              remote |-> [local |-> sides[1], remote |-> sides[2], protocol |-> protocol]]

(* Hosts are never put in brackets. *)
ShowBare(a) == IF a.kind = "inet" THEN a.host \o <<":">> \o a.port ELSE a.host

Show(a) ==
    IF a.kind # "inet" THEN a.host
    ELSE (IF ":" \in Range(a.host) THEN <<"[">> \o a.host \o <<"]">> ELSE a.host) \o <<":">> \o a.port

(* Display for Remote *)
Display(r) ==
    Show(r.local) \o <<":">> \o Show(r.remote)
        \o <<"/", IF r.protocol = "Tcp" THEN "tcp" ELSE "udp">>
=============================================================================
