----------------------------- MODULE SocksWire -----------------------------
(***************************************************************************)
(* What the SOCKS server reads and writes: v4.rs, v5.rs and the headers of *)
(* the UDP relay.  The input is the sequence of octets the application     *)
(* sends before it closes; a read beyond its end fails.  A host is         *)
(* <<kind, octets>>: addresses become text, names stay what they are.      *)
(***************************************************************************)
EXTENDS Octets, FiniteSetsExt

Failed(e, replies) ==
    [err |-> e, replies |-> replies, command |-> 0, host |-> <<"name", << >>>>, port |-> 0,
     rest |-> << >>]

Request(command, host, port, rest, replies) ==
    [err |-> "none", replies |-> replies, command |-> command, host |-> host, port |-> port,
     rest |-> rest]

(* v5::read_auth_methods: what is offered, and what follows. *)
ReadAuthMethods(b) ==
    IF b = << >> \/ Len(b) < 1 + b[1] THEN [err |-> "eof", methods |-> {}, rest |-> << >>]
    ELSE [err |-> "none", methods |-> {b[1 + i] : i \in 1..b[1]}, rest |-> From(b, 2 + b[1])]

(* A port that did not arrive is taken as 0. *)
SizedNoPort(kind, n, b) ==
    IF Len(b) < n THEN [err |-> "eof", host |-> <<"name", << >>>>, port |-> 0, rest |-> << >>]
    ELSE [err |-> "none", host |-> <<kind, Octets(b, 1, n)>>,
          port |-> IF Len(b) < n + 2 THEN 0 ELSE GetU16(b, n + 1), rest |-> From(b, n + 3)]

(* An address and the port after it, for the types that have a size. *)
Sized(kind, n, b) ==
    IF Len(b) < n + 2 THEN [err |-> "eof", host |-> <<"name", << >>>>, port |-> 0, rest |-> << >>]
    ELSE [err |-> "none", host |-> <<kind, Octets(b, 1, n)>>, port |-> GetU16(b, n + 1),
          rest |-> From(b, n + 3)]

(* v5::read_address and the port; also the match in the relay's header.    *)
ReadAddress(b) ==
    LET short == Sized("name", 1, << >>) IN
    CASE b = << >> -> short
      [] b # << >> /\ b[1] = 1 -> Sized("ipv4", 4, Tail(b))
      [] b # << >> /\ b[1] = 4 -> Sized("ipv6", 16, Tail(b))
      [] b # << >> /\ b[1] = 3 -> IF Len(b) < 2 THEN short ELSE Sized("name", b[2], From(b, 3))
      [] OTHER -> [short EXCEPT !.err = "type"]

(* v5::read_request; an unknown address type is answered with 8. *)
ReadRequest5(b, replies) ==
    LET a == ReadAddress(From(b, 4)) IN
    IF b = << >> THEN Failed("eof", replies)
    ELSE IF b[1] # 5 THEN Failed("version", replies)
    ELSE IF Len(b) < 3 \/ a.err = "eof" THEN Failed("eof", replies)
    ELSE IF a.err = "type" THEN Failed("type", Append(replies, 8))
    ELSE Request(b[2], a.host, a.port, a.rest, replies)

(* read_until(0) and pop(): the string, without its last octet, and what   *)
(* follows.  At the end of the input the delimiter may be missing.         *)
ReadUntilZero(b) ==
    LET zeros == {i \in 1..Len(b) : b[i] = 0}
        end == IF zeros = {} THEN Len(b) ELSE Min(zeros)
    IN  <<SubSeq(b, 1, end - 1), From(b, end + 1)>>

(* v4::read_request *)
ReadRequest4(b) ==
    LET user == ReadUntilZero(From(b, 8))
        domain == ReadUntilZero(user[2])
        port == GetU16(b, 2)
    IN  IF Len(b) < 7 THEN Failed("eof", << >>)
        ELSE IF b[4] = 0 THEN Request(b[1], <<"name", domain[1]>>, port, domain[2], << >>)
        ELSE Request(b[1], <<"ipv4", Octets(b, 4, 4)>>, port, user[2], << >>)

(* socks4 and socks5 up to the command; unknown commands are refused.      *)
Socks4(b) ==
    LET q == ReadRequest4(b) IN
    IF q.err # "none" \/ q.command = 1 THEN q
    ELSE Failed("command", <<91>>)

Socks5(b) ==
    LET m == ReadAuthMethods(b)
        q == ReadRequest5(m.rest, <<0>>)
    IN  IF m.err # "none" THEN Failed("eof", << >>)
        ELSE IF 0 \notin m.methods THEN Failed("auth", <<255>>)
        ELSE IF q.err # "none" \/ q.command \in {1, 3} THEN q
        ELSE Failed("command", <<0, 7>>)

(* on_socks_accept *)
OnSocksAccept(b) ==
    CASE b = << >> -> Failed("eof", << >>)
      [] b # << >> /\ b[1] = 4 -> Socks4(Tail(b))
      [] b # << >> /\ b[1] = 5 -> Socks5(Tail(b))
      [] OTHER -> Failed("version", << >>)

(* handle_udp_relay_header: Err ends the relay, None drops the datagram.   *)
HandleUdpRelayHeader(b) ==
    LET a == ReadAddress(From(b, 4)) IN
    IF Len(b) < 4 THEN Failed("Err", << >>)
    ELSE IF b[3] # 0 THEN Failed("None", << >>)
    ELSE IF a.err = "eof" THEN Failed("Err", << >>)
    ELSE IF a.err = "type" THEN Failed("None", << >>)
    ELSE Request(0, a.host, a.port, a.rest, << >>)

(* send_udp_relay_response: the address type comes after the address.      *)
SendUdpRelayResponse(host, port, data) ==
    <<0, 0, 0>> \o host[2] \o <<IF host[1] = "ipv4" THEN 1 ELSE 4>> \o PutU16(port) \o data

-----------------------------------------------------------------------------
(* The reference: RFC 1928 and SOCKS4(a), from the application's side. *)

RfcAddress(host, port) ==
    (CASE host[1] = "ipv4" -> <<1>>
       [] host[1] = "ipv6" -> <<4>>
       [] host[1] = "name" -> <<3, Len(host[2])>>) \o host[2] \o PutU16(port)

Rfc1928(q) == <<5, Len(q.methods)>> \o q.methods \o <<5, q.command, 0>> \o RfcAddress(q.host, q.port)

RfcUdp(q) == <<0, 0, q.frag>> \o RfcAddress(q.host, q.port)

Socks4a(q) ==
    <<4, q.command>> \o PutU16(q.port)
        \o (IF q.host[1] = "ipv4" THEN q.host[2] ELSE <<0, 0, 0, 1>>)
        \o q.user \o <<0>>
        \o (IF q.host[1] = "ipv4" THEN << >> ELSE Append(q.host[2], 0))
=============================================================================
