------------------------------- MODULE Codecs -------------------------------
(***************************************************************************)
(* The pure functions at the borders of the program, each run on a set of  *)
(* inputs: a state holds one input and, after the step, the output.        *)
(***************************************************************************)
EXTENDS FrameCodec, ParseRemote, SocksWire, HttpService

CONSTANTS
    Ids, Nums, Ports,   \* numbers in frames and requests
    Hosts, Payloads,    \* sequences of octets
    Tokens,             \* parts of a remote, sequences of lexemes
    Methods,            \* what a SOCKS5 application offers
    SocksHosts,         \* what it asks for, <<kind, octets>>
    Users, Rests,       \* the user of a SOCKS4 request, what follows a request
    Psks                \* PSKs, with Absent

Octet == {n \in Nat : n < 256}

(* What u32, u16 and Bytes can hold (2^32 is beyond TLC). *)
ASSUME FrameAssumption ==
    /\ Ids \cup Nums \subseteq Nat /\ \A n \in Ids \cup Nums : n \div 65536 < 65536
    /\ Ports \subseteq Nat /\ \A p \in Ports : p < 65536
    /\ Hosts \cup Payloads \subseteq Seq(Octet)

(* What the fields of a SOCKS request can hold. *)
ASSUME SocksAssumption ==
    /\ Methods \cup Users \cup Rests \subseteq Seq(Octet) /\ \A m \in Methods : Len(m) < 256
    /\ SocksHosts \subseteq {"ipv4", "ipv6", "name"} \X Seq(Octet)
    /\ \A h \in SocksHosts : CASE h[1] = "ipv4" -> Len(h[2]) = 4
                            [] h[1] = "ipv6" -> Len(h[2]) = 16
                            [] h[1] = "name" -> Len(h[2]) < 256

VARIABLES kind, in, out

vars == <<kind, in, out>>

Nothing == << >>

Frames ==
    {Reset(id) : id \in Ids} \cup {Finish(id) : id \in Ids}
    \cup {Acknowledge(id, n) : id \in Ids, n \in Nums}
    \cup {Connect(h, p, id, n) : h \in Hosts, p \in Ports, id \in Ids, n \in Nums}
    \cup {Push(id, d) : id \in Ids, d \in Payloads}
    \cup {Bind(id, b, h, p) : id \in Ids, b \in {"Stream", "Datagram"}, h \in Hosts, p \in Ports}
    \cup {Datagram(id, h, p, d) : id \in Ids, h \in Hosts, p \in Ports, d \in Payloads}

Short == {f \in Frames : Len(f.host) <= 2}

(* Versions 6 and 7 with every opcode and one more. *)
FirstOctets == (96..103) \cup (112..119)

(* Encodings that lost their end, carry more, or have another first octet. *)
Mangled(b) ==
    {SubSeq(b, 1, k) : k \in 0..Len(b)} \cup {b \o <<9, 9>>}
    \cup {<<x>> \o Tail(b) : x \in FirstOctets}

Joined(t) ==
    LET first[n \in 1..Len(t)] == IF n = 1 THEN t[1] ELSE first[n - 1] \o <<":">> \o t[n]
    IN  first[Len(t)]

(* SOCKS4 has no IPv6, an address that begins with 0 announces a name, and *)
(* strings end with a 0.                                                   *)
Socks4Hosts ==
    {h \in SocksHosts : (h[1] = "ipv4" /\ h[2][1] # 0) \/ (h[1] = "name" /\ 0 \notin Range(h[2]))}
Socks4Users == {u \in Users : 0 \notin Range(u)}

(* A request, the octets after it, and how many of all octets arrive. *)
Cuts(b) == 0..Len(b)

Changed(h) ==
    {h} \cup {[h EXCEPT ![n] = v] : n \in Names, v \in {Absent, "other"}}
    \cup {[h EXCEPT !["upgrade"] = "WebSocket"], [h EXCEPT !["sec-websocket-protocol"] = "Penguin-V7"]}

Requests ==
    [path : {"/ws", "/health", "/version", "/other"}, method : {"GET", "POST"},
     on_upgrade : BOOLEAN,
     headers : UNION {Changed(HandshakeHeaders(k, Absent, c)) :
                        k \in Psks, c \in {Nothing} \cup {<<<<"x-penguin-psk", q>>>> : q \in Psks}}]

Init ==
    /\ out = Nothing
    /\ \/ kind = "frame" /\ in \in Frames
       \/ kind = "bytes" /\ \E f \in Short : in \in Mangled(Encode(f))
       \/ /\ kind = "remote"
          /\ \E n \in 1..4 : \E t \in [1..n -> Tokens] :
               in \in {Joined(t), Joined(t) \o <<"/", "UDP">>, Joined(t) \o <<"/", "x">>}
       \/ /\ kind = "socks5"
          /\ \E q \in [methods : Methods, command : 1..3, host : SocksHosts, port : Ports],
                p \in Rests :
               \E k \in Cuts(Rfc1928(q) \o p) : in = [q |-> q, p |-> p, k |-> k]
       \/ /\ kind = "socks4"
          /\ in \in [q : [command : {1, 2}, port : Ports, user : Socks4Users, host : Socks4Hosts], p : Rests]
       \/ /\ kind = "udp"
          /\ \E q \in [frag : {0, 1}, host : SocksHosts, port : Ports], p \in Rests :
               \E k \in Cuts(RfcUdp(q) \o p) : in = [q |-> q, p |-> p, k |-> k]
       \/ /\ kind = "http"
          /\ in \in [state : [backend : BOOLEAN, ws_psk : Psks, obfs : BOOLEAN],
                     req : Requests, backendAnswers : BOOLEAN]

Run(k, result) == kind = k /\ out = Nothing /\ out' = result /\ UNCHANGED <<kind, in>>

RunFrame == Run("frame", <<Encode(in), Decode(Encode(in))>>)
RunBytes == Run("bytes", <<Decode(in), FinalizedOpcode(in)>>)
RunRemote == Run("remote", <<FromStr(in)>>)
RunSocks5 == Run("socks5", <<OnSocksAccept(SubSeq(Rfc1928(in.q) \o in.p, 1, in.k))>>)
RunSocks4 == Run("socks4", <<OnSocksAccept(Socks4a(in.q) \o in.p)>>)
RunUdp == Run("udp", <<HandleUdpRelayHeader(SubSeq(RfcUdp(in.q) \o in.p, 1, in.k))>>)
RunHttp == Run("http", <<Call(in.state, in.req, in.backendAnswers),
                         Call(in.state, [in.req EXCEPT !.path = "/other"], in.backendAnswers)>>)

Next ==
    \/ RunFrame \/ RunBytes \/ RunRemote \/ RunSocks5 \/ RunSocks4 \/ RunUdp \/ RunHttp

Spec == Init /\ [][Next]_vars

Has(k) == kind = k /\ out # Nothing

-----------------------------------------------------------------------------

(* What the encoder writes, the decoder reads, for every frame except a    *)
(* Datagram with fewer than four octets of data: the check at frame.rs:488 *)
(* asks for four octets too many, so the peer's task ends with             *)
(* FrameTooShort.  The encoder panics only for a host of more than 255     *)
(* octets in a Datagram, and Payload::len is the exact size.               *)
FrameRoundTrip ==
    Has("frame") =>
        IF in.op = "Datagram" /\ Len(in.host) > 255 THEN out[1] = Panic
        ELSE /\ Len(out[1]) = 5 + PayloadLen(in)
             /\ out[2] = IF in.op = "Datagram" /\ Len(in.data) < 4
                           THEN Err("FrameTooShort") ELSE Ok(in)

(* A frame that can be encoded is decoded again, as the tests of frame.rs  *)
(* assert for one frame of each kind ("assert_eq!(frame, frame_back)").    *)
EveryFrameDecodes == Has("frame") /\ out[1] # Panic => out[2] = Ok(in)

(* Whatever arrives, a frame that decodes stands for exactly the octets    *)
(* that arrived; only opcodes without a variable part ignore what follows. *)
DecodeCanonical ==
    Has("bytes") /\ out[1].err = "none" =>
        LET f == out[1].frame IN
        /\ StartsWith(in, Encode(f))
        /\ f.op \notin {"Acknowledge", "Reset", "Finish"} => Encode(f) = in
        /\ out[2] = f.op

(* A remote is parsed from what Display prints for it, as the test at      *)
(* parse_remote.rs:428 has it.  The exceptions are hosts that were given   *)
(* in brackets without need: "[stdio]" before socks, and a "[" in a name.  *)
RemoteRoundTrip ==
    Has("remote") /\ out[1].err = "none" =>
        LET r == out[1].remote
            odd(a) == a.kind = "inet" /\ a.host # Nothing /\ Head(a.host) = "["
                        /\ ":" \notin Range(a.host)
        IN  \/ FromStr(Display(r)) = out[1]
            \/ r.local.kind = "inet" /\ r.local.host = <<"stdio">> /\ r.remote = Socks
            \/ odd(r.local) \/ odd(r.remote)

(* The SOCKS server takes from a request exactly the command, host and     *)
(* port the application put in, and leaves what follows for the copy; a    *)
(* SOCKS5 request or relay header that is cut short never counts as one,   *)
(* and is never answered with more than the method.                        *)
SocksExact ==
    LET q == in.q  o == out[1] IN
    /\ Has("socks5") =>
         LET whole == in.k >= Len(Rfc1928(q)) IN
         /\ (o.err = "none") <=> (whole /\ q.command # 2 /\ 0 \in Range(q.methods))
         /\ o.err = "none" =>
              /\ <<o.command, o.host, o.port>> = <<q.command, q.host, q.port>>
              /\ o.rest = SubSeq(in.p, 1, in.k - Len(Rfc1928(q)))
         /\ ~whole => Len(o.replies) <= 1
    /\ Has("socks4") =>
         /\ (o.err = "none") <=> (q.command = 1)
         /\ o.err = "none" => <<o.host, o.port, o.rest>> = <<q.host, q.port, in.p>>
    /\ Has("udp") =>
         LET whole == in.k >= Len(RfcUdp(q)) IN
         /\ (o.err = "none") <=> (whole /\ q.frag = 0)
         /\ o.err = "none" =>
              <<o.host, o.port, o.rest>> = <<q.host, q.port, SubSeq(in.p, 1, in.k - Len(RfcUdp(q)))>>

(* The upgrade happens for the request the client makes, with the right    *)
(* PSK, and for nothing else than /ws; a request for /ws that is refused   *)
(* gets the same answer as one for an unknown path.                        *)
UpgradeExact ==
    Has("http") =>
        LET h == in.req.headers
            right == in.state.ws_psk \in {Absent, h["x-penguin-psk"]}
            client == HandshakeHeaders(h["x-penguin-psk"], h["host"], Nothing)
            ok == out[1].status = 101
        IN  /\ ok => in.req.path = "/ws" /\ right
            /\ in.req.path = "/ws" /\ ~ok => out[1] = out[2]
            /\ in.req.path = "/ws" /\ in.req.method = "GET" /\ in.req.on_upgrade /\ h = client =>
                 (ok <=> right)
=============================================================================
