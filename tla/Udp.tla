-------------------------------- MODULE Udp --------------------------------
(***************************************************************************)
(* A datagram's way from a local application to its target and back: the   *)
(* handlers and the two maps of the client, the client's loop, the loop of *)
(* the server with its map of forwarders, and the forwarders.              *)
(*                                                                         *)
(* A client is a local address together with the socket it sends to, the   *)
(* key of client_addr_map; "stdio" is standard input.  A datagram on its   *)
(* way is <<flow id, the client that caused it>>.  Time is a flag: an      *)
(* entry expires at any moment, and a forwarder times out at any moment.   *)
(* The multiplexor between the loops is a bounded queue that loses what    *)
(* does not fit (Mux has its frames); a lost connection loses all of it.   *)
(***************************************************************************)
EXTENDS Naturals, Sequences, FiniteSets

CONSTANTS
    Clients,   \* local clients other than "stdio"
    SocksUdp,  \* those of a SOCKS association, served by udp_relay
    Ids,       \* flow ids that next_available_key may return
    QCap,      \* INCOMING_DATAGRAM_BUFFER_SIZE, datagram_buffer_size
    Scenarios  \* [users, ids, again]: who may send, which ids may be drawn, and how many
               \* of them may be in `reused`; one is chosen for each behaviour

Everyone == Clients \cup {"stdio"}
NoId == 0
NoEntry == [client |-> "none", socks5 |-> FALSE, expired |-> FALSE]

ASSUME UdpAssumption ==
    /\ SocksUdp \subseteq Clients /\ "stdio" \notin Clients /\ "none" \notin Clients
    /\ Scenarios \subseteq [users : SUBSET Everyone, ids : SUBSET Ids, again : Nat]
    /\ 0 \notin Ids /\ QCap \in Nat \ {0}

VARIABLES
    sc,        \* the scenario
    handler,   \* [Everyone -> [st, id]]: receiving, or sending to the client's loop
    id_map,    \* client_id_map: [Ids -> NoEntry or [client, socks5, expired]]
    addr_map,  \* client_addr_map: [Clients -> NoId or an id]
    dgm,       \* datagram channel of the client
    conn,      \* "up", "dead" (the mux has ended unnoticed), "down" (connecting)
    up,        \* datagrams in the server's multiplexor
    down,      \* datagrams in the client's multiplexor
    udp_clients, \* ids in the map of the server's loop
    fwd,       \* [Ids and 0 -> the udp_forward_on task of the id]
    back,      \* datagram channel of the server
    reused,    \* history: ids that were drawn while something still remembered them
    astray,    \* history: ids of which, since they were drawn, a reply went to another
               \* client or in the wrong form
    lost       \* history: [Ids and 0 -> datagrams lost in a row to an ended forwarder]

clientVars == <<handler, id_map, addr_map, dgm>>
serverVars == <<udp_clients, fwd, back>>
idVars == <<reused, astray>>
vars == <<sc, clientVars, conn, up, down, serverVars, idVars, lost>>

AllIds == Ids \cup {0}

(* rx is its datagram channel, behind the first datagram in "start"; seen  *)
(* are the clients whose datagrams the target has got through its socket.  *)
NoFwd == [st |-> "ended", rx |-> << >>, seen |-> {}]

Init ==
    /\ sc \in Scenarios
    /\ handler = [c \in Everyone |-> [st |-> "recv", id |-> 0]]
    /\ id_map = [i \in Ids |-> NoEntry] /\ addr_map = [c \in Clients |-> NoId]
    /\ dgm = << >> /\ conn = "up" /\ up = << >> /\ down = << >>
    /\ udp_clients = {} /\ fwd = [i \in AllIds |-> NoFwd] /\ back = << >>
    /\ reused = {} /\ astray = {} /\ lost = [i \in AllIds |-> 0]

(* try_send of a bounded channel: what does not fit is lost. *)
TrySend(q, d) == IF Len(q) < QCap THEN Append(q, d) ELSE q

Entry(c) == [client |-> c, socks5 |-> c \in SocksUdp, expired |-> FALSE]

Holds(q, i) == \E k \in 1..Len(q) : q[k][1] = i

(* A handler, a queue or a forwarder still has to do with the id: nothing  *)
(* tells them that its entry was pruned.                                   *)
Remembered(i) ==
    \/ fwd[i].st # "ended"
    \/ Holds(dgm, i) \/ Holds(up, i) \/ Holds(back, i) \/ Holds(down, i)
    \/ \E c \in Clients : handler[c].st = "send" /\ handler[c].id = i

(* Any id that client_id_map does not have. *)
next_available_key(i) == id_map[i] = NoEntry

-----------------------------------------------------------------------------
(* The client. *)

(* The id is drawn for a new entry. *)
Draw(i) ==
    /\ next_available_key(i)
    /\ i \in sc.ids /\ (Remembered(i) => Cardinality(reused \cup {i}) <= sc.again)
    /\ reused' = IF Remembered(i) THEN reused \cup {i} ELSE reused \ {i}
    /\ astray' = astray \ {i}

(* A known client gets the entry of whoever comes first. *)
AddUdpClientShared(c) ==
    \E i \in Ids :
        /\ IF \E d \in Clients : addr_map[d] # NoId
             THEN (\E d \in Clients : addr_map[d] = i) /\ UNCHANGED idVars
             ELSE Draw(i)
        /\ id_map' = [id_map EXCEPT ![i] = IF id_map[i] = NoEntry THEN Entry(c) ELSE @]
        /\ addr_map' = [addr_map EXCEPT ![c] = i]
        /\ handler' = [handler EXCEPT ![c] = [st |-> "send", id |-> i]]

(* add_udp_client: refresh a known client, or enter it in both maps. *)
AddUdpClient(c) ==
    \E i \in Ids :
        /\ IF addr_map[c] = NoId THEN Draw(i) ELSE i = addr_map[c] /\ UNCHANGED idVars
        /\ id_map' = [id_map EXCEPT ![i] = Entry(c)]
        /\ addr_map' = [addr_map EXCEPT ![c] = i]
        /\ handler' = [handler EXCEPT ![c] = [st |-> "send", id |-> i]]

(* handle_udp and udp_relay receive a datagram and enter the client ... *)
HandleUdp(c) ==
    /\ c \in sc.users /\ handler[c].st = "recv"
    /\ AddUdpClient(c)
    /\ UNCHANGED <<sc, dgm, conn, up, down, serverVars, lost>>

(* ... handle_udp_stdio reads a line, whose id is 0 ... *)
HandleUdpStdio ==
    /\ "stdio" \in sc.users /\ handler["stdio"].st = "recv"
    /\ handler' = [handler EXCEPT !["stdio"] = [st |-> "send", id |-> 0]]
    /\ UNCHANGED <<sc, id_map, addr_map, dgm, conn, up, down, serverVars, idVars, lost>>

(* ... and all of them wait for a place in the channel. *)
SendToLoop(c) ==
    /\ handler[c].st = "send"
    /\ Len(dgm) < QCap
    /\ dgm' = Append(dgm, <<handler[c].id, c>>)
    /\ handler' = [handler EXCEPT ![c] = [st |-> "recv", id |-> 0]]
    /\ UNCHANGED <<sc, id_map, addr_map, conn, up, down, serverVars, idVars, lost>>

(* handle_udp_relay_header fails, and the relay ends with the association  *)
(* still open.                                                             *)
RelayEnds(c) ==
    /\ c \in SocksUdp /\ handler[c].st = "recv"
    /\ handler' = [handler EXCEPT ![c].st = "ended"]
    /\ UNCHANGED <<sc, id_map, addr_map, dgm, conn, up, down, serverVars, idVars, lost>>

(* UDP_PRUNE_TIMEOUT has passed since the last datagram of the client. *)
Expire(i) ==
    /\ id_map[i] # NoEntry /\ ~id_map[i].expired
    /\ id_map' = [id_map EXCEPT ![i].expired = TRUE]
    /\ UNCHANGED <<sc, handler, addr_map, dgm, conn, up, down, serverVars, idVars, lost>>

Expired == {i \in Ids : id_map[i] # NoEntry /\ id_map[i].expired}

(* Pruning that leaves client_addr_map alone. *)
PruneIdsOnly ==
    /\ Expired # {}
    /\ id_map' = [i \in Ids |-> IF i \in Expired THEN NoEntry ELSE id_map[i]]
    /\ UNCHANGED <<sc, handler, addr_map, dgm, conn, up, down, serverVars, idVars, lost>>

(* prune_client_id_map_task and prune_udp_clients *)
PruneUdpClients ==
    /\ Expired # {}
    /\ id_map' = [i \in Ids |-> IF i \in Expired THEN NoEntry ELSE id_map[i]]
    /\ addr_map' = [c \in Clients |->
                      IF \E i \in Expired : id_map[i].client = c THEN NoId ELSE addr_map[c]]
    /\ UNCHANGED <<sc, handler, dgm, conn, up, down, serverVars, idVars, lost>>

(* on_connected, datagram_rx.recv(): an error of send_datagram is logged. *)
TakeDatagram ==
    /\ conn # "down"
    /\ dgm # << >>
    /\ dgm' = Tail(dgm)
    /\ up' = IF conn = "up" THEN TrySend(up, Head(dgm)) ELSE up
    /\ UNCHANGED <<sc, handler, id_map, addr_map, conn, down, serverVars, idVars, lost>>

(* on_connected, get_datagram and send_datagram_reply. *)
SendDatagramReply ==
    /\ conn = "up"
    /\ down # << >>
    /\ down' = Tail(down)
    /\ LET i == Head(down)[1]
           origin == Head(down)[2]
           Misdelivered(to, socks5) == to # origin \/ (socks5 <=> origin \notin SocksUdp)
       IN  astray' = IF \/ i = 0 /\ Misdelivered("stdio", FALSE)
                        \/ i # 0 /\ id_map[i] # NoEntry
                           /\ Misdelivered(id_map[i].client, id_map[i].socks5)
                       THEN astray \cup {i} ELSE astray
    /\ UNCHANGED <<sc, clientVars, conn, up, serverVars, reused, lost>>

(* The connection is lost, with an error or without.  What is on it is     *)
(* lost, and the next one has a new loop at the server: nothing that the   *)
(* old one still runs reaches the client.                                  *)
ConnectionLost ==
    /\ conn = "up"
    /\ conn' \in {"dead", "down"}
    /\ up' = << >> /\ down' = << >> /\ back' = << >>
    /\ udp_clients' = {} /\ fwd' = [i \in AllIds |-> NoFwd] /\ lost' = [i \in AllIds |-> 0]
    /\ UNCHANGED <<sc, clientVars, idVars>>

(* A stream request finds the mux dead (Client), and the client connects. *)
Reconnect ==
    /\ conn # "up"
    /\ conn' = IF conn = "dead" THEN "down" ELSE "up"
    /\ UNCHANGED <<sc, clientVars, up, down, serverVars, idVars, lost>>

-----------------------------------------------------------------------------
(* The server. *)

(* A forwarder that has ended keeps its place in the map. *)
ServerGetStale ==
    /\ up # << >>
    /\ up' = Tail(up)
    /\ LET i == Head(up)[1] IN
         IF i \in udp_clients
           THEN /\ fwd' = IF fwd[i].st = "ended" THEN fwd
                          ELSE [fwd EXCEPT ![i].rx = TrySend(@, Head(up))]
                /\ lost' = [lost EXCEPT ![i] = IF fwd[i].st = "ended" /\ @ < 2 THEN @ + 1 ELSE @]
                /\ UNCHANGED udp_clients
           ELSE /\ udp_clients' = udp_clients \cup {i}
                /\ fwd' = [fwd EXCEPT ![i] = [NoFwd EXCEPT !.st = "start", !.rx = <<Head(up)>>]]
                /\ lost' = [lost EXCEPT ![i] = 0]
    /\ UNCHANGED <<sc, clientVars, conn, down, back, idVars>>

(* handle_websocket, get_datagram: to the forwarder of the id, to a new    *)
(* one, or lost together with the entry of one that has ended.             *)
ServerGet ==
    /\ up # << >>
    /\ up' = Tail(up)
    /\ LET i == Head(up)[1] IN
         \/ /\ i \in udp_clients /\ fwd[i].st = "start"
            /\ fwd' = [fwd EXCEPT ![i].rx = <<Head(@)>> \o TrySend(Tail(@), Head(up))]
            /\ UNCHANGED <<udp_clients, lost>>
         \/ /\ i \in udp_clients /\ fwd[i].st = "run"
            /\ fwd' = [fwd EXCEPT ![i].rx = TrySend(@, Head(up))]
            /\ UNCHANGED <<udp_clients, lost>>
         \/ /\ i \in udp_clients /\ fwd[i].st = "ended"
            /\ udp_clients' = udp_clients \ {i}
            /\ lost' = [lost EXCEPT ![i] = @ + 1]
            /\ UNCHANGED fwd
         \/ /\ i \notin udp_clients
            /\ udp_clients' = udp_clients \cup {i}
            /\ fwd' = [fwd EXCEPT ![i] = [NoFwd EXCEPT !.st = "start", !.rx = <<Head(up)>>]]
            /\ lost' = [lost EXCEPT ![i] = 0]
    /\ UNCHANGED <<sc, clientVars, conn, down, back, idVars>>

(* udp_forward_on sends to the target: the first datagram after            *)
(* bind_for_target, then each one of its channel.                          *)
ForwardOn(i) ==
    /\ fwd[i].st \in {"start", "run"} /\ fwd[i].rx # << >>
    /\ fwd' = [fwd EXCEPT ![i] = [st |-> "run", rx |-> Tail(@.rx),
                                  seen |-> @.seen \cup {Head(@.rx)[2]}]]
    /\ UNCHANGED <<sc, clientVars, conn, up, down, udp_clients, back, idVars, lost>>

(* An error of from_utf8, bind_for_target or send_to, or the timeout, ends *)
(* the forwarder with all it holds.                                        *)
ForwardEnds(i) ==
    /\ fwd[i].st # "ended"
    /\ fwd' = [fwd EXCEPT ![i] = NoFwd]
    /\ UNCHANGED <<sc, clientVars, conn, up, down, udp_clients, back, idVars, lost>>

(* udp_forward_on, recv_from: the target answers what it has seen, once or *)
(* more often, now or later; the reply gets the id of the forwarder.       *)
ForwardReply(i) ==
    /\ fwd[i].st = "run"
    /\ \E c \in fwd[i].seen : back' = TrySend(back, <<i, c>>)
    /\ UNCHANGED <<sc, clientVars, conn, up, down, udp_clients, fwd, idVars, lost>>

(* handle_websocket, datagram_send_rx.recv() *)
ServerSend ==
    /\ back # << >>
    /\ back' = Tail(back)
    /\ down' = TrySend(down, Head(back))
    /\ UNCHANGED <<sc, clientVars, conn, up, udp_clients, fwd, idVars, lost>>

-----------------------------------------------------------------------------

Next ==
    \/ \E c \in Clients : HandleUdp(c) \/ RelayEnds(c)
    \/ \E c \in Everyone : SendToLoop(c)
    \/ HandleUdpStdio
    \/ \E i \in Ids : Expire(i)
    \/ PruneUdpClients \/ TakeDatagram \/ SendDatagramReply \/ ConnectionLost \/ Reconnect
    \/ ServerGet \/ ServerSend
    \/ \E i \in AllIds : ForwardOn(i) \/ ForwardEnds(i) \/ ForwardReply(i)

Spec == Init /\ [][Next]_vars

-----------------------------------------------------------------------------

(* The two maps of the client are inverse to each other, so neither        *)
(* `expect` in add_udp_client and prune_udp_clients can fail               *)
(* (client/mod.rs:124 and 153, "are inconsistent (this is a bug)").        *)
MapsInverse ==
    /\ \A c \in Clients : addr_map[c] # NoId =>
         /\ id_map[addr_map[c]] # NoEntry
         /\ id_map[addr_map[c]].client = c
    /\ \A i \in Ids : id_map[i] # NoEntry => addr_map[id_map[i].client] = i

(* A reply reaches the client whose datagram the target answered, or       *)
(* nobody, and is wrapped in a SOCKS header exactly for SOCKS clients:     *)
(* through expiry, pruning, new entries, forwarders that end and start,    *)
(* and reconnections.  The one way to a wrong client is an id that was     *)
(* drawn again while a forwarder, a queue or a handler remembered it: a    *)
(* forwarder that its target keeps busy outlives the entry, and            *)
(* next_available_key looks at client_id_map only (mux/lib.rs:539).        *)
RepliesGoHome == astray \subseteq reused

(* A forwarder that has ended costs at most one datagram, the one that     *)
(* finds its channel closed: the next one starts a new forwarder           *)
(* (websocket.rs:59-61, "hopefully the client will try again").            *)
OneLossPerForwarder == \A i \in AllIds : lost[i] <= 1

=============================================================================
