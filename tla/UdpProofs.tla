----------------------------- MODULE UdpProofs -----------------------------
(***************************************************************************)
(* Datagrams go home for any number of clients, flow ids and places in the *)
(* queues.  MapsInverse is inductive with its types.  RepliesGoHome is     *)
(* not: what must be known is that whatever is on its way for an id, in a  *)
(* handler, a queue or a forwarder, comes from the client that has the id, *)
(* unless the id was drawn while something remembered it.                  *)
(***************************************************************************)
EXTENDS Udp, SequenceTheorems, TLAPS

Datagram == AllIds \X Everyone
Forwarder == [st : {"start", "run", "ended"}, rx : Seq(Datagram), seen : SUBSET Everyone]

TypeOK ==
    /\ sc \in Scenarios
    /\ handler \in [Everyone -> [st : {"recv", "send", "ended"}, id : AllIds]]
    /\ id_map \in [Ids -> {NoEntry} \cup [client : Clients, socks5 : BOOLEAN, expired : BOOLEAN]]
    /\ addr_map \in [Clients -> AllIds]
    /\ dgm \in Seq(Datagram) /\ up \in Seq(Datagram)
    /\ down \in Seq(Datagram) /\ back \in Seq(Datagram)
    /\ udp_clients \subseteq AllIds
    /\ fwd \in [AllIds -> Forwarder]
    /\ reused \subseteq Ids /\ astray \subseteq AllIds
    /\ lost \in [AllIds -> Nat]

Items(q) == {q[k] : k \in 1..Len(q)}

(* A datagram or a reply that is somewhere between the handlers, the       *)
(* loops, the forwarders and the target.                                   *)
OnItsWay(d) ==
    \/ d \in Items(dgm) \/ d \in Items(up) \/ d \in Items(back) \/ d \in Items(down)
    \/ \E c \in Everyone : handler[c].st = "send" /\ d = <<handler[c].id, c>>
    \/ \E i \in AllIds : d \in Items(fwd[i].rx)
    \/ \E i \in AllIds : \E c \in fwd[i].seen : d = <<i, c>>

(* It comes from the client that has its id, or nobody has the id, or the  *)
(* id was drawn too early.                                                 *)
Home(d) ==
    IF d[1] = 0 THEN d[2] = "stdio"
    ELSE /\ d[2] \in Clients
         /\ id_map[d[1]] # NoEntry /\ d[1] \notin reused => id_map[d[1]].client = d[2]

WayHome == \A d \in Datagram : OnItsWay(d) => Home(d)

(* The flag of an entry is that of its client. *)
FlagRight == \A i \in Ids : id_map[i] # NoEntry => (id_map[i].socks5 <=> id_map[i].client \in SocksUdp)

(* A forwarder holds datagrams of its id, the first one until it runs, and *)
(* nothing once it has ended.                                              *)
ForwarderOwn ==
    \A i \in AllIds :
        /\ fwd[i].st = "ended" => fwd[i] = NoFwd
        /\ fwd[i].st = "start" => fwd[i].rx # << >>
        /\ \A d \in Items(fwd[i].rx) : d[1] = i

(* A forwarder that cost a datagram is no longer in the map. *)
LossRemoves == \A i \in AllIds : lost[i] <= 1 /\ (i \in udp_clients => lost[i] = 0)

IInv == TypeOK /\ MapsInverse /\ FlagRight /\ ForwarderOwn /\ WayHome /\ RepliesGoHome /\ LossRemoves

-----------------------------------------------------------------------------
(* Queues. *)

(* What recv() takes out of a channel was in it, and so is the rest. *)
LEMMA ItemsTail ==
    ASSUME NEW D, NEW q \in Seq(D), q # << >>
    PROVE  /\ Head(q) \in D /\ Tail(q) \in Seq(D)
           /\ Head(q) \in Items(q) /\ Items(Tail(q)) \subseteq Items(q)
<1>1. Len(q) \in Nat \ {0} /\ Head(q) = q[1] /\ Head(q) \in D
  BY EmptySeq, HeadTailProperties
<1>2. Tail(q) \in Seq(D) /\ Len(Tail(q)) = Len(q) - 1 /\ \A i \in 1..Len(Tail(q)) : Tail(q)[i] = q[i + 1]
  BY HeadTailProperties
<1>3. Items(Tail(q)) \subseteq Items(q)
  <2> SUFFICES ASSUME NEW k \in 1..Len(Tail(q)) PROVE Tail(q)[k] \in Items(q)
    BY DEF Items
  <2>1. k + 1 \in 1..Len(q) /\ Tail(q)[k] = q[k + 1]
    BY <1>1, <1>2
  <2> QED
    BY <2>1 DEF Items
<1>4. Head(q) \in Items(q)
  BY <1>1 DEF Items
<1> QED
  BY <1>1, <1>2, <1>3, <1>4

(* try_send and send add at most the datagram they are given. *)
LEMMA ItemsAppend ==
    ASSUME NEW D, NEW q \in Seq(D), NEW d \in D
    PROVE  Append(q, d) \in Seq(D) /\ Items(Append(q, d)) \subseteq Items(q) \cup {d}
<1>1. /\ Append(q, d) \in Seq(D) /\ Len(q) \in Nat /\ Len(Append(q, d)) = Len(q) + 1
      /\ \A i \in 1..Len(q) : Append(q, d)[i] = q[i]
      /\ Append(q, d)[Len(q) + 1] = d
  BY AppendProperties, LenProperties
<1>2. ASSUME NEW k \in 1..Len(Append(q, d)) PROVE Append(q, d)[k] \in Items(q) \cup {d}
  <2>1. k \in 1..Len(q) \/ k = Len(q) + 1
    BY <1>1
  <2> QED
    BY <1>1, <2>1 DEF Items
<1> QED
  BY <1>1, <1>2 DEF Items

LEMMA ItemsTrySend ==
    ASSUME NEW D, NEW q \in Seq(D), NEW d \in D
    PROVE  TrySend(q, d) \in Seq(D) /\ Items(TrySend(q, d)) \subseteq Items(q) \cup {d}
BY ItemsAppend DEF TrySend

LEMMA ItemsEmpty == ASSUME NEW D PROVE << >> \in Seq(D) /\ Items(<< >>) = {}
BY DEF Items

(* The first datagram of a forwarder stays in front of its channel. *)
LEMMA ItemsBehindFirst ==
    ASSUME NEW D, NEW q \in Seq(D), q # << >>, NEW d \in D
    PROVE  LET s == <<Head(q)>> \o TrySend(Tail(q), d) IN
           s \in Seq(D) /\ s # << >> /\ Items(s) \subseteq Items(q) \cup {d}
<1> DEFINE t == TrySend(Tail(q), d)
           s == <<Head(q)>> \o t
<1>1. Head(q) \in D /\ Tail(q) \in Seq(D) /\ Head(q) \in Items(q) /\ Items(Tail(q)) \subseteq Items(q)
  BY ItemsTail
<1>2. t \in Seq(D) /\ Items(t) \subseteq Items(Tail(q)) \cup {d}
  BY <1>1, ItemsTrySend, ZenonT(30)
<1> HIDE DEF t
<1>3. /\ <<Head(q)>> \in Seq(D) /\ Len(<<Head(q)>>) = 1 /\ <<Head(q)>>[1] = Head(q)
      /\ Len(t) \in Nat
  BY <1>1, <1>2, LenProperties
<1>4. /\ s \in Seq(D) /\ Len(s) = 1 + Len(t)
      /\ \A i \in 1..(1 + Len(t)) : s[i] = IF i <= 1 THEN <<Head(q)>>[i] ELSE t[i - 1]
  BY <1>2, <1>3, ConcatProperties
<1>5. ASSUME NEW k \in 1..Len(s) PROVE s[k] \in Items(q) \cup {d}
  <2>1. CASE k = 1
    BY <2>1, <1>1, <1>3, <1>4
  <2>2. CASE k # 1
    <3>1. k - 1 \in 1..Len(t) /\ s[k] = t[k - 1]
      BY <2>2, <1>3, <1>4
    <3> QED
      BY <3>1, <1>1, <1>2, ZenonT(30) DEF Items
  <2> QED
    BY <2>1, <2>2
<1>6. Items(s) \subseteq Items(q) \cup {d}
  BY <1>5, ZenonT(30) DEF Items
<1>7. s # << >>
  BY <1>4, <1>3, EmptySeq
<1> QED
  BY <1>4, <1>6, <1>7 DEF t

-----------------------------------------------------------------------------
(* Entries and forwarders. *)

(* What add_udp_client enters has the type of an entry. *)
LEMMA EntryType ==
    ASSUME NEW c \in Clients
    PROVE  /\ Entry(c) \in [client : Clients, socks5 : BOOLEAN, expired : BOOLEAN]
           /\ Entry(c).client = c /\ Entry(c) # NoEntry
           /\ Entry(c).socks5 <=> c \in SocksUdp
<1>1. CASE c \in SocksUdp
  <2>1. Entry(c) = [client |-> c, socks5 |-> TRUE, expired |-> FALSE]
    BY <1>1, Zenon DEF Entry
  <2> QED
    BY <1>1, <2>1, UdpAssumption DEF NoEntry
<1>2. CASE c \notin SocksUdp
  <2>0. (c \in SocksUdp) = FALSE
    BY <1>2
  <2>1. Entry(c) = [client |-> c, socks5 |-> FALSE, expired |-> FALSE]
    BY <2>0, Zenon DEF Entry
  <2> QED
    BY <1>2, <2>1, UdpAssumption DEF NoEntry
<1> QED
  BY <1>1, <1>2

(* The task of an id, with its channel, and what happens to it. *)
LEMMA ForwarderType ==
    ASSUME TypeOK, NEW i \in AllIds
    PROVE  /\ fwd[i] \in Forwarder
           /\ fwd[i].rx \in Seq(Datagram) /\ fwd[i].seen \in SUBSET Everyone
<1>1. fwd[i] \in Forwarder
  BY DEF TypeOK
<1> QED
  BY <1>1 DEF Forwarder

LEMMA ForwarderRx ==
    ASSUME NEW f \in Forwarder, NEW r \in Seq(Datagram)
    PROVE  LET g == [f EXCEPT !.rx = r]
           IN  g \in Forwarder /\ g.st = f.st /\ g.rx = r /\ g.seen = f.seen
BY ZenonT(30) DEF Forwarder

LEMMA ForwarderStart ==
    ASSUME NEW r \in Seq(Datagram)
    PROVE  LET g == [NoFwd EXCEPT !.st = "start", !.rx = r]
           IN  g \in Forwarder /\ g.st = "start" /\ g.rx = r /\ g.seen = {}
BY ZenonT(30) DEF Forwarder, NoFwd

(* A task that has ended holds nothing. *)
LEMMA NoForwarder == NoFwd \in Forwarder /\ NoFwd.st = "ended" /\ Items(NoFwd.rx) = {} /\ NoFwd.seen = {}
BY ItemsEmpty DEF Forwarder, NoFwd

(* get_datagram at the server puts the datagram into at most one channel,  *)
(* that of its own id, and the target sees nothing of it yet.              *)
LEMMA ServerGetFwd ==
    ASSUME TypeOK, ForwarderOwn, ServerGet
    PROVE  LET i == Head(up)[1] IN
           /\ Head(up) \in Datagram /\ i \in AllIds
           /\ \E g \in Forwarder :
                /\ fwd' = [fwd EXCEPT ![i] = g]
                /\ g.st = "ended" => g = NoFwd
                /\ g.st = "start" => g.rx # << >>
                /\ Items(g.rx) \subseteq Items(fwd[i].rx) \cup {Head(up)}
                /\ g.seen \subseteq fwd[i].seen
<1> DEFINE i == Head(up)[1]
           Grows(g) == /\ fwd' = [fwd EXCEPT ![i] = g]
                       /\ g.st = "ended" => g = NoFwd
                       /\ g.st = "start" => g.rx # << >>
                       /\ Items(g.rx) \subseteq Items(fwd[i].rx) \cup {Head(up)}
                       /\ g.seen \subseteq fwd[i].seen
<1>1. Head(up) \in Datagram
  BY ItemsTail, ZenonT(30) DEF ServerGet, TypeOK
<1>2. i \in AllIds
  BY <1>1, SMTT(30) DEF Datagram
<1>3. \E g \in Forwarder : Grows(g)
  <2>1. fwd[i] \in Forwarder /\ fwd[i].rx \in Seq(Datagram)
    BY <1>2, ForwarderType
  <2>2. CASE fwd[i].st = "start" /\ fwd' = [fwd EXCEPT ![i].rx = <<Head(@)>> \o TrySend(Tail(@), Head(up))]
    <3> DEFINE r == <<Head(fwd[i].rx)>> \o TrySend(Tail(fwd[i].rx), Head(up))
    <3>1. fwd[i].rx # << >>
      BY <1>2, <2>2, ZenonT(30) DEF ForwarderOwn
    <3>2. r \in Seq(Datagram) /\ r # << >> /\ Items(r) \subseteq Items(fwd[i].rx) \cup {Head(up)}
      BY <1>1, <2>1, <3>1, ItemsBehindFirst
    <3>3. fwd' = [fwd EXCEPT ![i] = [fwd[i] EXCEPT !.rx = r]]
      BY <2>2, ZenonT(30)
    <3> HIDE DEF r
    <3>4. [fwd[i] EXCEPT !.rx = r] \in Forwarder /\ Grows([fwd[i] EXCEPT !.rx = r])
      BY <2>1, <2>2, <3>2, <3>3, ForwarderRx, ZenonT(30)
    <3> QED
      BY <3>4, ZenonT(30)
  <2>3. CASE fwd[i].st = "run" /\ fwd' = [fwd EXCEPT ![i].rx = TrySend(@, Head(up))]
    <3> DEFINE r == TrySend(fwd[i].rx, Head(up))
    <3>1. r \in Seq(Datagram) /\ Items(r) \subseteq Items(fwd[i].rx) \cup {Head(up)}
      BY <1>1, <2>1, ItemsTrySend
    <3>2. fwd' = [fwd EXCEPT ![i] = [fwd[i] EXCEPT !.rx = r]]
      BY <2>3
    <3> HIDE DEF r
    <3>3. [fwd[i] EXCEPT !.rx = r] \in Forwarder /\ Grows([fwd[i] EXCEPT !.rx = r])
      BY <2>1, <2>3, <3>1, <3>2, ForwarderRx, ZenonT(30)
    <3> QED
      BY <3>3, ZenonT(30)
  <2>4. CASE UNCHANGED fwd
    <3>1. Grows(fwd[i])
      BY <1>2, <2>4 DEF TypeOK, ForwarderOwn
    <3> QED
      BY <2>1, <3>1, ZenonT(30)
  <2>5. CASE fwd' = [fwd EXCEPT ![i] = [NoFwd EXCEPT !.st = "start", !.rx = <<Head(up)>>]]
    <3> DEFINE r == <<Head(up)>>
    <3>1. r \in Seq(Datagram) /\ r # << >> /\ Items(r) = {Head(up)}
      BY <1>1 DEF Items
    <3> HIDE DEF r
    <3>2. /\ [NoFwd EXCEPT !.st = "start", !.rx = r] \in Forwarder
          /\ Grows([NoFwd EXCEPT !.st = "start", !.rx = r])
      BY <2>5, <3>1, ForwarderStart, ZenonT(30) DEF r
    <3> QED
      BY <3>2, ZenonT(30)
  <2> QED
    BY <2>2, <2>3, <2>4, <2>5, ZenonT(30) DEF ServerGet
<1> QED
  BY <1>1, <1>2, <1>3, ZenonT(30)

(* udp_forward_on takes the first datagram to the target. *)
LEMMA ForwardOnFwd ==
    ASSUME TypeOK, NEW i \in AllIds, ForwardOn(i)
    PROVE  /\ Head(fwd[i].rx) \in Datagram /\ Head(fwd[i].rx) \in Items(fwd[i].rx)
           /\ \E g \in Forwarder :
                /\ fwd' = [fwd EXCEPT ![i] = g]
                /\ g.st = "run" /\ Items(g.rx) \subseteq Items(fwd[i].rx)
                /\ g.seen = fwd[i].seen \cup {Head(fwd[i].rx)[2]}
<1> DEFINE r == Tail(fwd[i].rx)
           n == fwd[i].seen \cup {Head(fwd[i].rx)[2]}
           g == [st |-> "run", rx |-> r, seen |-> n]
<1>1. /\ Head(fwd[i].rx) \in Datagram /\ Head(fwd[i].rx) \in Items(fwd[i].rx)
      /\ r \in Seq(Datagram) /\ Items(r) \subseteq Items(fwd[i].rx)
  BY ForwarderType, ItemsTail DEF ForwardOn
<1>2. Head(fwd[i].rx)[2] \in Everyone
  BY <1>1 DEF Datagram
<1>3. n \in SUBSET Everyone
  BY <1>2, ForwarderType
<1>4. fwd' = [fwd EXCEPT ![i] = g]
  BY DEF ForwardOn
<1>5. g \in Forwarder /\ g.st = "run" /\ g.rx = r /\ g.seen = n
  <2> HIDE DEF r, n
  <2> QED
    BY <1>1, <1>3 DEF Forwarder
<1> QED
  BY <1>1, <1>4, <1>5, ZenonT(30)

-----------------------------------------------------------------------------
(* The invariant. *)

LEMMA InitIInv == Init => IInv
<1> SUFFICES ASSUME Init PROVE IInv
  OBVIOUS
<1> USE UdpAssumption
<1>0. << >> \in Seq(Datagram) /\ Items(<< >>) = {}
  BY ItemsEmpty
<1>1. TypeOK
  <2>1. sc \in Scenarios /\ reused \subseteq Ids /\ astray \subseteq AllIds
    BY DEF Init
  <2>2. handler \in [Everyone -> [st : {"recv", "send", "ended"}, id : AllIds]]
    BY DEF Init, AllIds
  <2>3. fwd \in [AllIds -> Forwarder]
    BY NoForwarder DEF Init
  <2> QED
    BY <2>1, <2>2, <2>3, <1>0, ZenonT(30) DEF Init, TypeOK, AllIds, NoId
<1>2. MapsInverse /\ FlagRight
  BY DEF Init, MapsInverse, FlagRight, NoId
<1>3. ForwarderOwn
  BY <1>0 DEF Init, ForwarderOwn, NoFwd
<1>4. WayHome
  BY <1>0 DEF Init, WayHome, OnItsWay, NoFwd
<1>5. RepliesGoHome /\ LossRemoves
  BY DEF Init, RepliesGoHome, LossRemoves
<1> QED
  BY <1>1, <1>2, <1>3, <1>4, <1>5 DEF IInv

(* The variables keep their types. *)
LEMMA TypeStep == TypeOK /\ ForwarderOwn /\ [Next]_vars => TypeOK'
<1> SUFFICES ASSUME TypeOK, ForwarderOwn, [Next]_vars PROVE TypeOK'
  OBVIOUS
<1> USE UdpAssumption
<1>1. ASSUME NEW c \in Clients, HandleUdp(c) PROVE TypeOK'
  <2>1. PICK i \in Ids : /\ id_map' = [id_map EXCEPT ![i] = Entry(c)]
                         /\ addr_map' = [addr_map EXCEPT ![c] = i]
                         /\ handler' = [handler EXCEPT ![c] = [st |-> "send", id |-> i]]
    BY <1>1, ZenonT(30) DEF HandleUdp, AddUdpClient
  <2>2. Entry(c) \in [client : Clients, socks5 : BOOLEAN, expired : BOOLEAN]
    BY EntryType
  <2>3. id_map' \in [Ids -> {NoEntry} \cup [client : Clients, socks5 : BOOLEAN, expired : BOOLEAN]]
    BY <2>1, <2>2 DEF TypeOK
  <2>4. addr_map' \in [Clients -> AllIds]
    BY <2>1 DEF TypeOK, AllIds
  <2>5. handler' \in [Everyone -> [st : {"recv", "send", "ended"}, id : AllIds]]
    BY <2>1, ZenonT(30) DEF TypeOK, AllIds
  <2>6. reused' \subseteq Ids /\ astray' \subseteq AllIds
    <3>1. PICK k \in Ids : Draw(k) \/ UNCHANGED idVars
      BY <1>1, ZenonT(30) DEF HandleUdp, AddUdpClient
    <3> QED
      BY <3>1 DEF Draw, idVars, TypeOK
  <2> QED
    BY <1>1, <2>3, <2>4, <2>5, <2>6, ZenonT(30) DEF HandleUdp, TypeOK, serverVars, idVars
<1>2. ASSUME NEW c \in Clients, RelayEnds(c) PROVE TypeOK'
  <2>1. c \in Everyone
    BY DEF Everyone
  <2>2. handler[c] \in [st : {"recv", "send", "ended"}, id : AllIds]
    BY <2>1 DEF TypeOK
  <2>3. [handler[c] EXCEPT !.st = "ended"] \in [st : {"recv", "send", "ended"}, id : AllIds]
    BY <2>2
  <2>4. handler' \in [Everyone -> [st : {"recv", "send", "ended"}, id : AllIds]]
    BY <1>2, <2>3, ZenonT(30) DEF RelayEnds, TypeOK
  <2> QED
    BY <1>2, <2>4, ZenonT(30) DEF RelayEnds, TypeOK, serverVars, idVars
<1>3. ASSUME NEW c \in Everyone, SendToLoop(c) PROVE TypeOK'
  <2>1. <<handler[c].id, c>> \in Datagram
    BY DEF TypeOK, Datagram
  <2>2. dgm' \in Seq(Datagram)
    BY <1>3, <2>1, ItemsAppend DEF SendToLoop, TypeOK
  <2>3. handler' \in [Everyone -> [st : {"recv", "send", "ended"}, id : AllIds]]
    BY <1>3 DEF SendToLoop, TypeOK, AllIds
  <2> QED
    BY <1>3, <2>2, <2>3, ZenonT(30) DEF SendToLoop, TypeOK, serverVars, idVars
<1>4. ASSUME HandleUdpStdio PROVE TypeOK'
  BY <1>4, ZenonT(30) DEF HandleUdpStdio, TypeOK, serverVars, idVars, AllIds
<1>5. ASSUME NEW i \in Ids, Expire(i) PROVE TypeOK'
  BY <1>5, ZenonT(30) DEF Expire, TypeOK, serverVars, idVars
<1>6. ASSUME PruneUdpClients PROVE TypeOK'
  BY <1>6, ZenonT(30) DEF PruneUdpClients, TypeOK, serverVars, idVars, AllIds, NoId
<1>7. ASSUME TakeDatagram PROVE TypeOK'
  <2>1. Head(dgm) \in Datagram /\ Tail(dgm) \in Seq(Datagram)
    BY <1>7, ItemsTail DEF TakeDatagram, TypeOK
  <2>2. TrySend(up, Head(dgm)) \in Seq(Datagram)
    BY <2>1, ItemsTrySend, ZenonT(30) DEF TypeOK
  <2> QED
    BY <1>7, <2>1, <2>2, ZenonT(30) DEF TakeDatagram, TypeOK, serverVars, idVars
<1>8. ASSUME SendDatagramReply PROVE TypeOK'
  <2>1. Tail(down) \in Seq(Datagram)
    BY <1>8, ItemsTail DEF SendDatagramReply, TypeOK
  <2>2. astray' \subseteq AllIds
    <3>1. Head(down)[1] \in AllIds
      <4>1. Head(down) \in Datagram
        BY <1>8, ItemsTail DEF SendDatagramReply, TypeOK
      <4> QED
        BY <4>1 DEF Datagram
    <3>2. astray' \subseteq astray \cup {Head(down)[1]}
      BY <1>8, ZenonT(30) DEF SendDatagramReply
    <3> QED
      BY <3>1, <3>2 DEF TypeOK
  <2> QED
    BY <1>8, <2>1, <2>2, ZenonT(30) DEF SendDatagramReply, TypeOK, clientVars, idVars, serverVars
<1>9. ASSUME ConnectionLost PROVE TypeOK'
  <2>1. << >> \in Seq(Datagram)
    OBVIOUS
  <2> QED
    BY <1>9, <2>1, NoForwarder DEF ConnectionLost, TypeOK, clientVars, idVars, serverVars
<1>10. ASSUME Reconnect PROVE TypeOK'
  BY <1>10, SMTT(30) DEF Reconnect, TypeOK, clientVars, idVars, serverVars
<1>11. ASSUME ServerGet PROVE TypeOK'
  <2> DEFINE i == Head(up)[1]
  <2>1. Tail(up) \in Seq(Datagram) /\ i \in AllIds
    BY <1>11, ItemsTail, ServerGetFwd, ZenonT(30) DEF ServerGet, TypeOK
  <2>2. PICK g \in Forwarder : fwd' = [fwd EXCEPT ![i] = g]
    BY <1>11, ServerGetFwd
  <2> HIDE DEF i
  <2>3. udp_clients' \subseteq AllIds /\ lost' \in [AllIds -> Nat]
    <3>1. \/ UNCHANGED <<udp_clients, lost>>
          \/ udp_clients' = udp_clients \ {i} /\ lost' = [lost EXCEPT ![i] = @ + 1]
          \/ udp_clients' = udp_clients \cup {i} /\ lost' = [lost EXCEPT ![i] = 0]
      BY <1>11, ZenonT(30) DEF ServerGet, i
    <3>2. lost \in [AllIds -> Nat] /\ udp_clients \subseteq AllIds
      BY DEF TypeOK
    <3> QED
      BY <2>1, <3>1, <3>2, SMTT(30)
  <2> QED
    BY <1>11, <2>1, <2>2, <2>3, ZenonT(30) DEF ServerGet, TypeOK, clientVars, idVars
<1>12. ASSUME ServerSend PROVE TypeOK'
  <2>1. Head(back) \in Datagram /\ Tail(back) \in Seq(Datagram)
    BY <1>12, ItemsTail DEF ServerSend, TypeOK
  <2>2. TrySend(down, Head(back)) \in Seq(Datagram)
    BY <2>1, ItemsTrySend, ZenonT(30) DEF TypeOK
  <2> QED
    BY <1>12, <2>1, <2>2, ZenonT(30) DEF ServerSend, TypeOK, clientVars, idVars
<1>13. ASSUME NEW i \in AllIds, ForwardOn(i) PROVE TypeOK'
  <2>1. PICK g \in Forwarder : fwd' = [fwd EXCEPT ![i] = g]
    BY <1>13, ForwardOnFwd
  <2>2. UNCHANGED <<sc, clientVars, conn, up, down, udp_clients, back, idVars, lost>>
    BY <1>13 DEF ForwardOn
  <2> QED
    BY <2>1, <2>2 DEF TypeOK, clientVars, idVars
<1>14. ASSUME NEW i \in AllIds, ForwardEnds(i) PROVE TypeOK'
  BY <1>14, NoForwarder, ZenonT(30) DEF ForwardEnds, TypeOK, clientVars, idVars
<1>15. ASSUME NEW i \in AllIds, ForwardReply(i) PROVE TypeOK'
  <2>1. PICK c \in fwd[i].seen : back' = TrySend(back, <<i, c>>)
    BY <1>15 DEF ForwardReply
  <2>2. <<i, c>> \in Datagram
    BY ForwarderType DEF Datagram
  <2>3. back' \in Seq(Datagram)
    BY <2>1, <2>2, ItemsTrySend DEF TypeOK
  <2> QED
    BY <1>15, <2>3, ZenonT(30) DEF ForwardReply, TypeOK, clientVars, idVars
<1>16. CASE UNCHANGED vars
  BY <1>16, ZenonT(30) DEF vars, TypeOK, clientVars, serverVars, idVars
<1> QED
  BY <1>1, <1>2, <1>3, <1>4, <1>5, <1>6, <1>7, <1>8, <1>9, <1>10, <1>11, <1>12, <1>13, <1>14,
     <1>15, <1>16, Zenon DEF Next

(* The two maps: only what a handler enters and what the pruning task      *)
(* removes changes them, and each changes both.                            *)
LEMMA MapsStep == TypeOK /\ MapsInverse /\ FlagRight /\ [Next]_vars => MapsInverse' /\ FlagRight'
<1> SUFFICES ASSUME TypeOK, MapsInverse, FlagRight, [Next]_vars PROVE MapsInverse' /\ FlagRight'
  OBVIOUS
<1> USE UdpAssumption
<1>1. ASSUME NEW c \in Clients, HandleUdp(c) PROVE MapsInverse' /\ FlagRight'
  <2>1. PICK i \in Ids : /\ IF addr_map[c] = NoId THEN next_available_key(i) ELSE i = addr_map[c]
                         /\ id_map' = [id_map EXCEPT ![i] = Entry(c)]
                         /\ addr_map' = [addr_map EXCEPT ![c] = i]
    BY <1>1, ZenonT(30) DEF HandleUdp, AddUdpClient, Draw
  <2>2. i # NoId
    BY DEF NoId
  <2>3. \A d \in Clients \ {c} : addr_map[d] # i
    BY <2>1, <2>2 DEF next_available_key, MapsInverse
  <2>4. \A k \in Ids \ {i} : id_map[k] # NoEntry => id_map[k].client # c
    BY <2>1, <2>2 DEF MapsInverse, NoId
  <2>5. \A d \in Clients : addr_map[d] # NoId => addr_map[d] \in Ids
    BY DEF TypeOK, AllIds, NoId
  <2>6. \A k \in Ids : id_map'[k] = IF k = i THEN Entry(c) ELSE id_map[k]
    BY <2>1 DEF TypeOK
  <2>7. \A d \in Clients : addr_map'[d] = IF d = c THEN i ELSE addr_map[d]
    BY <2>1 DEF TypeOK
  <2>8. \A k \in Ids : id_map[k] # NoEntry => id_map[k].client \in Clients
    BY DEF TypeOK
  <2>9. MapsInverse'
    BY <2>2, <2>3, <2>4, <2>5, <2>6, <2>7, <2>8, EntryType DEF MapsInverse
  <2>10. FlagRight'
    <3> SUFFICES ASSUME NEW k \in Ids, id_map'[k] # NoEntry
                 PROVE  id_map'[k].socks5 <=> id_map'[k].client \in SocksUdp
      BY ZenonT(30) DEF FlagRight
    <3>1. CASE k = i
      <4>1. id_map'[k] = Entry(c)
        BY <2>6, <3>1
      <4> QED
        BY <4>1, EntryType, ZenonT(30)
    <3>2. CASE k # i
      <4>1. id_map'[k] = id_map[k]
        BY <2>6, <3>2
      <4> QED
        BY <4>1, Zenon DEF FlagRight
    <3> QED
      BY <3>1, <3>2
  <2> QED
    BY <2>9, <2>10
<1>2. ASSUME NEW i \in Ids, Expire(i) PROVE MapsInverse' /\ FlagRight'
  <2>1. id_map[i] \in [client : Clients, socks5 : BOOLEAN, expired : BOOLEAN] /\ id_map[i].client \in Clients
    BY <1>2 DEF Expire, TypeOK
  <2> DEFINE e == [id_map[i] EXCEPT !.expired = TRUE]
  <2>2. e.client = id_map[i].client /\ e.socks5 = id_map[i].socks5 /\ e # NoEntry
    BY <2>1 DEF NoEntry
  <2>3. id_map' = [id_map EXCEPT ![i] = e] /\ id_map[i] # NoEntry /\ addr_map' = addr_map
    BY <1>2 DEF Expire
  <2> HIDE DEF e
  <2>4. \A k \in Ids : id_map'[k] = IF k = i THEN e ELSE id_map[k]
    BY <2>3 DEF TypeOK
  <2>5. \A d \in Clients : addr_map[d] # NoId => addr_map[d] \in Ids
    BY DEF TypeOK, AllIds, NoId
  <2> QED
    BY <2>2, <2>3, <2>4, <2>5 DEF MapsInverse, FlagRight
<1>3. ASSUME PruneUdpClients PROVE MapsInverse' /\ FlagRight'
  <2>1. \A k \in Ids : id_map'[k] = IF k \in Expired THEN NoEntry ELSE id_map[k]
    BY <1>3 DEF PruneUdpClients
  <2>2. \A d \in Clients : addr_map'[d] = IF \E i \in Expired : id_map[i].client = d THEN NoId ELSE addr_map[d]
    BY <1>3 DEF PruneUdpClients
  <2>3. \A d \in Clients : addr_map[d] # NoId => addr_map[d] \in Ids
    BY DEF TypeOK, AllIds, NoId
  <2>4. \A k \in Ids : id_map[k] # NoEntry => id_map[k].client \in Clients
    BY DEF TypeOK
  <2>5. \A k \in Expired : k \in Ids /\ id_map[k] # NoEntry
    BY DEF Expired
  <2>6. MapsInverse'
    <3>1. ASSUME NEW d \in Clients, addr_map'[d] # NoId
          PROVE  id_map'[addr_map'[d]] # NoEntry /\ id_map'[addr_map'[d]].client = d
      <4>1. addr_map'[d] = addr_map[d] /\ ~\E i \in Expired : id_map[i].client = d
        BY <2>2, <3>1
      <4>2. addr_map[d] \in Ids /\ id_map[addr_map[d]] # NoEntry /\ id_map[addr_map[d]].client = d
        BY <2>3, <3>1, <4>1 DEF MapsInverse
      <4> QED
        BY <2>1, <4>1, <4>2, ZenonT(30)
    <3>2. ASSUME NEW k \in Ids, id_map'[k] # NoEntry PROVE addr_map'[id_map'[k].client] = k
      <4>1. k \notin Expired /\ id_map'[k] = id_map[k]
        BY <2>1, <3>2
      <4>2. id_map[k].client \in Clients /\ addr_map[id_map[k].client] = k
        BY <2>4, <3>2, <4>1 DEF MapsInverse
      <4>3. ASSUME NEW i \in Expired, id_map[i].client = id_map[k].client PROVE FALSE
        <5>1. i \in Ids /\ id_map[i] # NoEntry
          BY <2>5
        <5>2. addr_map[id_map[i].client] = i
          BY <5>1 DEF MapsInverse
        <5> QED
          BY <4>1, <4>2, <4>3, <5>2
      <4> QED
        BY <2>2, <4>1, <4>2, <4>3
    <3> QED
      BY <3>1, <3>2 DEF MapsInverse
  <2>7. FlagRight'
    BY <2>1 DEF FlagRight
  <2> QED
    BY <2>6, <2>7
<1>4. ASSUME UNCHANGED <<id_map, addr_map>> PROVE MapsInverse' /\ FlagRight'
  BY <1>4, SMTT(30) DEF MapsInverse, FlagRight
<1>5. \/ \E c \in Clients : HandleUdp(c)
      \/ \E i \in Ids : Expire(i)
      \/ PruneUdpClients
      \/ UNCHANGED <<id_map, addr_map>>
  BY ZenonT(30) DEF Next, RelayEnds, SendToLoop, HandleUdpStdio, TakeDatagram, SendDatagramReply, ConnectionLost,
         Reconnect, ServerGet, ServerSend, ForwardOn, ForwardEnds, ForwardReply, clientVars, vars
<1> QED
  BY <1>1, <1>2, <1>3, <1>4, <1>5

(* The forwarders: each one holds datagrams of its own id. *)
LEMMA ForwarderStep == TypeOK /\ ForwarderOwn /\ [Next]_vars => ForwarderOwn'
<1> SUFFICES ASSUME TypeOK, ForwarderOwn, [Next]_vars PROVE ForwarderOwn'
  OBVIOUS
<1>1. ASSUME NEW i \in AllIds, NEW g \in Forwarder, fwd' = [fwd EXCEPT ![i] = g],
             g.st = "ended" => g = NoFwd, g.st = "start" => g.rx # << >>,
             \A d \in Items(g.rx) : d[1] = i
      PROVE  ForwarderOwn'
  <2>1. \A k \in AllIds : fwd'[k] = IF k = i THEN g ELSE fwd[k]
    BY <1>1, SMTT(30) DEF TypeOK
  <2> QED
    BY <1>1, <2>1, SMTT(30) DEF ForwarderOwn
<1>2. ASSUME ServerGet PROVE ForwarderOwn'
  <2>1. Head(up)[1] \in AllIds
    BY <1>2, ServerGetFwd
  <2>2. PICK g \in Forwarder :
           /\ fwd' = [fwd EXCEPT ![Head(up)[1]] = g]
           /\ g.st = "ended" => g = NoFwd
           /\ g.st = "start" => g.rx # << >>
           /\ Items(g.rx) \subseteq Items(fwd[Head(up)[1]].rx) \cup {Head(up)}
    BY <1>2, ServerGetFwd
  <2>3. \A d \in Items(g.rx) : d[1] = Head(up)[1]
    BY <2>1, <2>2 DEF ForwarderOwn
  <2> QED
    BY <1>1, <2>1, <2>2, <2>3, ZenonT(30)
<1>3. ASSUME NEW i \in AllIds, ForwardOn(i) PROVE ForwarderOwn'
  <2>1. PICK g \in Forwarder : /\ fwd' = [fwd EXCEPT ![i] = g]
                               /\ g.st = "run" /\ Items(g.rx) \subseteq Items(fwd[i].rx)
    BY <1>3, ForwardOnFwd
  <2> QED
    BY <1>1, <2>1 DEF ForwarderOwn
<1>4. ASSUME NEW i \in AllIds, ForwardEnds(i) PROVE ForwarderOwn'
  BY <1>1, <1>4, NoForwarder, ZenonT(30) DEF ForwardEnds
<1>5. ASSUME ConnectionLost PROVE ForwarderOwn'
  BY <1>5, NoForwarder DEF ConnectionLost, ForwarderOwn
<1>6. ASSUME UNCHANGED fwd PROVE ForwarderOwn'
  BY <1>6 DEF ForwarderOwn
<1>7. \/ ServerGet \/ ConnectionLost \/ UNCHANGED fwd
      \/ \E i \in AllIds : ForwardOn(i) \/ ForwardEnds(i)
  BY ZenonT(30) DEF Next, HandleUdp, Expire, PruneUdpClients, RelayEnds, SendToLoop, HandleUdpStdio, TakeDatagram,
         SendDatagramReply, Reconnect, ServerSend, ForwardReply, serverVars, vars
<1> QED
  BY <1>2, <1>3, <1>4, <1>5, <1>6, <1>7

(* Of an id that nobody remembers nothing is on its way. *)
LEMMA ForgottenQuiet ==
    ASSUME TypeOK, ForwarderOwn, WayHome, NEW i \in Ids, ~Remembered(i), NEW d \in Datagram, OnItsWay(d)
    PROVE  d[1] # i
<1> SUFFICES ASSUME d[1] = i PROVE FALSE
  OBVIOUS
<1>0. i # 0 /\ i \in AllIds
  BY UdpAssumption DEF AllIds
<1>1. CASE d \in Items(dgm) \/ d \in Items(up) \/ d \in Items(back) \/ d \in Items(down)
  BY <1>1 DEF Remembered, Holds, Items
<1>2. ASSUME NEW c \in Everyone, handler[c].st = "send", d = <<handler[c].id, c>> PROVE FALSE
  <2>1. handler[c].id = i /\ d[2] = c
    BY <1>2
  <2>2. d[2] \in Clients
    BY <1>0 DEF WayHome, Home
  <2> QED
    BY <1>2, <2>1, <2>2 DEF Remembered
<1>3. ASSUME NEW k \in AllIds, d \in Items(fwd[k].rx) PROVE FALSE
  <2>1. k = i
    BY <1>3 DEF ForwarderOwn
  <2>2. fwd[k] = NoFwd
    BY <1>0, <2>1 DEF Remembered, ForwarderOwn
  <2> QED
    BY <1>3, <2>2, NoForwarder
<1>4. ASSUME NEW k \in AllIds, NEW c \in fwd[k].seen, d = <<k, c>> PROVE FALSE
  <2>1. k = i
    BY <1>4
  <2>2. fwd[k] = NoFwd
    BY <1>0, <2>1, SMTT(30) DEF Remembered, ForwarderOwn
  <2> QED
    BY <2>2, NoForwarder
<1> QED
  BY <1>1, <1>2, <1>3, <1>4 DEF OnItsWay

(* What is on its way after a step was on its way before, or comes from a  *)
(* handler that has just received it.                                      *)
LEMMA NothingNew ==
    ASSUME TypeOK, ForwarderOwn, [Next]_vars, NEW d \in Datagram, OnItsWay(d)'
    PROVE  \/ OnItsWay(d)
           \/ \E c \in Clients : HandleUdp(c) /\ d = <<handler'[c].id, c>>
           \/ d = <<0, "stdio">>
<1> DEFINE Old == OnItsWay(d)
<1>1. ASSUME NEW c \in Clients, HandleUdp(c) PROVE Old \/ d = <<handler'[c].id, c>>
  <2>1. \A e \in Everyone : e # c => handler'[e] = handler[e]
    BY <1>1 DEF HandleUdp, AddUdpClient, TypeOK
  <2>2. UNCHANGED <<dgm, up, down, serverVars>>
    BY <1>1, SMTT(30) DEF HandleUdp
  <2> QED
    BY <2>1, <2>2, SMTT(30) DEF OnItsWay, serverVars
<1>2. ASSUME NEW c \in Clients, RelayEnds(c) PROVE Old
  <2>1. c \in Everyone /\ handler'[c].st = "ended" /\ \A e \in Everyone : e # c => handler'[e] = handler[e]
    BY <1>2 DEF RelayEnds, TypeOK, Everyone
  <2>2. UNCHANGED <<dgm, up, down, serverVars>>
    BY <1>2, SMTT(30) DEF RelayEnds
  <2> QED
    BY <2>1, <2>2 DEF OnItsWay, serverVars
<1>3. ASSUME NEW c \in Everyone, SendToLoop(c) PROVE Old
  <2>1. handler'[c].st = "recv" /\ \A e \in Everyone : e # c => handler'[e] = handler[e]
    BY <1>3 DEF SendToLoop, TypeOK
  <2>2. <<handler[c].id, c>> \in Datagram
    BY SMTT(30) DEF TypeOK, Datagram
  <2>3. Items(dgm') \subseteq Items(dgm) \cup {<<handler[c].id, c>>}
    BY <1>3, <2>2, ItemsAppend DEF SendToLoop, TypeOK
  <2>4. handler[c].st = "send" /\ UNCHANGED <<up, down, serverVars>>
    BY <1>3, SMTT(30) DEF SendToLoop
  <2> QED
    BY <2>1, <2>3, <2>4, SMTT(30) DEF OnItsWay, serverVars
<1>4. ASSUME HandleUdpStdio PROVE Old \/ d = <<0, "stdio">>
  <2>1. handler'["stdio"].id = 0 /\ \A e \in Everyone : e # "stdio" => handler'[e] = handler[e]
    BY <1>4 DEF HandleUdpStdio, TypeOK, Everyone
  <2>2. UNCHANGED <<dgm, up, down, serverVars>>
    BY <1>4, SMTT(30) DEF HandleUdpStdio
  <2> QED
    BY <2>1, <2>2 DEF OnItsWay, serverVars
<1>5. ASSUME UNCHANGED <<handler, dgm, up, down, serverVars>> PROVE Old
  BY <1>5, SMTT(30) DEF OnItsWay, serverVars
<1>6. ASSUME TakeDatagram PROVE Old
  <2>1. Head(dgm) \in Datagram /\ Head(dgm) \in Items(dgm) /\ Items(Tail(dgm)) \subseteq Items(dgm)
    BY <1>6, ItemsTail DEF TakeDatagram, TypeOK
  <2>2. Items(TrySend(up, Head(dgm))) \subseteq Items(up) \cup {Head(dgm)}
    BY <2>1, ItemsTrySend, ZenonT(30) DEF TypeOK
  <2>3. UNCHANGED <<handler, down, serverVars>> /\ dgm' = Tail(dgm) /\ (up' = up \/ up' = TrySend(up, Head(dgm)))
    BY <1>6 DEF TakeDatagram
  <2> QED
    BY <2>1, <2>2, <2>3 DEF OnItsWay, serverVars
<1>7. ASSUME SendDatagramReply PROVE Old
  <2>1. Items(Tail(down)) \subseteq Items(down)
    BY <1>7, ItemsTail DEF SendDatagramReply, TypeOK
  <2>2. UNCHANGED <<clientVars, up, serverVars>> /\ down' = Tail(down)
    BY <1>7 DEF SendDatagramReply
  <2> QED
    BY <2>1, <2>2 DEF OnItsWay, clientVars, serverVars
<1>8. ASSUME ConnectionLost PROVE Old
  <2>1. /\ UNCHANGED clientVars /\ up' = << >> /\ down' = << >> /\ back' = << >>
        /\ fwd' = [i \in AllIds |-> NoFwd]
    BY <1>8, SMTT(30) DEF ConnectionLost
  <2> QED
    BY <2>1, ItemsEmpty, NoForwarder DEF OnItsWay, clientVars
<1>9. ASSUME ServerGet PROVE Old
  <2>1. Head(up)[1] \in AllIds
    BY <1>9, ServerGetFwd, SMTT(30)
  <2>2. PICK g \in Forwarder :
           /\ fwd' = [fwd EXCEPT ![Head(up)[1]] = g]
           /\ Items(g.rx) \subseteq Items(fwd[Head(up)[1]].rx) \cup {Head(up)}
           /\ g.seen \subseteq fwd[Head(up)[1]].seen
    BY <1>9, ServerGetFwd, SMTT(30)
  <2>3. \A k \in AllIds : fwd'[k] = IF k = Head(up)[1] THEN g ELSE fwd[k]
    BY <2>2, SMTT(30) DEF TypeOK
  <2>4. Head(up) \in Items(up) /\ Items(Tail(up)) \subseteq Items(up)
    BY <1>9, ItemsTail, ZenonT(30) DEF ServerGet, TypeOK
  <2>5. UNCHANGED <<clientVars, down, back>> /\ up' = Tail(up)
    BY <1>9, ZenonT(30) DEF ServerGet
  <2> QED
    BY <2>1, <2>2, <2>3, <2>4, <2>5 DEF OnItsWay, clientVars
<1>10. ASSUME ServerSend PROVE Old
  <2>1. Head(back) \in Datagram /\ Head(back) \in Items(back) /\ Items(Tail(back)) \subseteq Items(back)
    BY <1>10, ItemsTail DEF ServerSend, TypeOK
  <2>2. Items(TrySend(down, Head(back))) \subseteq Items(down) \cup {Head(back)}
    BY <2>1, ItemsTrySend, ZenonT(30) DEF TypeOK
  <2>3. UNCHANGED <<clientVars, up, fwd>> /\ back' = Tail(back) /\ down' = TrySend(down, Head(back))
    BY <1>10 DEF ServerSend
  <2> QED
    BY <2>1, <2>2, <2>3 DEF OnItsWay, clientVars
<1>11. ASSUME NEW i \in AllIds, ForwardOn(i) PROVE Old
  <2>1. PICK g \in Forwarder : /\ fwd' = [fwd EXCEPT ![i] = g]
                               /\ Items(g.rx) \subseteq Items(fwd[i].rx)
                               /\ g.seen = fwd[i].seen \cup {Head(fwd[i].rx)[2]}
    BY <1>11, ForwardOnFwd
  <2>2. Head(fwd[i].rx) \in Items(fwd[i].rx) /\ Head(fwd[i].rx) = <<i, Head(fwd[i].rx)[2]>>
    BY <1>11, ForwardOnFwd, SMTT(30) DEF ForwarderOwn, Datagram
  <2>3. \A k \in AllIds : fwd'[k] = IF k = i THEN g ELSE fwd[k]
    BY <2>1, SMTT(30) DEF TypeOK
  <2>4. UNCHANGED <<clientVars, up, down, back>>
    BY <1>11, SMTT(30) DEF ForwardOn
  <2> QED
    BY <2>1, <2>2, <2>3, <2>4 DEF OnItsWay, clientVars
<1>12. ASSUME NEW i \in AllIds, ForwardEnds(i) PROVE Old
  <2>1. \A k \in AllIds : fwd'[k] = IF k = i THEN NoFwd ELSE fwd[k]
    BY <1>12 DEF ForwardEnds, TypeOK
  <2>2. UNCHANGED <<clientVars, up, down, back>>
    BY <1>12, SMTT(30) DEF ForwardEnds
  <2> QED
    BY <2>1, <2>2, NoForwarder DEF OnItsWay, clientVars
<1>13. ASSUME NEW i \in AllIds, ForwardReply(i) PROVE Old
  <2>1. PICK c \in fwd[i].seen : back' = TrySend(back, <<i, c>>)
    BY <1>13 DEF ForwardReply
  <2>2. <<i, c>> \in Datagram
    BY ForwarderType, SMTT(30) DEF Datagram
  <2>3. Items(back') \subseteq Items(back) \cup {<<i, c>>}
    BY <2>1, <2>2, ItemsTrySend, ZenonT(30) DEF TypeOK
  <2>4. UNCHANGED <<clientVars, up, down, fwd>>
    BY <1>13 DEF ForwardReply
  <2> QED
    BY <2>3, <2>4, SMTT(30) DEF OnItsWay, clientVars
<1>14. ASSUME (\E i \in Ids : Expire(i)) \/ PruneUdpClients \/ Reconnect \/ UNCHANGED vars
       PROVE  UNCHANGED <<handler, dgm, up, down, serverVars>>
  BY <1>14 DEF Expire, PruneUdpClients, Reconnect, vars, clientVars, serverVars
<1> HIDE DEF Old
<1> QED
  BY <1>1, <1>2, <1>3, <1>4, <1>5, <1>6, <1>7, <1>8, <1>9, <1>10, <1>11, <1>12, <1>13, <1>14, SMTT(30)
     DEF Next, Old

(* An id stays with its client: no step gives the id of something on its   *)
(* way to another client, unless it is drawn too early.                    *)
LEMMA WayStep == TypeOK /\ MapsInverse /\ ForwarderOwn /\ WayHome /\ [Next]_vars => WayHome'
<1> SUFFICES ASSUME TypeOK, MapsInverse, ForwarderOwn, WayHome, [Next]_vars,
                    NEW d \in Datagram, OnItsWay(d)'
             PROVE  Home(d)'
  BY DEF WayHome, Datagram
<1>1. ASSUME NEW c \in Clients, HandleUdp(c) PROVE Home(d)'
  <2>1. PICK i \in Ids : /\ IF addr_map[c] = NoId THEN Draw(i)
                                                 ELSE i = addr_map[c] /\ UNCHANGED idVars
                         /\ id_map' = [id_map EXCEPT ![i] = Entry(c)]
                         /\ handler' = [handler EXCEPT ![c] = [st |-> "send", id |-> i]]
    BY <1>1, ZenonT(30) DEF HandleUdp, AddUdpClient
  <2>2. c \in Everyone /\ i # 0 /\ handler'[c].id = i
    BY <2>1, UdpAssumption DEF Everyone, TypeOK
  <2>3. \A k \in Ids : id_map'[k] = IF k = i THEN Entry(c) ELSE id_map[k]
    BY <2>1 DEF TypeOK
  <2>r. \A k \in Ids \ {i} : k \in reused' <=> k \in reused
    BY <2>1 DEF Draw, idVars
  <2>4. CASE d = <<i, c>>
    BY <2>2, <2>3, <2>4, EntryType, ZenonT(30) DEF Home
  <2>5. CASE OnItsWay(d)
    <3>1. Home(d) /\ d[1] \in AllIds
      BY <2>5 DEF WayHome, Datagram
    <3>2. CASE d[1] # i
      BY <2>3, <2>r, <3>1, <3>2, SMTT(30) DEF Home, AllIds
    <3>3. CASE d[1] = i
      <4>0. d[2] \in Clients
        BY <2>2, <3>1, <3>3 DEF Home
      <4> SUFFICES ASSUME i \notin reused' PROVE d[2] = c
        BY <2>2, <2>3, <3>3, <4>0, EntryType DEF Home
      <4>1. CASE addr_map[c] = NoId
        <5>1. ~Remembered(i)
          BY <2>1, <4>1 DEF Draw
        <5> QED
          BY <2>5, <3>3, <5>1, ForgottenQuiet
      <4>2. CASE addr_map[c] # NoId
        <5>1. i = addr_map[c] /\ i \notin reused
          BY <2>1, <4>2 DEF idVars
        <5>2. id_map[i] # NoEntry /\ id_map[i].client = c
          BY <4>2, <5>1 DEF MapsInverse
        <5> QED
          BY <2>2, <3>1, <3>3, <5>1, <5>2 DEF Home
      <4> QED
        BY <4>1, <4>2
    <3> QED
      BY <3>2, <3>3
  <2>6. CASE \E e \in Clients : HandleUdp(e) /\ d = <<handler'[e].id, e>>
    <3>1. PICK e \in Clients : HandleUdp(e) /\ d = <<handler'[e].id, e>>
      BY <2>6, SMTT(30)
    <3>2. CASE e = c
      BY <2>2, <2>4, <3>1, <3>2
    <3>3. CASE e # c
      <4>1. handler'[e] = handler[e] /\ handler[e].st = "recv" /\ e \in Everyone
        BY <2>1, <3>1, <3>3, SMTT(30) DEF HandleUdp, TypeOK, Everyone
      <4>2. handler'[e].st = "send"
        BY <3>1, <4>1 DEF HandleUdp, AddUdpClient, TypeOK
      <4> QED
        BY <4>1, <4>2, SMTT(30)
    <3> QED
      BY <3>2, <3>3
  <2>7. CASE d = <<0, "stdio">>
    BY <2>7 DEF Home
  <2> QED
    BY <2>5, <2>6, <2>7, NothingNew, SMTT(30)
<1>2. ASSUME ~\E c \in Clients : HandleUdp(c) PROVE Home(d)'
  <2>1. CASE d = <<0, "stdio">>
    BY <2>1 DEF Home
  <2>2. CASE OnItsWay(d)
    <3>1. Home(d) /\ d[1] \in AllIds
      BY <2>2 DEF WayHome, Datagram
    <3>r. reused' = reused
      BY <1>2, ZenonT(30) DEF Next, RelayEnds, SendToLoop, HandleUdpStdio, Expire, PruneUdpClients,
         TakeDatagram, SendDatagramReply, ConnectionLost, Reconnect, ServerGet, ServerSend, ForwardOn,
         ForwardEnds, ForwardReply, idVars, vars
    <3>2. ASSUME NEW i \in Ids, Expire(i) PROVE Home(d)'
      <4>1. id_map[i] \in [client : Clients, socks5 : BOOLEAN, expired : BOOLEAN]
        BY <3>2 DEF Expire, TypeOK
      <4>2. [id_map[i] EXCEPT !.expired = TRUE].client = id_map[i].client
        BY <4>1
      <4>3. \A k \in Ids : k # i => id_map'[k] = id_map[k]
        BY <3>2 DEF Expire, TypeOK
      <4>4. id_map[i] # NoEntry /\ id_map'[i].client = id_map[i].client
        BY <3>2, <4>2 DEF Expire, TypeOK
      <4> QED
        BY <3>1, <3>r, <4>3, <4>4 DEF Home, AllIds
    <3>3. ASSUME PruneUdpClients PROVE Home(d)'
      <4>1. \A k \in Ids : id_map'[k] = NoEntry \/ id_map'[k] = id_map[k]
        BY <3>3 DEF PruneUdpClients
      <4> QED
        BY <3>1, <3>r, <4>1 DEF Home, AllIds
    <3>4. ASSUME UNCHANGED id_map PROVE Home(d)'
      BY <3>1, <3>r, <3>4, SMTT(30) DEF Home
    <3>5. PruneUdpClients \/ UNCHANGED id_map \/ \E i \in Ids : Expire(i)
      BY <1>2, ZenonT(30) DEF Next, RelayEnds, SendToLoop, HandleUdpStdio, TakeDatagram, SendDatagramReply,
         ConnectionLost, Reconnect, ServerGet, ServerSend, ForwardOn, ForwardEnds, ForwardReply,
         clientVars, vars
    <3> QED
      BY <3>2, <3>3, <3>4, <3>5
  <2> QED
    BY <1>2, <2>1, <2>2, NothingNew
<1> QED
  BY <1>1, <1>2

(* send_datagram_reply finds the client of the reply, or none, or one that *)
(* drew the id too early.                                                  *)
LEMMA ReplyStep == TypeOK /\ FlagRight /\ WayHome /\ RepliesGoHome /\ [Next]_vars => RepliesGoHome'
<1> SUFFICES ASSUME TypeOK, FlagRight, WayHome, RepliesGoHome, [Next]_vars PROVE RepliesGoHome'
  OBVIOUS
<1>1. ASSUME SendDatagramReply PROVE RepliesGoHome'
  <2> DEFINE i == Head(down)[1]
             o == Head(down)[2]
             Wrong(to, socks5) == to # o \/ (socks5 <=> o \notin SocksUdp)
  <2>1. Head(down) \in Datagram /\ Head(down) \in Items(down)
    BY <1>1, ItemsTail, SMTT(30) DEF SendDatagramReply, TypeOK
  <2>2. Home(Head(down)) /\ i \in AllIds
    BY <2>1, ZenonT(30) DEF WayHome, OnItsWay, Datagram
  <2>3. i = 0 => ~Wrong("stdio", FALSE)
    BY <2>2, UdpAssumption DEF Home
  <2>4. i # 0 /\ id_map[i] # NoEntry /\ i \notin reused => ~Wrong(id_map[i].client, id_map[i].socks5)
    <3> SUFFICES ASSUME i # 0, id_map[i] # NoEntry, i \notin reused
                 PROVE  ~Wrong(id_map[i].client, id_map[i].socks5)
      OBVIOUS
    <3>1. id_map[i].client = o /\ i \in Ids
      BY <2>2 DEF Home, AllIds
    <3>2. id_map[i].socks5 <=> id_map[i].client \in SocksUdp
      BY <3>1 DEF FlagRight
    <3> QED
      BY <3>1, <3>2
  <2>5. astray' = IF \/ i = 0 /\ Wrong("stdio", FALSE)
                     \/ i # 0 /\ id_map[i] # NoEntry /\ Wrong(id_map[i].client, id_map[i].socks5)
                    THEN astray \cup {i} ELSE astray
    BY <1>1, ZenonT(30) DEF SendDatagramReply
  <2> HIDE DEF Wrong
  <2>6. i \in reused \/ astray' = astray
    BY <2>3, <2>4, <2>5, ZenonT(30)
  <2>7. astray' \subseteq astray \cup {i} /\ reused' = reused
    BY <1>1, <2>5, ZenonT(30) DEF SendDatagramReply
  <2> QED
    BY <2>6, <2>7, ZenonT(30) DEF RepliesGoHome
<1>2. ASSUME NEW c \in Clients, HandleUdp(c) PROVE RepliesGoHome'
  <2>1. PICK i \in Ids : Draw(i) \/ UNCHANGED idVars
    BY <1>2, ZenonT(30) DEF HandleUdp, AddUdpClient
  <2> QED
    BY <2>1 DEF Draw, idVars, RepliesGoHome
<1>3. ASSUME UNCHANGED idVars PROVE RepliesGoHome'
  BY <1>3 DEF idVars, RepliesGoHome
<1>4. SendDatagramReply \/ UNCHANGED idVars \/ \E c \in Clients : HandleUdp(c)
  BY ZenonT(30) DEF Next, RelayEnds, SendToLoop, HandleUdpStdio, Expire, PruneUdpClients, TakeDatagram,
         ConnectionLost, Reconnect, ServerGet, ServerSend, ForwardOn, ForwardEnds, ForwardReply, vars
<1> QED
  BY <1>1, <1>2, <1>3, <1>4

(* The datagram that finds a closed channel takes the entry with it. *)
LEMMA LossStep == TypeOK /\ ForwarderOwn /\ LossRemoves /\ [Next]_vars => LossRemoves'
<1> SUFFICES ASSUME TypeOK, ForwarderOwn, LossRemoves, [Next]_vars PROVE LossRemoves'
  OBVIOUS
<1>1. ASSUME ServerGet PROVE LossRemoves'
  <2> DEFINE i == Head(up)[1]
  <2>1. \/ UNCHANGED <<udp_clients, lost>>
        \/ i \in udp_clients /\ udp_clients' = udp_clients \ {i} /\ lost' = [lost EXCEPT ![i] = @ + 1]
        \/ udp_clients' = udp_clients \cup {i} /\ lost' = [lost EXCEPT ![i] = 0]
    BY <1>1, ZenonT(30) DEF ServerGet
  <2>2. i \in AllIds
    BY <1>1, ServerGetFwd
  <2>3. lost \in [AllIds -> Nat]
    BY DEF TypeOK
  <2> HIDE DEF i
  <2> QED
    BY <2>1, <2>2, <2>3, SMTT(30) DEF LossRemoves
<1>2. ASSUME ConnectionLost PROVE LossRemoves'
  BY <1>2 DEF ConnectionLost, LossRemoves
<1>3. ASSUME UNCHANGED <<udp_clients, lost>> PROVE LossRemoves'
  BY <1>3, SMTT(30) DEF LossRemoves
<1>4. ServerGet \/ ConnectionLost \/ UNCHANGED <<udp_clients, lost>>
  BY ZenonT(30) DEF Next, HandleUdp, RelayEnds, SendToLoop, HandleUdpStdio, Expire, PruneUdpClients, TakeDatagram,
         SendDatagramReply, Reconnect, ServerSend, ForwardOn, ForwardEnds, ForwardReply, serverVars, vars
<1> QED
  BY <1>1, <1>2, <1>3, <1>4

-----------------------------------------------------------------------------
(* The theorems. *)

(* IInv holds in every state of every behaviour. *)
THEOREM UdpInductive == Spec => []IInv
<1>1. Init => IInv
  BY InitIInv
<1>2. IInv /\ [Next]_vars => IInv'
  BY TypeStep, MapsStep, ForwarderStep, WayStep, ReplyStep, LossStep, Zenon DEF IInv
<1> QED
  BY <1>1, <1>2, PTL DEF Spec

(* The maps of client/mod.rs stay inverse to each other, whatever expires  *)
(* and whoever sends: no `expect` on them can fail.                        *)
THEOREM MapsStayInverse == Spec => []MapsInverse
<1>1. IInv => MapsInverse
  BY DEF IInv
<1> QED
  BY <1>1, UdpInductive, PTL

(* send_datagram_reply gives a reply to the client that caused it, in the  *)
(* form that client speaks, or to nobody, for every id that was not drawn  *)
(* while a forwarder, a queue or a handler remembered an earlier client.   *)
THEOREM EveryReplyGoesHome == Spec => []RepliesGoHome
<1>1. IInv => RepliesGoHome
  BY DEF IInv
<1> QED
  BY <1>1, UdpInductive, PTL

(* handle_websocket loses at most one datagram to a forwarder that ended. *)
THEOREM OneLoss == Spec => []OneLossPerForwarder
<1>1. IInv => OneLossPerForwarder
  BY DEF IInv, LossRemoves, OneLossPerForwarder
<1> QED
  BY <1>1, UdpInductive, PTL

=============================================================================
