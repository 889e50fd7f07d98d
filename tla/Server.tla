------------------------------- MODULE Server -------------------------------
(***************************************************************************)
(* The server around the tunnels: start, listeners, TLS identity and its   *)
(* replacement, the connections and their time limits.                     *)
(*                                                                         *)
(* The identity is in an ArcSwap: a connection takes the current one when  *)
(* it is accepted; a signal handler reads certificate and key again, one   *)
(* file after the other, while the operator (external) may be writing      *)
(* them; with ACME a task of its own replaces it.  Versions of the files   *)
(* are numbers, 0 is a file that is being written and does not parse.      *)
(***************************************************************************)
EXTENDS Acme

CONSTANTS
    Conns,      \* connections that may be made
    Modes,      \* subset of {"plain", "files", "acme"}: TLS options
    Timeouts,   \* values of --timeout, in seconds; 0 is none
    MaxVersion, \* bound on rotations ...
    MaxRuns     \* ... and on runs of issue

VARIABLES
    mode, timeout,  \* the options
    main,           \* "starting", "binding", "listening", "exited"
    disk,           \* [cert, key, ca]: the files, and whether the one with the client CAs
                    \* is good; [next]: what the operator writes next
    signal,         \* SIGUSR1 is pending
    signalled,      \* history: version on disk when the operator last signalled
    load,           \* make_server_config: [pc, cert]
    identity,       \* [cert, key] of the ArcSwap
    conn,           \* [Conns -> [st, identity]]
    ws              \* [Conns -> the task ws_handler spawned]

tlsVars == <<disk, signal, signalled, load, identity>>
vars == <<mode, timeout, main, tlsVars, conn, ws, acmeVars>>

NoIdentity == [cert |-> 0, key |-> 0]
NotLoading == [pc |-> "idle", cert |-> 0]

(* OptionalDuration: 0 parses to None, and a timeout of None never fires. *)
Timed == timeout # 0

Init ==
    /\ mode \in Modes /\ timeout \in Timeouts
    /\ main = "starting"
    /\ disk \in [cert : {1}, key : {1}, ca : BOOLEAN, next : {"cert_open"}]
    /\ signal = FALSE /\ signalled = 1
    /\ load = NotLoading /\ identity = NoIdentity
    /\ conn = [c \in Conns |-> [st |-> "none", identity |-> NoIdentity]]
    /\ ws = [c \in Conns |-> "none"]
    /\ AcmeInit

-----------------------------------------------------------------------------
(* server_main and the TLS identity. *)

Serving == main \in {"binding", "listening"}

(* What is next after an identity was made, and after an error. *)
Continue == main' = IF main = "starting" THEN "binding" ELSE main
GiveUp == main' = IF main = "starting" THEN "exited" ELSE main

(* check_start_tls without TLS *)
StartPlain ==
    /\ main = "starting" /\ mode = "plain"
    /\ Continue
    /\ UNCHANGED <<mode, timeout, tlsVars, conn, ws, acmeVars>>

(* The loop that binds the addresses and spawns the listeners ends, or an  *)
(* address cannot be bound: server_main returns, and with it all others.   *)
Bind ==
    /\ main = "binding"
    /\ main' \in {"listening", "exited"}
    /\ UNCHANGED <<mode, timeout, tlsVars, conn, ws, acmeVars>>

(* try_load_certificate reads the certificate: at the start, or when the   *)
(* handler has received SIGUSR1 ...                                        *)
LoadCert ==
    /\ mode = "files" /\ load.pc = "idle"
    /\ \/ main = "starting" /\ UNCHANGED signal
       \/ Serving /\ signal /\ signal' = FALSE
    /\ load' = [pc |-> "key", cert |-> disk.cert]
    /\ UNCHANGED <<mode, timeout, main, disk, signalled, identity, conn, ws, acmeVars>>

(* Certificate and key of different versions are taken. *)
StoreUnchecked ==
    /\ load.pc = "key"
    /\ load' = NotLoading
    /\ IF load.cert # 0 /\ disk.key # 0 /\ disk.ca
         THEN identity' = [cert |-> load.cert, key |-> disk.key] /\ Continue
         ELSE UNCHANGED identity /\ GiveUp
    /\ UNCHANGED <<mode, timeout, disk, signal, signalled, conn, ws, acmeVars>>

(* Signals that came during the reload are forgotten. *)
StoreForgets ==
    /\ load.pc = "key"
    /\ load' = NotLoading /\ signal' = FALSE
    /\ IF load.cert # 0 /\ load.cert = disk.key /\ disk.ca
         THEN identity' = [cert |-> load.cert, key |-> disk.key] /\ Continue
         ELSE UNCHANGED identity /\ GiveUp
    /\ UNCHANGED <<mode, timeout, disk, signalled, conn, ws, acmeVars>>

(* ... and then the key and the client CAs.  The new configuration is      *)
(* built before it is stored; a CA file that cannot be read or has no      *)
(* certificate is an error, and a pair that does not match is refused (by  *)
(* rustls).  An error ends the start and is otherwise only logged.         *)
Store ==
    /\ load.pc = "key"
    /\ load' = NotLoading
    /\ IF load.cert # 0 /\ load.cert = disk.key /\ disk.ca
         THEN identity' = [cert |-> load.cert, key |-> disk.key] /\ Continue
         ELSE UNCHANGED identity /\ GiveUp
    /\ UNCHANGED <<mode, timeout, disk, signal, signalled, conn, ws, acmeVars>>

(* The operator writes the certificate, then the key, and then signals;    *)
(* the CA file comes and goes (external).                                  *)
Rotate ==
    /\ mode = "files" /\ Serving
    /\ \/ /\ disk.next = "cert_open" /\ disk.key < MaxVersion
          /\ disk' = [disk EXCEPT !.cert = 0, !.next = "cert_close"]
       \/ /\ disk.next = "cert_close"
          /\ disk' = [disk EXCEPT !.cert = disk.key + 1, !.next = "key_open"]
       \/ /\ disk.next = "key_open"
          /\ disk' = [disk EXCEPT !.key = 0, !.next = "key_close"]
       \/ /\ disk.next = "key_close"
          /\ disk' = [disk EXCEPT !.key = disk.cert, !.next = "signal"]
       \/ disk' = [disk EXCEPT !.ca = ~disk.ca]
    /\ UNCHANGED <<mode, timeout, main, signal, signalled, load, identity, conn, ws, acmeVars>>

(* SIGUSR1; signals that are not yet received are merged into one. *)
Signal ==
    /\ disk.next = "signal"
    /\ disk' = [disk EXCEPT !.next = "cert_open"]
    /\ signal' = TRUE /\ signalled' = disk.cert
    /\ UNCHANGED <<mode, timeout, main, load, identity, conn, ws, acmeVars>>

(* populate_or_get at the start, and a tick of the renewal interval. *)
AcmeStarts ==
    /\ mode = "acme" /\ issue.pc = "idle"
    /\ issue.run < MaxRuns /\ main # "exited"
    /\ IssueStarts
    /\ UNCHANGED <<mode, timeout, main, tlsVars, conn, ws>>

(* issue goes on.  When it returns, the certificate is stored, unless      *)
(* building the configuration fails; an error ends the start, and keeps    *)
(* the old identity afterwards.                                            *)
AcmeStep ==
    /\ mode = "acme" /\ IssueStep
    /\ IF issue'.pc # "idle" THEN UNCHANGED <<identity, main>>
       ELSE \/ /\ issue'.result = "Ok"
               /\ identity' = [cert |-> issue.run, key |-> issue.run]
               /\ Continue
            \/ UNCHANGED identity /\ GiveUp
    /\ UNCHANGED <<mode, timeout, disk, signal, signalled, load, conn, ws>>

-----------------------------------------------------------------------------
(* The connections. *)

SetConn(c, st) == conn' = [conn EXCEPT ![c].st = st]

(* run_listener: accept, and spawn serve_connection or, with the identity  *)
(* of this moment, serve_connection_tls.  (An accept error changes nothing.)*)
Accept(c) ==
    /\ Serving /\ conn[c].st = "none"
    /\ conn' = [conn EXCEPT ![c] =
                  [st |-> IF mode = "plain" THEN "http" ELSE "tls", identity |-> identity]]
    /\ UNCHANGED <<mode, timeout, main, tlsVars, ws, acmeVars>>

(* serve_connection_tls: the handshake succeeds, fails ... *)
Handshake(c) ==
    /\ conn[c].st = "tls"
    /\ SetConn(c, "http") \/ SetConn(c, "closed")
    /\ UNCHANGED <<mode, timeout, main, tlsVars, ws, acmeVars>>

(* Where no time limit is set it fires, and where one is set it does not. *)
HandshakeTimeoutInverted(c) ==
    /\ conn[c].st = "tls" /\ ~Timed
    /\ SetConn(c, "closed")
    /\ UNCHANGED <<mode, timeout, main, tlsVars, ws, acmeVars>>

(* ... or takes too long. *)
HandshakeTimeout(c) ==
    /\ conn[c].st = "tls" /\ Timed
    /\ SetConn(c, "closed")
    /\ UNCHANGED <<mode, timeout, main, tlsVars, ws, acmeVars>>

(* ws_handler accepts a request: its task waits for the upgrade, and the   *)
(* response is on its way.  (Other requests leave the connection as it is.)*)
UpgradeRequested(c) ==
    /\ conn[c].st = "http"
    /\ SetConn(c, "switching")
    /\ ws' = [ws EXCEPT ![c] = "waiting"]
    /\ UNCHANGED <<mode, timeout, main, tlsVars, acmeVars>>

(* The 101 is written: the connection's future is done and hands the       *)
(* stream to the task.                                                     *)
Upgraded(c) ==
    /\ conn[c].st = "switching"
    /\ SetConn(c, "closed")
    /\ ws' = [ws EXCEPT ![c] = "open"]
    /\ UNCHANGED <<mode, timeout, main, tlsVars, acmeVars>>

(* serve_connection ends: the peer closes, an error, or the time limit.    *)
(* A task that still waits for the upgrade gets an error.                  *)
HttpEnds(c) ==
    /\ conn[c].st \in {"http", "switching"}
    /\ SetConn(c, "closed")
    /\ ws' = [ws EXCEPT ![c] = IF @ = "waiting" THEN "failed" ELSE @]
    /\ UNCHANGED <<mode, timeout, main, tlsVars, acmeVars>>

(* The multiplexor of handle_websocket closes.  The loop has a sender of   *)
(* its own datagram channel, so that this branch stays and `else` is never *)
(* reached: the task is still there, with nothing to do.                   *)
MuxCloses(c) ==
    /\ ws[c] = "open"
    /\ ws' = [ws EXCEPT ![c] = "left"]
    /\ UNCHANGED <<mode, timeout, main, tlsVars, conn, acmeVars>>

-----------------------------------------------------------------------------

(* A remove helper is a process of its own. *)
HelperStep ==
    /\ \E f \in removing : HelperRemoves(f)
    /\ UNCHANGED <<mode, timeout, main, tlsVars, conn, ws>>

TlsStep == StartPlain \/ Bind \/ LoadCert \/ Store \/ Rotate \/ Signal \/ AcmeStarts \/ AcmeStep

ConnStep(c) ==
    \/ Accept(c) \/ Handshake(c) \/ HandshakeTimeout(c) \/ UpgradeRequested(c) \/ Upgraded(c)
    \/ HttpEnds(c) \/ MuxCloses(c)

(* When server_main returns, the runtime and all its tasks are gone. *)
Running == main # "exited"

Next == (Running /\ (TlsStep \/ \E c \in Conns : ConnStep(c))) \/ HelperStep

Spec == Init /\ [][Next]_vars

(* The tasks of the server run, and a time limit that is set fires.  Peers *)
(* and the operator may stop at any time.                                  *)
Fairness ==
    /\ WF_vars(Running /\ LoadCert) /\ WF_vars(Running /\ Store)
    /\ \A c \in Conns :
         /\ WF_vars(Running /\ HandshakeTimeout(c))
         /\ WF_vars(Running /\ Timed /\ HttpEnds(c))

FairSpec == Spec /\ Fairness

-----------------------------------------------------------------------------

(* Whatever the operator is writing while the files are read, and whatever *)
(* fails in a renewal, the server that listens with TLS has an identity of *)
(* one certificate and its key, and so has every connection.               *)
IdentityWhole ==
    LET whole(i) == i.cert = i.key /\ i.cert # 0 IN
    mode # "plain" =>
        /\ Serving => whole(identity)
        /\ \A c \in Conns : conn[c].st # "none" => whole(conn[c].identity)

(* What the operator signals comes into use, although signals are          *)
(* merged and may arrive in the middle of a reload, unless the files are   *)
(* being written again or the CA file is bad.                              *)
RotationServed ==
    \A v \in 2..MaxVersion :
        (signal /\ signalled = v)
            ~> \/ identity.cert >= v \/ main = "exited"
               \/ disk.cert # v \/ disk.key # v \/ ~disk.ca

(* With a time limit no connection stays in its handshake or its request   *)
(* for ever, and the task that waits for an upgrade gets its answer,       *)
(* unless the server exits.                                                *)
ConnectionResolved ==
    \A c \in Conns :
        (Timed /\ conn[c].st # "none")
            ~> ((conn[c].st = "closed" /\ ws[c] # "waiting") \/ ~Running)
=============================================================================
