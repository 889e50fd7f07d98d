---------------------------- MODULE ServerProofs ----------------------------
(***************************************************************************)
(* The identity of the server is whole and the challenge files are handed  *)
(* to remove helpers, for any number of connections, domains, rotations    *)
(* and renewals.                                                           *)
(*                                                                         *)
(* For the identity it must be known that a run of issue has a number      *)
(* before it can end; for the files, that the ones of the run are among    *)
(* those whose authorization was executed, and that neither a file nor a   *)
(* helper belongs to a run still to come.                                  *)
(***************************************************************************)
EXTENDS Server, TLAPS

Identity == [cert : Nat, key : Nat]
Issue ==
    [run : Nat, pc : {"idle", "order", "challenges", "ready", "wait", "certificate"}, auth : Nat,
     executed : SUBSET (Nat \X Nat), status : {"Pending", "Ready"}, count : Nat,
     result : {"none", "Ok", "OrderInvalid", "AuthInvalid", "InstantAcme", "ChallengeHelperExecution"}]

Connection == [st : {"none", "tls", "http", "switching", "closed"}, identity : Identity]

Disk ==
    [cert : Nat, key : Nat, ca : BOOLEAN,
     next : {"cert_open", "cert_close", "key_open", "key_close", "signal"}]

AcmeTypes ==
    issue \in Issue /\ files \subseteq Nat \X Nat /\ removing \subseteq Nat \X Nat

TypeOK ==
    /\ disk \in Disk
    /\ load \in [pc : {"idle", "key"}, cert : Nat]
    /\ identity \in Identity
    /\ conn \in [Conns -> Connection]
    /\ AcmeTypes

(* One certificate and its key. *)
Whole(i) == i.cert = i.key /\ i.cert # 0

IdentityInv ==
    mode # "plain" =>
        /\ Serving => Whole(identity)
        /\ \A c \in Conns : conn[c].st # "none" => Whole(conn[c].identity)

(* While issue runs it has a number and no result, the files of the run    *)
(* are of executed authorizations, none is being removed, and no file and  *)
(* no helper is of a later run.                                            *)
IssueInv ==
    /\ issue.pc # "idle" => issue.run # 0 /\ issue.result = "none"
    /\ issue.pc # "idle" => \A f \in files : f[1] = issue.run => f \in issue.executed
    /\ issue.pc # "idle" => \A f \in removing : f[1] # issue.run
    /\ \A f \in issue.executed : f[1] = issue.run
    /\ \A f \in files \cup removing : f[1] <= issue.run

IInv == TypeOK /\ IdentityInv /\ IssueInv /\ ChallengesRemoved

-----------------------------------------------------------------------------

LEMMA InitIInv == Init => IInv
<1> SUFFICES ASSUME Init PROVE IInv
  OBVIOUS
<1>1. TypeOK
  BY DEF Init, AcmeInit, NoIssue, NoIdentity, NotLoading, TypeOK, AcmeTypes, Disk, Identity, Issue, Connection
<1>2. IdentityInv
  BY DEF Init, IdentityInv, Serving
<1>3. IssueInv /\ ChallengesRemoved
  BY DEF Init, AcmeInit, NoIssue, IssueInv, ChallengesRemoved
<1> QED
  BY <1>1, <1>2, <1>3 DEF IInv

(* A return of issue past the clean-up. *)
LEMMA FailsOk ==
    ASSUME TypeOK, IssueInv, issue.pc # "idle", Fails("InstantAcme")
    PROVE  AcmeTypes' /\ IssueInv' /\ ChallengesRemoved'
<1>1. /\ issue' \in Issue /\ issue'.pc = "idle" /\ issue'.run = issue.run
      /\ issue'.result = "InstantAcme" /\ issue'.executed = issue.executed
  BY ZenonT(30) DEF Fails, Proceeds, TypeOK, AcmeTypes, Issue
<1>2. files' = files /\ removing' = removing
  BY DEF Fails, Proceeds
<1> QED
  BY <1>1, <1>2 DEF TypeOK, AcmeTypes, IssueInv, ChallengesRemoved

(* What the clean-up does to the helpers. *)
LEMMA CleanupOk ==
    ASSUME TypeOK, IssueInv, Cleanup
    PROVE  /\ removing' \subseteq Nat \X Nat
           /\ \A f \in removing' : f[1] <= issue.run
           /\ issue.executed \subseteq removing' \cup kept'
<1>1. issue \in Issue /\ removing \subseteq Nat \X Nat
  BY DEF TypeOK, AcmeTypes
<1>2. issue.run \in Nat /\ issue.executed \subseteq Nat \X Nat
  BY <1>1 DEF Issue
<1>3. PICK started \in SUBSET issue.executed :
          removing' = removing \cup started /\ kept' = issue.executed \ started
  BY DEF Cleanup
<1>4. \A f \in issue.executed : f[1] = issue.run
  BY DEF IssueInv
<1>5. \A f \in removing : f[1] <= issue.run
  BY DEF IssueInv
<1> QED
  BY <1>1, <1>2, <1>3, <1>4, <1>5

(* A return of issue after the clean-up; the file of this authorization    *)
(* may have come into being.                                               *)
LEMMA ReturnsOk ==
    ASSUME TypeOK, IssueInv, issue.pc # "idle", Cleanup,
           NEW r \in {"Ok", "OrderInvalid", "AuthInvalid", "ChallengeHelperExecution"},
           issue' = [issue EXCEPT !.pc = "idle", !.result = r],
           files' = files \/ (r = "ChallengeHelperExecution" /\ files' = files \cup {Key})
    PROVE  AcmeTypes' /\ IssueInv' /\ ChallengesRemoved'
<1>t. issue \in Issue /\ files \subseteq Nat \X Nat
  BY DEF TypeOK, AcmeTypes
<1>1. /\ issue' \in Issue /\ issue'.pc = "idle" /\ issue'.run = issue.run /\ issue'.result = r
      /\ issue'.executed = issue.executed /\ issue'.auth = issue.auth
  BY <1>t, ZenonT(30) DEF Issue
<1>k. Key' = Key /\ Key \in Nat \X Nat /\ Key[1] = issue.run /\ issue.run \in Nat
  BY <1>t, <1>1 DEF Key, Issue
<1>2. AcmeTypes'
  BY <1>t, <1>1, <1>k, CleanupOk DEF AcmeTypes
<1>3. \A f \in files' : f \in files \/ f = Key
  OBVIOUS
<1>4. IssueInv'
  <2>1. \A f \in files' \cup removing' : f[1] <= issue'.run
    BY <1>1, <1>k, <1>3, CleanupOk DEF IssueInv
  <2>2. \A f \in issue'.executed : f[1] = issue'.run
    BY <1>1 DEF IssueInv
  <2> QED
    BY <1>1, <2>1, <2>2 DEF IssueInv
<1>5. ASSUME NEW f \in files' \ (removing' \cup kept'), f[1] = issue'.run
      PROVE  issue'.result = "ChallengeHelperExecution" /\ f = Key'
  <2>1. f \notin issue.executed
    BY <1>5, CleanupOk
  <2>2. f \notin files
    BY <1>1, <1>5, <2>1 DEF IssueInv
  <2> QED
    BY <1>1, <1>5, <1>k, <2>2
<1> QED
  BY <1>1, <1>2, <1>4, <1>5 DEF ChallengesRemoved

(* A step of issue that creates no file and does not return. *)
LEMMA GoesOn ==
    ASSUME TypeOK, IssueInv, issue.pc # "idle", issue' \in Issue, issue'.pc # "idle",
           issue'.run = issue.run, issue'.result = issue.result, issue'.executed = issue.executed,
           files' = files, removing' = removing
    PROVE  AcmeTypes' /\ IssueInv' /\ ChallengesRemoved'
BY DEF TypeOK, AcmeTypes, IssueInv, ChallengesRemoved

(* The create helper of an authorization has exited. *)
LEMMA CreatedOk ==
    ASSUME TypeOK, IssueInv, issue.pc # "idle", Created
    PROVE  AcmeTypes' /\ IssueInv' /\ ChallengesRemoved'
<1>t. issue \in Issue /\ files \subseteq Nat \X Nat
  BY DEF TypeOK, AcmeTypes
<1>k. Key \in Nat \X Nat /\ Key[1] = issue.run /\ issue.run \in Nat
  BY <1>t DEF Key, Issue
<1>1. issue.executed \cup {Key} \in SUBSET (Nat \X Nat)
  BY <1>t, <1>k DEF Issue
<1>2. issue' = [issue EXCEPT !.pc = "ready", !.executed = issue.executed \cup {Key}]
  BY DEF Created
<1>3. issue' \in Issue /\ issue'.pc = "ready" /\ issue'.run = issue.run
      /\ issue'.result = issue.result /\ issue'.executed = issue.executed \cup {Key}
  BY <1>t, <1>1, <1>2, ZenonT(30) DEF Issue
<1>4. files' \subseteq files \cup {Key} /\ removing' = removing
  BY DEF Created
<1>5. AcmeTypes'
  BY <1>t, <1>k, <1>3, <1>4 DEF TypeOK, AcmeTypes
<1> QED
  BY <1>k, <1>3, <1>4, <1>5 DEF IssueInv, ChallengesRemoved

(* issue, step by step. *)
LEMMA IssueStepOk ==
    ASSUME TypeOK, IssueInv, IssueStep
    PROVE  AcmeTypes' /\ IssueInv' /\ ChallengesRemoved'
<1> DEFINE Goal == AcmeTypes' /\ IssueInv' /\ ChallengesRemoved'
<1>t. issue \in Issue
  BY DEF TypeOK, AcmeTypes
<1>0. issue.pc # "idle"
  BY DEF IssueStep, OrderPlaced, OneChallenge, ChallengeReady, ChallengesDone, OrderRefresh,
         Finalize, Certificate
<1>1. CASE OrderPlaced
  <2>1. CASE Fails("InstantAcme")
    BY <1>0, <2>1, FailsOk
  <2>2. ASSUME NEW status \in {"Pending", "Ready"},
               Proceeds([issue EXCEPT !.pc = "challenges", !.status = status])
        PROVE  Goal
    BY <1>0, <1>t, <2>2, GoesOn, ZenonT(30) DEF Proceeds, Issue
  <2> QED
    BY <1>1, <2>1, <2>2 DEF OrderPlaced
<1>2. CASE OneChallenge
  <2>1. CASE Proceeds([issue EXCEPT !.auth = @ + 1])
    BY <1>0, <1>t, <2>1, GoesOn DEF Proceeds, Issue
  <2>2. CASE Returns("AuthInvalid")
    BY <1>0, <2>2, ReturnsOk DEF Returns
  <2>3. CASE /\ issue' = [issue EXCEPT !.pc = "idle", !.result = "ChallengeHelperExecution"]
             /\ Cleanup /\ files' \in {files, files \cup {Key}}
    BY <1>0, <2>3, ReturnsOk
  <2>4. CASE Created
    BY <1>0, <2>4, CreatedOk
  <2> QED
    BY <1>2, <2>1, <2>2, <2>3, <2>4 DEF OneChallenge
<1>3. CASE ChallengeReady
  <2>1. CASE Fails("InstantAcme")
    BY <1>0, <2>1, FailsOk
  <2>2. CASE Proceeds([issue EXCEPT !.pc = "challenges", !.auth = @ + 1])
    <3> DEFINE a == [issue EXCEPT !.pc = "challenges"]
    <3>1. /\ a \in Issue /\ a.pc = "challenges"
          /\ a.run = issue.run /\ a.result = issue.result /\ a.executed = issue.executed
      BY <1>t DEF Issue
    <3>2. issue' = [a EXCEPT !.auth = @ + 1] /\ files' = files /\ removing' = removing
      BY <2>2 DEF Proceeds
    <3> HIDE DEF a
    <3>3. /\ issue' \in Issue /\ issue'.pc = "challenges"
          /\ issue'.run = issue.run /\ issue'.result = issue.result /\ issue'.executed = issue.executed
      BY <3>1, <3>2 DEF Issue
    <3> QED
      BY <1>0, <3>2, <3>3, GoesOn
  <2> QED
    BY <1>3, <2>1, <2>2 DEF ChallengeReady
<1>4. CASE ChallengesDone
  BY <1>0, <1>t, <1>4, GoesOn DEF ChallengesDone, Proceeds, Issue
<1>5. CASE OrderRefresh
  <2>1. CASE Fails("InstantAcme")
    BY <1>0, <2>1, FailsOk
  <2>2. CASE Returns("OrderInvalid")
    BY <1>0, <2>2, ReturnsOk DEF Returns
  <2>3. ASSUME NEW status \in {"Pending", "Ready"},
               Proceeds([issue EXCEPT !.status = status, !.count = @ + 1])
        PROVE  Goal
    <3> DEFINE a == [issue EXCEPT !.status = status]
    <3>1. /\ a \in Issue /\ a.pc = issue.pc
          /\ a.run = issue.run /\ a.result = issue.result /\ a.executed = issue.executed
      BY <1>t, <2>3 DEF Issue
    <3>2. issue' = [a EXCEPT !.count = @ + 1] /\ files' = files /\ removing' = removing
      BY <2>3 DEF Proceeds
    <3> HIDE DEF a
    <3>3. /\ issue' \in Issue /\ issue'.pc = issue.pc
          /\ issue'.run = issue.run /\ issue'.result = issue.result /\ issue'.executed = issue.executed
      BY <3>1, <3>2 DEF Issue
    <3> QED
      BY <1>0, <3>2, <3>3, GoesOn
  <2> QED
    BY <1>5, <2>1, <2>2, <2>3 DEF OrderRefresh
<1>6. CASE Finalize
  <2>1. CASE Fails("InstantAcme")
    BY <1>0, <2>1, FailsOk
  <2>2. CASE Proceeds([issue EXCEPT !.pc = "certificate"])
    BY <1>0, <1>t, <2>2, GoesOn DEF Proceeds, Issue
  <2> QED
    BY <1>6, <2>1, <2>2 DEF Finalize
<1>7. CASE Certificate
  BY <1>0, <1>7, ReturnsOk, FailsOk DEF Certificate, Returns
<1> QED
  BY <1>1, <1>2, <1>3, <1>4, <1>5, <1>6, <1>7 DEF IssueStep

(* Nothing but issue and the helpers touches their state and the files. *)
LEMMA AcmePart ==
    TypeOK /\ IssueInv /\ ChallengesRemoved /\ [Next]_vars
        => AcmeTypes' /\ IssueInv' /\ ChallengesRemoved'
<1> SUFFICES ASSUME TypeOK, IssueInv, ChallengesRemoved, [Next]_vars
             PROVE  AcmeTypes' /\ IssueInv' /\ ChallengesRemoved'
  OBVIOUS
<1>1. CASE AcmeStarts
  <2>0. issue.run \in Nat /\ files' = files /\ removing' = removing
    BY <1>1 DEF AcmeStarts, IssueStarts, TypeOK, AcmeTypes, Issue
  <2>1. /\ issue' \in Issue /\ issue'.run = issue.run + 1 /\ issue'.result = "none"
        /\ issue'.executed = {}
    <3>1. issue' = [run |-> issue.run + 1, pc |-> "order", auth |-> 1, executed |-> {},
                    status |-> "Pending", count |-> 0, result |-> "none"]
      BY <1>1, ZenonT(30) DEF AcmeStarts, IssueStarts, NoIssue
    <3> QED
      BY <2>0, <3>1 DEF Issue
  <2>2. \A f \in files \cup removing : f[1] \in Nat /\ f[1] <= issue.run
    BY DEF TypeOK, AcmeTypes, IssueInv
  <2>3. AcmeTypes'
    BY <2>0, <2>1 DEF TypeOK, AcmeTypes
  <2> QED
    BY <2>0, <2>1, <2>2, <2>3 DEF IssueInv, ChallengesRemoved
<1>2. CASE AcmeStep
  BY <1>2, IssueStepOk DEF AcmeStep
<1>3. CASE UNCHANGED acmeVars
  BY <1>3 DEF acmeVars, TypeOK, AcmeTypes, IssueInv, ChallengesRemoved, Key
<1>5. CASE HelperStep
  <2>1. /\ issue' = issue /\ kept' = kept
        /\ \E f \in removing : removing' = removing \ {f} /\ files' = files \ {f}
    BY <1>5 DEF HelperStep, HelperRemoves
  <2>2. Key' = Key
    BY <2>1 DEF Key
  <2> QED
    BY <2>1, <2>2 DEF TypeOK, AcmeTypes, IssueInv, ChallengesRemoved
<1>4. AcmeStarts \/ AcmeStep \/ HelperStep \/ UNCHANGED acmeVars
  BY DEF Next, TlsStep, ConnStep, StartPlain, Bind, LoadCert, Store, Rotate, Signal, Accept, Handshake,
         HandshakeTimeout, UpgradeRequested, Upgraded, HttpEnds, MuxCloses,
         HelperStep, vars
<1> QED
  BY <1>1, <1>2, <1>3, <1>4, <1>5

(* The types of the rest. *)
LEMMA ServerTypes == TypeOK /\ IssueInv /\ ChallengesRemoved /\ [Next]_vars => TypeOK'
<1> SUFFICES ASSUME TypeOK, IssueInv, ChallengesRemoved, [Next]_vars PROVE TypeOK'
  OBVIOUS
<1> DEFINE Load == [pc : {"idle", "key"}, cert : Nat]
<1>0. AcmeTypes'
  BY AcmePart
<1> USE DEF Disk
<1>t. disk \in Disk /\ load \in Load /\ identity \in Identity /\ conn \in [Conns -> Connection]
  BY DEF TypeOK
<1>1. disk' \in Disk
  <2>0. ASSUME NEW x \in Nat, NEW s \in {"cert_open", "cert_close", "key_open", "key_close", "signal"}
        PROVE  /\ [disk EXCEPT !.cert = x, !.next = s] \in Disk
               /\ [disk EXCEPT !.key = x, !.next = s] \in Disk
    <3>1. [disk EXCEPT !.cert = x] \in Disk /\ [disk EXCEPT !.key = x] \in Disk
      BY <1>t
    <3>2. ASSUME NEW d \in Disk PROVE [d EXCEPT !.next = s] \in Disk
      OBVIOUS
    <3> QED
      BY <3>1, <3>2, ZenonT(30)
  <2>1. CASE Rotate
    <3>1. disk.cert \in Nat /\ disk.key + 1 \in Nat
      BY <1>t
    <3> HIDE DEF Disk
    <3> QED
      <4>1. CASE disk' = [disk EXCEPT !.cert = 0, !.next = "cert_close"]
        BY <2>0, <4>1, ZenonT(30)
      <4>2. CASE disk' = [disk EXCEPT !.cert = disk.key + 1, !.next = "key_open"]
        BY <2>0, <3>1, <4>2, ZenonT(30)
      <4>3. CASE disk' = [disk EXCEPT !.key = 0, !.next = "key_close"]
        BY <2>0, <4>3, ZenonT(30)
      <4>4. CASE disk' = [disk EXCEPT !.key = disk.cert, !.next = "signal"]
        BY <2>0, <3>1, <4>4, ZenonT(30)
      <4>5. CASE disk' = [disk EXCEPT !.ca = ~disk.ca]
        BY <1>t, <4>5, ZenonT(30) DEF Disk
      <4> QED
        BY <2>1, <4>1, <4>2, <4>3, <4>4, <4>5 DEF Rotate
  <2>2. CASE Signal
    BY <1>t, <2>2, SMTT(30) DEF Signal
  <2>3. Rotate \/ Signal \/ UNCHANGED disk
    BY ZenonT(30) DEF Next, TlsStep, ConnStep, StartPlain, Bind, LoadCert, Store, AcmeStarts, AcmeStep, Accept,
           Handshake, HandshakeTimeout, UpgradeRequested, Upgraded, HttpEnds, MuxCloses,
           HelperStep, tlsVars, vars
  <2> QED
    BY <1>t, <2>1, <2>2, <2>3
<1>2. load' \in Load
  <2>1. CASE LoadCert
    BY <1>t, <2>1 DEF LoadCert
  <2>2. CASE Store
    BY <2>2 DEF Store, NotLoading
  <2>3. LoadCert \/ Store \/ UNCHANGED load
    BY ZenonT(30) DEF Next, TlsStep, ConnStep, StartPlain, Bind, Rotate, Signal, AcmeStarts, AcmeStep, Accept,
           Handshake, HandshakeTimeout, UpgradeRequested, Upgraded, HttpEnds, MuxCloses,
           HelperStep, tlsVars, vars
  <2> QED
    BY <1>t, <2>1, <2>2, <2>3
<1>3. identity' \in Identity
  <2>1. CASE Store
    BY <1>t, <2>1 DEF Store, Identity
  <2>2. CASE AcmeStep
    <3>1. issue.run \in Nat
      BY DEF TypeOK, AcmeTypes, Issue
    <3> QED
      BY <1>t, <2>2, <3>1 DEF AcmeStep, Identity
  <2>3. Store \/ AcmeStep \/ UNCHANGED identity
    BY ZenonT(30) DEF Next, TlsStep, ConnStep, StartPlain, Bind, LoadCert, Rotate, Signal, AcmeStarts, Accept,
           Handshake, HandshakeTimeout, UpgradeRequested, Upgraded, HttpEnds, MuxCloses,
           HelperStep, tlsVars, vars
  <2> QED
    BY <1>t, <2>1, <2>2, <2>3
<1>4. conn' \in [Conns -> Connection]
  <2>1. ASSUME NEW c \in Conns, Accept(c) PROVE conn' \in [Conns -> Connection]
    <3>1. [st |-> IF mode = "plain" THEN "http" ELSE "tls", identity |-> identity] \in Connection
      BY <1>t DEF Connection
    <3> QED
      BY <1>t, <2>1, <3>1 DEF Accept
  <2>2. ASSUME NEW c \in Conns, NEW st \in {"http", "switching", "closed"}, SetConn(c, st)
        PROVE  conn' \in [Conns -> Connection]
    <3>1. [conn[c] EXCEPT !.st = st] \in Connection
      <4>1. conn[c] \in Connection
        BY <1>t
      <4> QED
        BY <4>1 DEF Connection
    <3> QED
      BY <1>t, <2>2, <3>1 DEF SetConn
  <2>3. \/ UNCHANGED conn
        \/ \E c \in Conns : Accept(c) \/ \E st \in {"http", "switching", "closed"} : SetConn(c, st)
    BY DEF Next, TlsStep, ConnStep, StartPlain, Bind, LoadCert, Store, Rotate, Signal, AcmeStarts, AcmeStep,
           Handshake, HandshakeTimeout, UpgradeRequested, Upgraded, HttpEnds, MuxCloses,
         HelperStep, vars
  <2> QED
    BY <1>t, <2>1, <2>2, <2>3
<1> QED
  BY <1>0, <1>1, <1>2, <1>3, <1>4 DEF TypeOK


(* An identity is stored whole or not at all, and connections only take it. *)
LEMMA IdentityStep == TypeOK /\ IssueInv /\ IdentityInv /\ [Next]_vars => IdentityInv'
<1> SUFFICES ASSUME TypeOK, IssueInv, IdentityInv, [Next]_vars PROVE IdentityInv'
  OBVIOUS
<1>0. mode' = mode
  BY DEF Next, TlsStep, ConnStep, StartPlain, Bind, LoadCert, Store, Rotate, Signal, AcmeStarts, AcmeStep,
         Accept, Handshake, HandshakeTimeout, UpgradeRequested, Upgraded, HttpEnds, MuxCloses,
         HelperStep, vars
<1> SUFFICES ASSUME mode # "plain"
             PROVE  /\ Serving' => Whole(identity)'
                    /\ \A c \in Conns : conn'[c].st # "none" => Whole(conn'[c].identity)
  BY <1>0 DEF IdentityInv, Whole
<1>1. Serving' => Whole(identity)'
  <2>1. CASE Store
    <3>1. CASE load.cert # 0 /\ load.cert = disk.key /\ disk.ca
      BY <2>1, <3>1 DEF Store, Whole
    <3>2. CASE ~(load.cert # 0 /\ load.cert = disk.key /\ disk.ca)
      BY <2>1, <3>2 DEF Store, GiveUp, Serving, IdentityInv, Whole
    <3> QED
      BY <3>1, <3>2
  <2>2. CASE AcmeStep
    <3>1. issue.run # 0
      BY <2>2 DEF AcmeStep, IssueInv, IssueStep, OrderPlaced, OneChallenge, ChallengeReady, ChallengesDone,
         OrderRefresh, Finalize, Certificate
    <3>2. \/ UNCHANGED <<identity, main>>
          \/ identity' = [cert |-> issue.run, key |-> issue.run]
          \/ UNCHANGED identity /\ GiveUp
      BY <2>2 DEF AcmeStep
    <3> QED
      BY <3>1, <3>2 DEF GiveUp, Serving, IdentityInv, Whole
  <2>3. CASE UNCHANGED identity /\ (Serving' => Serving)
    BY <2>3 DEF IdentityInv, Whole
  <2>4. CASE StartPlain
    BY <2>4 DEF StartPlain
  <2>5. CASE Bind
    BY <2>5 DEF Bind, tlsVars, Serving, IdentityInv, Whole
  <2>6. Store \/ AcmeStep \/ StartPlain \/ Bind \/ UNCHANGED <<identity, main>>
    BY DEF Next, TlsStep, ConnStep, LoadCert, Rotate, Signal, AcmeStarts,
           Accept, Handshake, HandshakeTimeout, UpgradeRequested, Upgraded, HttpEnds, MuxCloses,
           HelperStep, tlsVars, vars
  <2> QED
    BY <2>1, <2>2, <2>3, <2>4, <2>5, <2>6 DEF Serving
<1>2. ASSUME NEW c \in Conns, conn'[c].st # "none" PROVE Whole(conn'[c].identity)
  <2>1. CASE UNCHANGED conn
    BY <1>2, <2>1 DEF IdentityInv
  <2>2. ASSUME NEW d \in Conns, Accept(d) PROVE Whole(conn'[c].identity)
    <3>1. CASE d = c
      BY <2>2, <3>1 DEF Accept, TypeOK, IdentityInv
    <3>2. CASE d # c
      BY <1>2, <2>2, <3>2 DEF Accept, TypeOK, IdentityInv
    <3> QED
      BY <3>1, <3>2
  <2>3. ASSUME NEW d \in Conns, NEW st, SetConn(d, st), conn[d].st # "none" PROVE Whole(conn'[c].identity)
    <3>1. conn[d] \in Connection
      BY DEF TypeOK
    <3>2. [conn[d] EXCEPT !.st = st].identity = conn[d].identity
      BY <3>1 DEF Connection
    <3>3. conn'[c] = IF c = d THEN [conn[d] EXCEPT !.st = st] ELSE conn[c]
      BY <2>3 DEF SetConn, TypeOK
    <3> QED
      BY <1>2, <2>3, <3>2, <3>3 DEF IdentityInv
  <2>4. \/ UNCHANGED conn
        \/ \E d \in Conns : Accept(d)
        \/ \E d \in Conns : conn[d].st # "none" /\ \E st \in {"http", "switching", "closed"} : SetConn(d, st)
    BY DEF Next, TlsStep, ConnStep, StartPlain, Bind, LoadCert, Store, Rotate, Signal, AcmeStarts, AcmeStep,
           Handshake, HandshakeTimeout, UpgradeRequested, Upgraded, HttpEnds, MuxCloses,
         HelperStep, vars
  <2> QED
    BY <2>1, <2>2, <2>3, <2>4
<1> QED
  BY <1>1, <1>2

-----------------------------------------------------------------------------
(* The theorems. *)

(* IInv holds in every state of every behaviour. *)
THEOREM ServerInductive == Spec => []IInv
<1>1. IInv /\ [Next]_vars => IInv'
  BY ServerTypes, AcmePart, IdentityStep, Zenon DEF IInv
<1> QED
  BY <1>1, InitIInv, PTL DEF Spec

(* Neither a reload in the middle of a rotation nor a failed renewal gives *)
(* the server or a connection a certificate without its key.               *)
THEOREM IdentityStaysWhole == Spec => []IdentityWhole
<1>1. IInv => IdentityWhole
  BY DEF IInv, IdentityInv, Whole, IdentityWhole
<1> QED
  BY <1>1, ServerInductive, PTL

(* However issue fails or succeeds at the orders, the authorizations and   *)
(* the create helpers, it has started a remove helper, or failed to, for   *)
(* every file it made, and for none before it returned.                    *)
THEOREM FilesHandedOver == Spec => []ChallengesRemoved
<1>1. IInv => ChallengesRemoved
  BY DEF IInv
<1> QED
  BY <1>1, ServerInductive, PTL

=============================================================================
