-------------------------------- MODULE Acme --------------------------------
(***************************************************************************)
(* server/acme: one run of issue, which asks an ACME server (external) for *)
(* a certificate.  For each pending authorization the challenge helper, a  *)
(* program of the operator (external), is run to create a file, and run    *)
(* again to remove it.  The creation is waited for, whatever it exits      *)
(* with.  The removal is only started: nobody waits for it, and nobody     *)
(* learns that it could not be started.                                    *)
(* A file is named <<run, authorization>>: an order has fresh tokens.      *)
(***************************************************************************)
EXTENDS Naturals, Sequences, FiniteSets

CONSTANTS
    Domains,            \* number of domains, each with an authorization
    MAX_ORDER_RETRIES

ASSUME AcmeAssumption == {Domains, MAX_ORDER_RETRIES} \subseteq Nat \ {0}

VARIABLES
    issue,     \* [run, pc, auth, executed, status, count, result]
    files,     \* the challenge files that exist
    removing,  \* files for which a remove helper was started and has not removed them
    kept       \* history: files of this run whose remove helper could not be started

acmeVars == <<issue, files, removing, kept>>

NoIssue ==
    [run |-> 0, pc |-> "idle", auth |-> 1, executed |-> {}, status |-> "Pending", count |-> 0,
     result |-> "none"]

AcmeInit == issue = NoIssue /\ files = {} /\ removing = {} /\ kept = {}

(* issue is called. *)
IssueStarts ==
    /\ issue' = [NoIssue EXCEPT !.run = issue.run + 1, !.pc = "order"]
    /\ kept' = {}
    /\ UNCHANGED <<files, removing>>

(* issue goes on, with this state and the files as they are. *)
Proceeds(state) == issue' = state /\ UNCHANGED <<files, removing, kept>>

(* A `?` returns an error past the clean-up. *)
Fails(result) == Proceeds([issue EXCEPT !.pc = "idle", !.result = result])

(* order_cleanup, and the same loop in process_challenges: for each file   *)
(* that was made, a remove helper starts or does not.                      *)
Cleanup ==
    \E started \in SUBSET issue.executed :
        /\ removing' = removing \cup started
        /\ kept' = issue.executed \ started

(* issue returns after the clean-up. *)
Returns(result) ==
    /\ issue' = [issue EXCEPT !.pc = "idle", !.result = result]
    /\ Cleanup /\ UNCHANGED files

(* A remove helper does its work (external).  One that fails is like one   *)
(* that never ends: nobody looks.                                          *)
HelperRemoves(f) ==
    /\ f \in removing
    /\ removing' = removing \ {f} /\ files' = files \ {f}
    /\ UNCHANGED <<issue, kept>>

(* account.new_order and order.authorizations; a new order may be ready. *)
OrderPlaced ==
    /\ issue.pc = "order"
    /\ \/ \E status \in {"Pending", "Ready"} :
            Proceeds([issue EXCEPT !.pc = "challenges", !.status = status])
       \/ Fails("InstantAcme")

Key == <<issue.run, issue.auth>>

(* The create helper has exited, with the file or without it. *)
Created ==
    /\ issue' = [issue EXCEPT !.pc = "ready", !.executed = @ \cup {Key}]
    /\ files' \in {files, files \cup {Key}}
    /\ UNCHANGED <<removing, kept>>

(* The files of earlier authorizations are left. *)
OneChallengeLeaves ==
    /\ issue.pc = "challenges" /\ issue.auth <= Domains
    /\ Fails("AuthInvalid") \/ Created

(* one_challenge: nothing to do for a valid authorization; no HTTP-01      *)
(* challenge or another status is an error, and so is a helper that cannot *)
(* be run, or cannot be waited for and may yet make its file.  Every error *)
(* cleans up after the authorizations so far.                              *)
OneChallenge ==
    /\ issue.pc = "challenges" /\ issue.auth <= Domains
    /\ \/ Proceeds([issue EXCEPT !.auth = @ + 1])
       \/ Returns("AuthInvalid")
       \/ /\ issue' = [issue EXCEPT !.pc = "idle", !.result = "ChallengeHelperExecution"]
          /\ Cleanup /\ files' \in {files, files \cup {Key}}
       \/ Created

(* order.set_challenge_ready; an error returns at once. *)
ChallengeReady ==
    /\ issue.pc = "ready"
    /\ \/ Proceeds([issue EXCEPT !.pc = "challenges", !.auth = @ + 1])
       \/ Fails("InstantAcme")

ChallengesDone ==
    /\ issue.pc = "challenges" /\ issue.auth > Domains
    /\ Proceeds([issue EXCEPT !.pc = "wait"])

(* A round of the loop that waits for the order to be ready.  The backoff  *)
(* is asked after every refresh, also after one that found it ready.       *)
OrderRefresh ==
    /\ issue.pc = "wait" /\ issue.status # "Ready"
    /\ \/ Fails("InstantAcme")
       \/ \E status \in {"Pending", "Ready", "Invalid"} :
            IF status = "Invalid" \/ issue.count >= MAX_ORDER_RETRIES
              THEN Returns("OrderInvalid")
              ELSE Proceeds([issue EXCEPT !.status = status, !.count = @ + 1])

(* Key generation, CSR and order.finalize *)
Finalize ==
    /\ issue.pc = "wait" /\ issue.status = "Ready"
    /\ Proceeds([issue EXCEPT !.pc = "certificate"]) \/ Fails("InstantAcme")

(* order.certificate, asked for every second until it is there. *)
Certificate ==
    /\ issue.pc = "certificate"
    /\ Returns("Ok") \/ Fails("InstantAcme")

IssueStep ==
    \/ OrderPlaced \/ OneChallenge \/ ChallengeReady \/ ChallengesDone \/ OrderRefresh
    \/ Finalize \/ Certificate

-----------------------------------------------------------------------------

(* Every file is handed to a remove helper, and none too early.  When      *)
(* issue has a certificate, finds the order or an authorization invalid,   *)
(* cannot run the helper or gives up waiting, a challenge file of the run  *)
(* that still exists is one a remove helper was started for, or could not  *)
(* be started for (challenge_helper.rs:112-115, acme/mod.rs:168-172); only *)
(* the file of a create helper that could not be waited for is forgotten.  *)
(* While issue runs, no helper removes a file of the run, which the ACME   *)
(* server may still ask for.  The errors of the other requests return past *)
(* the clean-up and are not covered.                                       *)
ChallengesRemoved ==
    /\ issue.result \in {"Ok", "OrderInvalid", "AuthInvalid", "ChallengeHelperExecution"} =>
         \A f \in files \ (removing \cup kept) :
             f[1] = issue.run => issue.result = "ChallengeHelperExecution" /\ f = Key
    /\ issue.pc # "idle" => \A f \in removing : f[1] # issue.run
=============================================================================
