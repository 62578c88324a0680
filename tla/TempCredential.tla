---------------------------- MODULE TempCredential ----------------------------
(***************************************************************************)
(* mcmp_temp_credentials: the credentials of AWS with which the roles of   *)
(* the cloud are made and deleted.  A request takes a row that is active   *)
(* and has not expired; without one it asks AWS, switches the others off   *)
(* and inserts the new one, in two statements.                             *)
(*                                                                         *)
(* All rows are of one provider, kind, region and issuer, as in every call *)
(* there is; nothing calls the functions that delete them.                 *)
(***************************************************************************)
EXTENDS Naturals

CONSTANTS
    CredMax,      \* bound: the rows that are ever inserted
    CredCalls     \* bound: the requests that may overlap

ASSUME CredAssumption == CredMax \in Nat

VARIABLES
    credNext,     \* the sequence of the ids: the rows are those below it
    active,       \* the rows that are not switched off
    expired,      \* the rows past their time
    credStep,     \* where each request is
    rivals        \* history: rows inserted while another request was about to

credVars == <<credNext, active, expired, credStep, rivals>>

CredRows == 1..CredMax
CredTypeOK ==
    /\ credNext \in 1..CredMax + 1
    /\ active \subseteq 1..credNext - 1 /\ expired \subseteq 1..credNext - 1
    /\ rivals \subseteq 1..credNext - 1
    /\ credStep \in [CredCalls -> {"idle", "issue", "switchOff", "insert"}]

CredAt(c, step) == credStep[c] = step
CredGoes(c, step) == credStep' = [credStep EXCEPT ![c] = step]

\* What is found is used, and nothing is written.
GetValidCredential == active \ expired

GetOrCreateValidCredential(c) ==
    /\ CredAt(c, "idle") /\ GetValidCredential = {}
    /\ CredGoes(c, "issue")
    /\ UNCHANGED <<credNext, active, expired, rivals>>

\* AWS answers with a credential; an error ends the request.
CreateNewAwsCredential(c) ==
    /\ CredAt(c, "issue") /\ CredGoes(c, "switchOff")
    /\ UNCHANGED <<credNext, active, expired, rivals>>

\* Mutant: only what is still good is switched off (temp_credential_repository.go:58).
SwitchOffGood(c) ==
    /\ CredAt(c, "switchOff")
    /\ active' = active \cap expired
    /\ CredGoes(c, "insert")
    /\ UNCHANGED <<credNext, expired, rivals>>

SwitchOff(c) ==
    /\ CredAt(c, "switchOff")
    /\ active' = {}
    /\ CredGoes(c, "insert")
    /\ UNCHANGED <<credNext, expired, rivals>>

CreateCredential(c) ==
    /\ CredAt(c, "insert") /\ credNext \in CredRows
    /\ credNext' = credNext + 1
    /\ active' = active \cup {credNext}
    /\ rivals' = IF \E d \in CredCalls \ {c} : CredAt(d, "insert")
                 THEN rivals \cup {credNext} ELSE rivals
    /\ CredGoes(c, "idle")
    /\ UNCHANGED expired

\* A failure between the two statements leaves no active row: the next request
\* asks AWS again.
CredCallStops(c) ==
    /\ ~CredAt(c, "idle") /\ CredGoes(c, "idle")
    /\ UNCHANGED <<credNext, active, expired, rivals>>

Expire(i) ==
    /\ i \in CredRows \ expired /\ i < credNext
    /\ expired' = expired \cup {i}
    /\ UNCHANGED <<credNext, active, credStep, rivals>>

CredInit ==
    /\ credNext = 1 /\ active = {} /\ expired = {} /\ rivals = {}
    /\ credStep = [c \in CredCalls |-> "idle"]

CredNext ==
    \/ \E c \in CredCalls : \/ GetOrCreateValidCredential(c) \/ CreateNewAwsCredential(c)
                            \/ SwitchOff(c) \/ CreateCredential(c) \/ CredCallStops(c)
    \/ \E i \in CredRows : Expire(i)

CredSpec == CredInit /\ [][CredNext]_credVars

----------------------------------------------------------------------------
(***************************************************************************)
(* One credential is active, expired ones counted, unless one was inserted *)
(* while another request stood between its two statements.                 *)
(***************************************************************************)
OneActive == \A i, j \in active : i = j \/ i \in rivals \/ j \in rivals
==============================================================================
