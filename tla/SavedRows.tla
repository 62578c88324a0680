------------------------------ MODULE SavedRows ------------------------------
(***************************************************************************)
(* The rows an administrator reads, changes and saves whole: the accounts  *)
(* at the clouds, their IdP configurations and policies, the company.  No  *)
(* column tells a stale copy from a fresh one, and db.Save inserts a row   *)
(* that is gone, with the account it was read with when that is gone too.  *)
(*                                                                         *)
(* A row is its name and whether it is active; a family is the rows among  *)
(* which a name is looked for: all accounts, the IdP configurations of one *)
(* account, its policies, the companies (by realm).  A request is a record *)
(* with a program counter; its steps are the reads and the statements.     *)
(***************************************************************************)
EXTENDS Naturals, FiniteSets

CONSTANTS
    Accounts, Idps, Policies, Companies,   \* the ids the sequences will hand out
    AccountOf,      \* the account of an IdP configuration or a policy
    PolicyArn,      \* the ARN of a policy: what a synchronisation knows it by
    AttachRoles,    \* ids of CSP roles, to which policies are attached
    Labels,         \* names; realms of a company
    RowCalls        \* bound: the requests that may overlap

Children == Idps \cup Policies
RowIds == Accounts \cup Children \cup Companies
IdpsOf(a) == {i \in Idps : AccountOf[i] = a}
PoliciesOf(a) == {p \in Policies : AccountOf[p] = a}
Families == {Accounts, Companies} \cup {IdpsOf(a) : a \in Accounts}
                                  \cup {PoliciesOf(a) : a \in Accounts}

ASSUME SavedAssumption ==
    /\ RowIds \subseteq Nat \ {0}
    /\ Accounts \cap Children = {} /\ Idps \cap Policies = {}
    /\ Companies \cap (Accounts \cup Children) = {}
    /\ AccountOf \in [Children -> Accounts]
    /\ "none" \notin Labels

VARIABLES
    row,          \* the rows there are, Gone for an id without one
    drawnRows,    \* the ids the sequences have handed out
    attached,     \* mcmp_csp_role_policy_mappings
    rowCall,      \* the requests in progress
    told,         \* history: each row as the answers of the requests made it
    mingled       \* history: rows two requests worked on at once

rowVars == <<row, drawnRows, attached, rowCall, told, mingled>>

Gone == [label |-> "none", on |-> FALSE]
RowValues == [label : Labels, on : BOOLEAN] \cup {Gone}
There(x) == row[x] # Gone
Flags == {"on", "off", "keep"}
Arns == {PolicyArn[p] : p \in Policies}
NoRowCall == [pc |-> "idle", family |-> {}, id |-> 0, label |-> "none", on |-> "keep",
              seen |-> Gone, account |-> Gone, role |-> 0, arn |-> "none"]

RowTypeOK ==
    /\ row \in [RowIds -> RowValues] /\ told \in [RowIds -> RowValues]
    /\ drawnRows \subseteq RowIds
    /\ attached \subseteq AttachRoles \X Policies
    /\ mingled \subseteq RowIds
    /\ \A c \in RowCalls :
         /\ rowCall[c].pc \in {"idle", "insert", "checkName", "save", "sync", "erase", "attach"}
         /\ rowCall[c].family \in Families \cup {{}} /\ rowCall[c].id \in RowIds \cup {0}
         /\ rowCall[c].label \in Labels \cup {"none"} /\ rowCall[c].on \in Flags
         /\ rowCall[c].seen \in RowValues /\ rowCall[c].account \in RowValues
         /\ rowCall[c].role \in AttachRoles \cup {0} /\ rowCall[c].arn \in Arns \cup {"none"}
    /\ \A x \in Children : There(x) => There(AccountOf[x])
    /\ \A pair \in attached : There(pair[2])

RowAt(c, pc) == rowCall[c].pc = pc
RowGoes(c, changed) == rowCall' = [rowCall EXCEPT ![c] = changed]
RowEnds(c) == RowGoes(c, NoRowCall)

\* The rows a request may write: saving a child may insert its account again.
Touched(call) ==
    IF call.pc = "attach" THEN {}
    ELSE IF call.id \in Children THEN {call.id, AccountOf[call.id]} ELSE {call.id} \ {0}
RowTakes(c, call) ==
    /\ RowGoes(c, call)
    /\ mingled' = mingled \cup
                    (Touched(call) \cap UNION {Touched(rowCall[d]) : d \in RowCalls})
    /\ UNCHANGED <<row, drawnRows, attached, told>>
RowBegins(c, call) == RowAt(c, "idle") /\ RowTakes(c, call)

(***************************************************************************)
(* Creation: the name is looked for, the row inserted later.  Only realms  *)
(* are unique in their table.                                              *)
(***************************************************************************)
NameFree(family, label) == \A x \in family : row[x].label # label

CreateRow(c, family, label) ==
    /\ NameFree(family, label)
    /\ RowBegins(c, [NoRowCall EXCEPT !.pc = "insert", !.family = family, !.label = label])

CreateCspAccount(c, label) == CreateRow(c, Accounts, label)
CreateCspIdpConfig(c, a, label) == There(a) /\ CreateRow(c, IdpsOf(a), label)
CreateCspPolicy(c, a, label) == There(a) /\ CreateRow(c, PoliciesOf(a), label)
CreateCompany(c, realm) == CreateRow(c, Companies, realm)
CreateDefaultCompany(c, realm) ==
    (\A x \in Companies : ~There(x)) /\ CreateRow(c, Companies, realm)

InsertRow(c) ==
    LET call == rowCall[c] IN
    /\ RowAt(c, "insert")
    /\ call.family = Companies => NameFree(Companies, call.label)
    /\ \E x \in call.family \ drawnRows :
         /\ x \in Children => There(AccountOf[x])
         /\ call.arn # "none" => PolicyArn[x] = call.arn
         /\ row' = [row EXCEPT ![x] = [label |-> call.label, on |-> TRUE]]
         /\ told' = [told EXCEPT ![x] = row'[x]]
         /\ drawnRows' = drawnRows \cup {x}
    /\ RowEnds(c)
    /\ UNCHANGED <<attached, mingled>>

(***************************************************************************)
(* Change: the row is read, with the account of a child; a new name is     *)
(* looked for; every column is written.                                    *)
(***************************************************************************)
FamilyOf(x) == CHOOSE family \in Families : x \in family
Edit(x, label, on, pc) ==
    [NoRowCall EXCEPT !.pc = pc, !.id = x, !.label = label, !.on = on, !.seen = row[x],
                      !.account = IF x \in Children THEN row[AccountOf[x]] ELSE Gone]

UpdateRow(c, x, label, on) ==
    /\ There(x)
    /\ RowBegins(c, Edit(x, label, on, IF label \in {"none", row[x].label} THEN "save" ELSE "checkName"))

UpdateCspAccount(c, a, label, on) == UpdateRow(c, a, label, on)
UpdateCspIdpConfig(c, i, label, on) == UpdateRow(c, i, label, on)
UpdateCspPolicy(c, p, label) == UpdateRow(c, p, label, "keep")
ActivateCspAccount(c, a) == UpdateRow(c, a, "none", "on")
DeactivateCspAccount(c, a) == UpdateRow(c, a, "none", "off")
ActivateIdpConfig(c, i) == UpdateRow(c, i, "none", "on")
DeactivateIdpConfig(c, i) == UpdateRow(c, i, "none", "off")

\* The one company a request reaches is the first; its realm stays.
FirstCompany(x) == \A y \in Companies : There(y) => x <= y
UpdateCompany(c, x, on) == x \in Companies /\ FirstCompany(x) /\ UpdateRow(c, x, "none", on)

ExistsByName(c) ==
    /\ RowAt(c, "checkName")
    /\ NameFree(FamilyOf(rowCall[c].id), rowCall[c].label)
    /\ RowGoes(c, [rowCall[c] EXCEPT !.pc = "save"])
    /\ UNCHANGED <<row, drawnRows, attached, told, mingled>>

\* Mutant: a flag the request leaves out is taken for false (csp_account_service.go:122).
SwitchedOff(on, was) == on = "on"

Switched(on, was) == IF on = "keep" THEN was ELSE on = "on"
Named(label, was) == IF label = "none" THEN was ELSE label

Changed(call, was) ==
    [label |-> Named(call.label, was.label), on |-> Switched(call.on, was.on)]

\* An insertion takes the default for a flag that is false: the row comes back active.
Again(value) == [value EXCEPT !.on = TRUE]

SaveRow(c) ==
    LET call == rowCall[c]
        written == Changed(call, call.seen)
        back == IF call.id \in Children /\ ~There(AccountOf[call.id])
                THEN {AccountOf[call.id]} ELSE {} IN
    /\ RowAt(c, "save")
    /\ row' = [x \in RowIds |->
                 IF x = call.id THEN IF There(x) THEN written ELSE Again(written)
                 ELSE IF x \in back THEN Again(call.account) ELSE row[x]]
    /\ told' = IF told[call.id] = Gone THEN told
               ELSE [told EXCEPT ![call.id] =
                       [label |-> Named(call.label, @.label),
                        on |-> IF call.on = "keep" THEN @.on ELSE call.on = "on"]]
    /\ RowEnds(c)
    /\ UNCHANGED <<drawnRows, attached, mingled>>

(***************************************************************************)
(* What the cloud lists is saved over the first policy of that ARN, in     *)
(* whatever account, or inserted; no name is looked for.  A listing of     *)
(* several policies is that many requests.                                 *)
(***************************************************************************)
SyncPoliciesFromCloud(c, a, arn, label) ==
    /\ There(a) /\ \E i \in IdpsOf(a) : There(i) /\ row[i].on
    /\ RowBegins(c, [NoRowCall EXCEPT !.pc = "sync", !.family = PoliciesOf(a), !.arn = arn,
                                      !.label = label])

GetByArn(c) ==
    LET found == {p \in Policies : There(p) /\ PolicyArn[p] = rowCall[c].arn} IN
    /\ RowAt(c, "sync")
    /\ \/ /\ found = {}
          /\ RowTakes(c, [rowCall[c] EXCEPT !.pc = "insert"])
       \/ \E p \in found :
            /\ \A other \in found : p <= other
            /\ RowTakes(c, Edit(p, rowCall[c].label, "keep", "save"))

(***************************************************************************)
(* Deletion: the dependants are counted, then the row is deleted, which    *)
(* foreign keys still prevent.  An IdP configuration is not asked for.     *)
(***************************************************************************)
DeleteRow(c, x) == RowBegins(c, [NoRowCall EXCEPT !.pc = "erase", !.id = x])

DeleteCspAccount(c, a) ==
    /\ There(a) /\ \A x \in IdpsOf(a) \cup PoliciesOf(a) : ~There(x)
    /\ DeleteRow(c, a)
DeleteCspIdpConfig(c, i) == There(i) /\ DeleteRow(c, i)

DeleteCspPolicy(c, p) ==
    /\ There(p) /\ \A role \in AttachRoles : <<role, p>> \notin attached
    /\ DeleteRow(c, p)

EraseRow(c) ==
    LET x == rowCall[c].id IN
    /\ RowAt(c, "erase")
    /\ There(x)
    /\ x \in Accounts => \A y \in IdpsOf(x) \cup PoliciesOf(x) : ~There(y)
    /\ row' = [row EXCEPT ![x] = Gone] /\ told' = [told EXCEPT ![x] = Gone]
    /\ attached' = {pair \in attached : pair[2] # x}
    /\ RowEnds(c)
    /\ UNCHANGED <<drawnRows, mingled>>

(***************************************************************************)
(* Attaching a policy to a role.  (The rows of the roles are those of      *)
(* CspRole; here they stay.)                                               *)
(***************************************************************************)
AttachPolicyToRole(c, role, p) ==
    /\ There(p) /\ <<role, p>> \notin attached
    /\ RowBegins(c, [NoRowCall EXCEPT !.pc = "attach", !.id = p, !.role = role])

InsertAttachment(c) ==
    LET pair == <<rowCall[c].role, rowCall[c].id>> IN
    /\ RowAt(c, "attach")
    /\ There(pair[2]) /\ pair \notin attached
    /\ attached' = attached \cup {pair}
    /\ RowEnds(c)
    /\ UNCHANGED <<row, drawnRows, told, mingled>>

DetachPolicyFromRole(role, p) ==
    /\ <<role, p>> \in attached
    /\ attached' = attached \ {<<role, p>>}
    /\ UNCHANGED <<row, drawnRows, rowCall, told, mingled>>

\* An error ends the request, or the process dies.
RowCallStops(c) ==
    /\ ~RowAt(c, "idle") /\ RowEnds(c)
    /\ UNCHANGED <<row, drawnRows, attached, told, mingled>>

RowInit ==
    /\ row = [x \in RowIds |-> Gone] /\ told = row
    /\ drawnRows = {} /\ attached = {} /\ mingled = {}
    /\ rowCall = [c \in RowCalls |-> NoRowCall]

CreateRowStep(c) ==
    \/ \E label \in Labels :
         \/ CreateCspAccount(c, label) \/ CreateCompany(c, label) \/ CreateDefaultCompany(c, label)
         \/ \E a \in Accounts : CreateCspIdpConfig(c, a, label) \/ CreateCspPolicy(c, a, label)
    \/ InsertRow(c)

ChangeRowStep(c) ==
    \/ \E a \in Accounts :
         \/ \E label \in Labels \cup {"none"}, on \in Flags : UpdateCspAccount(c, a, label, on)
         \/ ActivateCspAccount(c, a) \/ DeactivateCspAccount(c, a)
    \/ \E i \in Idps :
         \/ \E label \in Labels \cup {"none"}, on \in Flags : UpdateCspIdpConfig(c, i, label, on)
         \/ ActivateIdpConfig(c, i) \/ DeactivateIdpConfig(c, i)
    \/ \E p \in Policies, label \in Labels \cup {"none"} : UpdateCspPolicy(c, p, label)
    \/ \E x \in Companies, on \in Flags : UpdateCompany(c, x, on)
    \/ \E a \in Accounts, arn \in Arns, label \in Labels : SyncPoliciesFromCloud(c, a, arn, label)
    \/ ExistsByName(c) \/ GetByArn(c) \/ SaveRow(c)

DeleteRowStep(c) ==
    \/ \E a \in Accounts : DeleteCspAccount(c, a)
    \/ \E i \in Idps : DeleteCspIdpConfig(c, i)
    \/ \E p \in Policies :
         DeleteCspPolicy(c, p) \/ \E role \in AttachRoles : AttachPolicyToRole(c, role, p)
    \/ EraseRow(c) \/ InsertAttachment(c)

RowNext ==
    \/ \E c \in RowCalls :
         CreateRowStep(c) \/ ChangeRowStep(c) \/ DeleteRowStep(c) \/ RowCallStops(c)
    \/ \E role \in AttachRoles, p \in Policies : DetachPolicyFromRole(role, p)

RowSpec == RowInit /\ [][RowNext]_rowVars

----------------------------------------------------------------------------
(***************************************************************************)
(* A row is as the answers say: switched off and deleted rows stay so, and *)
(* a name that was given stays, until two requests work on the row at the  *)
(* same time.  Then one of them may write back what the other changed, or  *)
(* bring back, switched on, what it deleted.                               *)
(***************************************************************************)
RowsAsTold == \A x \in RowIds \ mingled : row[x] = told[x]
==============================================================================
