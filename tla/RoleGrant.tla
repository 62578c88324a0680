------------------------------ MODULE RoleGrant ------------------------------
(***************************************************************************)
(* Roles of the platform exist twice: as rows of mcmp_user_platform_roles  *)
(* and mcmp_group_platform_roles (holds, in RoleMaster), and as realm      *)
(* roles in Keycloak.  role_handler.go and group_role_service.go write the *)
(* row first, call Keycloak, and take the row back when Keycloak refuses.  *)
(* A call of one of these handlers has a program counter; the handlers of  *)
(* RoleMaster go on beside them and write the tables only.                 *)
(*                                                                         *)
(* Keycloak is external: a set of realm roles, who was given which, and a  *)
(* search that finds every realm role whose name contains the one wanted.  *)
(***************************************************************************)
EXTENDS RoleMaster

CONSTANTS
    Calls,        \* bound: the calls that may be in progress at once
    RealmNames,   \* the names of realm roles, those of roles and others
    Containing    \* <<n, m>>: the name n is part of the name m

ASSUME ContainingAssumption ==
    /\ Names \subseteq RealmNames
    /\ Containing \subseteq RealmNames \X RealmNames
    /\ \A n \in RealmNames : <<n, n>> \in Containing

VARIABLES
    realm,    \* the realm roles of Keycloak
    granted,  \* who was given which realm role
    call,     \* the calls in progress
    excused   \* history: the pairs the two sides may disagree on, and why is below

grantVars == <<realm, granted, call, excused>>
allVars == <<name, marked, subs, menus, cspRoles, csp, holds, members, drawn, req,
             stripped, unmarked, late, realm, granted, call, excused>>

CallSteps == {"idle", "row", "ensure", "grant", "undo", "delRow", "revoke", "redo"}
CallType == [op : {"none", "assign", "sync", "remove"}, pc : CallSteps,
             holder : Holders \cup {None}, role : Roles \cup {None},
             name : Names \cup {None}, had : BOOLEAN]
NoCall == [op |-> "none", pc |-> "idle", holder |-> None, role |-> None, name |-> None,
           had |-> FALSE]

GrantTypeOK ==
    /\ realm \subseteq RealmNames
    /\ granted \subseteq Holders \X RealmNames
    /\ call \in [Calls -> CallType]
    /\ excused \subseteq Holders \X Roles

CallAt(k, pc) == call[k].pc = pc
Pair(k) == <<call[k].holder, call[k].role>>
CallGoto(k, pc) == call' = [call EXCEPT ![k].pc = pc]
CallEnds(k) == call' = [call EXCEPT ![k] = NoCall]
OthersOn(k, pair) == \E j \in Calls \ {k} : ~CallAt(j, "idle") /\ Pair(j) = pair
Excuse(pairs) == excused' = excused \cup pairs

\* Two calls on one pair at a time answer for nothing.
CallBegins(k, op, pc, h, r) ==
    /\ CallAt(k, "idle")
    /\ call' = [call EXCEPT ![k] = [op |-> op, pc |-> pc, holder |-> h, role |-> r,
                                    name |-> name[r], had |-> <<h, r>> \in holds]]
    /\ Excuse(IF OthersOn(k, <<h, r>>) THEN {<<h, r>>} ELSE {})

(***************************************************************************)
(* The two searches of keycloak_service.go.  The exact one tells whether   *)
(* the realm role exists; the one whose first result is used asks for the  *)
(* names that contain the wanted one, so it may be another.                *)
(***************************************************************************)
IsRealmRoleAssignedToUser(u, n) == <<u, n>> \in granted
CheckRealmRoleExists(n) == n \in realm
GetRealmRoles(n) == {m \in realm : <<n, m>> \in Containing}
Mistaken(h, n, m) ==
    IF m = n THEN {} ELSE {h} \X {r \in Roles : name[r] \in {n, m}}

(***************************************************************************)
(* Assigning: the row, the realm role when it is not there, the grant.  A  *)
(* user whose row is there already is only brought in step.  The realm     *)
(* role of a group is not created: without it the grant fails.             *)
(***************************************************************************)
IsAssignedPlatformRole(h, r) == HasType(r, "platform") /\ <<h, r>> \in holds

AssignPlatformRole(k, u, r) ==
    /\ FindRoleByRoleID(r, "platform")
    /\ IF IsAssignedPlatformRole(u, r)
       THEN ~IsRealmRoleAssignedToUser(u, name[r]) /\ CallBegins(k, "sync", "ensure", u, r)
       ELSE CallBegins(k, "assign", "row", u, r)
    /\ UNCHANGED <<roleVars, realm, granted>>

AssignGroupPlatformRole(k, g, r) ==
    /\ FindRoleByRoleID(r, "platform")
    /\ CallBegins(k, "assign", "row", g, r)
    /\ UNCHANGED <<roleVars, realm, granted>>

WriteRow(k) ==
    /\ CallAt(k, "row")
    /\ FindRoleByRoleID(call[k].role, "platform") /\ Pair(k) \notin holds
    /\ holds' = holds \cup {Pair(k)}
    /\ CallGoto(k, IF call[k].holder \in Users THEN "ensure" ELSE "grant")
    /\ UNCHANGED <<name, marked, subs, mappings, members, drawn, req, history,
                   realm, granted, excused>>

CreateRealmRoleAndWait(k) ==
    /\ CallAt(k, "ensure")
    /\ realm' = IF CheckRealmRoleExists(call[k].name) THEN realm ELSE realm \cup {call[k].name}
    /\ CallGoto(k, "grant")
    /\ UNCHANGED <<roleVars, granted, excused>>

Grant(k) ==
    /\ \E m \in GetRealmRoles(call[k].name) :
         /\ granted' = granted \cup {<<call[k].holder, m>>}
         /\ Excuse(Mistaken(call[k].holder, call[k].name, m))
    /\ CallEnds(k)
    /\ UNCHANGED <<roleVars, realm>>

AssignRealmRoleToUser(k) == CallAt(k, "grant") /\ call[k].holder \in Users /\ Grant(k)
AddRealmRoleToGroup(k) == CallAt(k, "grant") /\ call[k].holder \in Groups /\ Grant(k)

\* Keycloak refuses: the row that was written is taken back, a sync ends.
AssignRefused(k) ==
    /\ call[k].pc \in {"ensure", "grant"}
    /\ IF call[k].op = "assign" THEN CallGoto(k, "undo") ELSE CallEnds(k)
    /\ UNCHANGED <<roleVars, realm, granted, excused>>

\* Keycloak does it and the answer is lost.
AssignUnanswered(k) ==
    /\ CallAt(k, "grant")
    /\ \E m \in GetRealmRoles(call[k].name) :
         /\ granted' = granted \cup {<<call[k].holder, m>>}
         /\ Excuse({Pair(k)} \cup Mistaken(call[k].holder, call[k].name, m))
    /\ IF call[k].op = "assign" THEN CallGoto(k, "undo") ELSE CallEnds(k)
    /\ UNCHANGED <<roleVars, realm>>

\* Mutant: the row stays.
UndoNothing(k) ==
    /\ CallAt(k, "undo")
    /\ CallEnds(k)
    /\ UNCHANGED <<roleVars, realm, granted, excused>>

UndoRow(k) ==
    /\ CallAt(k, "undo")
    /\ holds' = holds \ {Pair(k)}
    /\ CallEnds(k)
    /\ UNCHANGED <<name, marked, subs, mappings, members, drawn, req, history,
                   realm, granted, excused>>

(***************************************************************************)
(* Removing: the row, then the grant.  When Keycloak refuses, the row of a *)
(* user is written again, whether it was there or not; the row of a group  *)
(* is not.                                                                 *)
(***************************************************************************)
RemovePlatformRole(k, u, r) ==
    /\ FindRoleByRoleID(r, "platform")
    /\ CallBegins(k, "remove", "delRow", u, r)
    /\ UNCHANGED <<roleVars, realm, granted>>

RemoveGroupPlatformRole(k, g, r) ==
    /\ Exists(r)
    /\ CallBegins(k, "remove", "delRow", g, r)
    /\ UNCHANGED <<roleVars, realm, granted>>

DeleteRow(k) ==
    /\ CallAt(k, "delRow")
    /\ call[k].holder \in Groups => Pair(k) \in holds
    /\ holds' = holds \ {Pair(k)}
    /\ CallGoto(k, "revoke")
    /\ UNCHANGED <<name, marked, subs, mappings, members, drawn, req, history,
                   realm, granted, excused>>

Revoke(k) ==
    /\ \/ GetRealmRoles(call[k].name) = {} /\ UNCHANGED <<granted, excused>>
       \/ \E m \in GetRealmRoles(call[k].name) :
            /\ granted' = granted \ {<<call[k].holder, m>>}
            /\ Excuse(Mistaken(call[k].holder, call[k].name, m))
    /\ CallEnds(k)
    /\ UNCHANGED <<roleVars, realm>>

RemoveRealmRoleFromUser(k) == CallAt(k, "revoke") /\ call[k].holder \in Users /\ Revoke(k)
RemoveRealmRoleFromGroup(k) == CallAt(k, "revoke") /\ call[k].holder \in Groups /\ Revoke(k)

RemoveRefused(k) ==
    /\ CallAt(k, "revoke")
    /\ IF call[k].holder \in Users
       THEN CallGoto(k, "redo") /\ UNCHANGED excused
       ELSE CallEnds(k) /\ Excuse({Pair(k)})
    /\ UNCHANGED <<roleVars, realm, granted>>

RemoveUnanswered(k) ==
    /\ CallAt(k, "revoke")
    /\ \E m \in GetRealmRoles(call[k].name) :
         /\ granted' = granted \ {<<call[k].holder, m>>}
         /\ Excuse({Pair(k)} \cup Mistaken(call[k].holder, call[k].name, m))
    /\ IF call[k].holder \in Users THEN CallGoto(k, "redo") ELSE CallEnds(k)
    /\ UNCHANGED <<roleVars, realm>>

RedoRow(k) ==
    /\ CallAt(k, "redo")
    /\ IF FindRoleByRoleID(call[k].role, "platform")
       THEN /\ holds' = holds \cup {Pair(k)}
            /\ Excuse(IF call[k].had THEN {} ELSE {Pair(k)})
       ELSE UNCHANGED holds /\ Excuse({Pair(k)})
    /\ CallEnds(k)
    /\ UNCHANGED <<name, marked, subs, mappings, members, drawn, req, history, realm, granted>>

\* The process ends, or the database does not answer.
CallDies(k) ==
    /\ ~CallAt(k, "idle")
    /\ CallEnds(k)
    /\ Excuse(IF call[k].pc \in {"row", "delRow"} THEN {} ELSE {Pair(k)})
    /\ UNCHANGED <<roleVars, realm, granted>>

(***************************************************************************)
(* The handlers that write the tables only: the general assignment and     *)
(* removal, and those that rename or delete a role.                        *)
(***************************************************************************)
TablesOnly ==
    /\ RoleNext
    /\ Excuse((holds \ holds') \cup (holds' \ holds)
              \cup (Holders \X {r \in Roles : name'[r] # name[r]}))
    /\ UNCHANGED <<realm, granted, call>>

GrantInit ==
    /\ RoleInit
    /\ realm = {name[r] : r \in {s \in Roles : Exists(s)}} \cup (RealmNames \ Names)
    /\ granted = {}
    /\ call = [k \in Calls |-> NoCall]
    /\ excused = {}

UserCall(k) ==
    \E u \in Users, r \in Roles : AssignPlatformRole(k, u, r) \/ RemovePlatformRole(k, u, r)
GroupAssign(k) == \E g \in Groups, r \in Roles : AssignGroupPlatformRole(k, g, r)
GroupRemove(k) == \E g \in Groups, r \in Roles : RemoveGroupPlatformRole(k, g, r)
CallStep(k) ==
    \/ WriteRow(k) \/ CreateRealmRoleAndWait(k)
    \/ AssignRealmRoleToUser(k) \/ AddRealmRoleToGroup(k)
    \/ AssignRefused(k) \/ AssignUnanswered(k) \/ UndoRow(k)
    \/ DeleteRow(k) \/ RemoveRealmRoleFromUser(k) \/ RemoveRealmRoleFromGroup(k)
    \/ RemoveRefused(k) \/ RemoveUnanswered(k) \/ RedoRow(k)

GrantNext ==
    \/ \E k \in Calls : UserCall(k) \/ GroupAssign(k) \/ GroupRemove(k) \/ CallStep(k) \/ CallDies(k)
    \/ TablesOnly

GrantSpec == GrantInit /\ [][GrantNext]_allVars

----------------------------------------------------------------------------
(***************************************************************************)
(* When no call is under way on a holder and a role, the table and         *)
(* Keycloak agree on whether the holder has it.  Excused are the pairs on  *)
(* which two calls overlapped, a call died, an answer was lost, a group's  *)
(* removal was refused, the search named another realm role, a row was     *)
(* written again that had not been there, a table-only handler wrote the   *)
(* row, or the role was renamed: nothing else may make them disagree, the  *)
(* rollbacks of both handlers included.                                    *)
(***************************************************************************)
Quiet(h, r) == \A k \in Calls : CallAt(k, "idle") \/ Pair(k) # <<h, r>>
KeycloakAgrees ==
    \A h \in Holders, r \in Roles :
        <<h, r>> \notin excused /\ Quiet(h, r) =>
            (<<h, r>> \in holds <=> Exists(r) /\ <<h, name[r]>> \in granted)

(***************************************************************************)
(* What the rollback of RemovePlatformRole says it does: to give the role  *)
(* back.  It never gives one the user did not have when the call began.    *)
(***************************************************************************)
RollbackRestores ==
    [][\A k \in Calls : CallAt(k, "redo") /\ CallAt(k, "idle")' /\ Pair(k) \in holds' \ holds
                          => call[k].had]_allVars
=============================================================================
