------------------------- MODULE WorkspaceMembership -------------------------
(***************************************************************************)
(* Who belongs to a workspace: the rows of mcmp_user_workspace_roles, and  *)
(* the three ways to one: an administrator assigns a role                  *)
(* (role_service.go), an administrator adds the user with the default role *)
(* (workspace_service.go), or the user is invited and accepts              *)
(* (workspace_invitation_service.go).                                      *)
(*                                                                         *)
(* Handlers read the database, decide, and write in a later statement or   *)
(* transaction, and nothing is locked in between: such a handler is a      *)
(* request with a program counter, one that consists of a single statement *)
(* is one action.  Abort stands for every error that ends a request, for a *)
(* transaction that is rolled back, and for the death of the process.      *)
(***************************************************************************)
EXTENDS Naturals, FiniteSets

CONSTANTS
    Users, Workspaces,  \* those that exist at first
    Roles,              \* the role masters
    WorkspaceRoles,     \* the roles that have a sub of type "workspace"
    DefaultRole,        \* "workspace_user"
    Invitations,        \* ids of mcmp_workspace_invitations, handed out once
    Imported,           \* rows in PENDING_APPROVAL, which no handler creates
    Requests,           \* bound: the requests that may be in progress at once
    Ops,                \* bound: the operations requests may ask for
    None                \* no role, no id

AllOps == {"send", "sendUnread", "accept", "reject", "approve", "rejectByAdmin",
           "assign", "unassign", "add", "remove", "strip", "deleteUser",
           "deleteWorkspace"}

ASSUME RoleAssumption == WorkspaceRoles \subseteq Roles /\ DefaultRole \in WorkspaceRoles
ASSUME ImportedAssumption == Imported \subseteq Invitations
ASSUME NoneAssumption == None \notin Users \cup Workspaces \cup Roles \cup Invitations
ASSUME OpsAssumption == Ops \subseteq AllOps

VARIABLES
    users, workspaces,  \* the rows of mcmp_users and mcmp_workspaces
    members,            \* mcmp_user_workspace_roles
    status,             \* mcmp_workspace_invitations.status, "none" without a row
    invite,             \* user, workspace and role an invitation is for
    req,                \* the requests in progress
    verdicts,           \* history: the answers an invitation was given
    joins,              \* history: the memberships an invitation led to (2: several)
    removed             \* history: the memberships taken away again

tables == <<users, workspaces, members, status, invite>>
history == <<verdicts, joins, removed>>
vars == <<users, workspaces, members, status, invite, req, verdicts, joins, removed>>

InvitationStatus == {"PENDING", "PENDING_APPROVAL", "ACCEPTED", "REJECTED"}
Offers == Users \X Workspaces \X (Roles \cup {None})
Steps == {"idle", "checkPending", "create", "settle", "addDefault"}
RequestType == [op : AllOps \cup {"none"}, pc : Steps, inv : Invitations \cup {None},
                offer : Offers \cup {None}]

TypeOK ==
    /\ users \subseteq Users /\ workspaces \subseteq Workspaces
    /\ members \subseteq Users \X Workspaces \X Roles
    /\ status \in [Invitations -> InvitationStatus \cup {"none"}]
    /\ invite \in [Invitations -> Offers \cup {None}]
    /\ req \in [Requests -> RequestType]
    /\ verdicts \in [Invitations -> SUBSET {"ACCEPTED", "REJECTED"}]
    /\ joins \in [Invitations -> 0 .. 2]
    /\ removed \subseteq Users \X Workspaces \X Roles

\* Every user with a role of the workspace type; other rows are not seen.
GetUserRoles(u, w) == {role \in WorkspaceRoles : <<u, w, role>> \in members}
CheckUserInWorkspace(u, w) == \E role \in Roles : <<u, w, role>> \in members
HasPendingInvitation(u, w) ==
    \E i \in Invitations : status[i] = "PENDING" /\ invite[i][1] = u /\ invite[i][2] = w

Idle == [op |-> "none", pc |-> "idle", inv |-> None, offer |-> None]
Free(r, op) == req[r].pc = "idle" /\ op \in Ops
At(r, pc) == req[r].pc = pc
Begin(r, op, pc, i, offer) ==
    req' = [req EXCEPT ![r] = [op |-> op, pc |-> pc, inv |-> i, offer |-> offer]]
Goto(r, pc) == req' = [req EXCEPT ![r].pc = pc]
Finish(r) == req' = [req EXCEPT ![r] = Idle]

(***************************************************************************)
(* The statements that change the table.  Its primary key is the whole row *)
(* and its columns are foreign keys, so a second insert of the same row    *)
(* fails, and so does one for a user or a workspace that is gone.          *)
(***************************************************************************)
Creatable(row) == row \notin members /\ row[1] \in users /\ row[2] \in workspaces
\* Mutant: no primary key on the table.
CreateAgain(row) ==
    /\ row[1] \in users /\ row[2] \in workspaces
    /\ members' = members \cup {row}

CreateUserWorkspaceRole(row) == Creatable(row) /\ members' = members \cup {row}

Remove(rows) ==
    /\ members' = members \ rows
    /\ removed' = removed \cup (rows \cap members)
    /\ UNCHANGED <<users, workspaces, status, invite, req, verdicts, joins>>

(***************************************************************************)
(* Sending an invitation: the workspace and the invitee exist, the invitee *)
(* is not a member and has no open invitation to it; then the row.         *)
(***************************************************************************)
\* Mutant: the member check asks for the invited role only.
SendInvitationForRole(r, u, w, role) ==
    /\ Free(r, "send")
    /\ w \in workspaces /\ u \in users
    /\ role \notin GetUserRoles(u, w)
    /\ Begin(r, "send", "checkPending", None, <<u, w, role>>)
    /\ UNCHANGED <<tables, history>>

SendInvitation(r, u, w, role) ==
    /\ Free(r, "send")
    /\ w \in workspaces /\ u \in users
    /\ GetUserRoles(u, w) = {}
    /\ Begin(r, "send", "checkPending", None, <<u, w, role>>)
    /\ UNCHANGED <<tables, history>>

\* When the member check itself fails, its error is dropped.
SendInvitationUnread(r, u, w, role) ==
    /\ Free(r, "sendUnread")
    /\ w \in workspaces /\ u \in users
    /\ Begin(r, "send", "checkPending", None, <<u, w, role>>)
    /\ UNCHANGED <<tables, history>>

NonePending(r) ==
    /\ At(r, "checkPending")
    /\ ~HasPendingInvitation(req[r].offer[1], req[r].offer[2])
    /\ Goto(r, "create")
    /\ UNCHANGED <<tables, history>>

CreateInvitation(r) ==
    /\ At(r, "create")
    /\ \E i \in Invitations :
         /\ status[i] = "none"
         /\ status' = [status EXCEPT ![i] = "PENDING"]
         /\ invite' = [invite EXCEPT ![i] = req[r].offer]
    /\ Finish(r)
    /\ UNCHANGED <<users, workspaces, members, history>>

(***************************************************************************)
(* The answer to one.  The status is read first and written later, by id   *)
(* only; an acceptance writes the membership in the same transaction.      *)
(***************************************************************************)
\* Mutant: the invitation is only looked up.
ReadInvitationUnchecked(r, op, i, open) ==
    /\ Free(r, op)
    /\ status[i] # "none"
    /\ Begin(r, op, "settle", i, None)
    /\ UNCHANGED <<tables, history>>

ReadInvitation(r, op, i, open) ==
    /\ Free(r, op)
    /\ status[i] = open
    /\ Begin(r, op, "settle", i, None)
    /\ UNCHANGED <<tables, history>>

AcceptInvitation(r, i) == ReadInvitation(r, "accept", i, "PENDING")
RejectInvitation(r, i) == ReadInvitation(r, "reject", i, "PENDING")
ApproveInvitation(r, i) == ReadInvitation(r, "approve", i, "PENDING_APPROVAL")
RejectInvitationByAdmin(r, i) == ReadInvitation(r, "rejectByAdmin", i, "PENDING_APPROVAL")

Settle(i, verdict) ==
    /\ status' = [status EXCEPT ![i] = verdict]
    /\ verdicts' = [verdicts EXCEPT ![i] = @ \cup {verdict}]

\* Mutant: only who has no role in the workspace yet can accept.
JoinOutsider(i) ==
    IF invite[i][3] = None
    THEN UNCHANGED <<members, joins>>
    ELSE /\ ~CheckUserInWorkspace(invite[i][1], invite[i][2])
         /\ CreateUserWorkspaceRole(invite[i])
         /\ joins' = [joins EXCEPT ![i] = IF @ = 0 THEN 1 ELSE 2]

\* Without a role there is nothing to write but the status.
Join(i) ==
    IF invite[i][3] = None
    THEN UNCHANGED <<members, joins>>
    ELSE /\ CreateUserWorkspaceRole(invite[i])
         /\ joins' = [joins EXCEPT ![i] = IF @ = 0 THEN 1 ELSE 2]

CommitAccept(r) ==
    /\ At(r, "settle") /\ req[r].op \in {"accept", "approve"}
    /\ Join(req[r].inv)
    /\ Settle(req[r].inv, "ACCEPTED")
    /\ Finish(r)
    /\ UNCHANGED <<users, workspaces, invite, removed>>

UpdateStatus(r) ==
    /\ At(r, "settle") /\ req[r].op \in {"reject", "rejectByAdmin"}
    /\ Settle(req[r].inv, "REJECTED")
    /\ Finish(r)
    /\ UNCHANGED <<users, workspaces, members, invite, joins, removed>>

(***************************************************************************)
(* What administrators do.                                                 *)
(***************************************************************************)
IsWorkspaceRole(role) == role \in WorkspaceRoles

AssignWorkspaceRole(u, w, role) ==
    /\ "assign" \in Ops
    /\ IsWorkspaceRole(role)
    /\ CreateUserWorkspaceRole(<<u, w, role>>)
    /\ UNCHANGED <<users, workspaces, status, invite, req, history>>

\* FindWorkspaceByID answers nil without an error, so any workspace passes.
AddUserToWorkspace(r, u, w) ==
    /\ Free(r, "add")
    /\ u \in users
    /\ ~CheckUserInWorkspace(u, w)
    /\ Begin(r, "add", "addDefault", None, <<u, w, DefaultRole>>)
    /\ UNCHANGED <<tables, history>>

AddDefaultRole(r) ==
    /\ At(r, "addDefault")
    /\ CreateUserWorkspaceRole(req[r].offer)
    /\ Finish(r)
    /\ UNCHANGED <<users, workspaces, status, invite, history>>

RemoveWorkspaceRole(u, w, role) == "unassign" \in Ops /\ Remove({<<u, w, role>>})
RemoveUserFromWorkspace(u, w) == "remove" \in Ops /\ Remove({u} \X {w} \X Roles)
DeleteAllRoleMappings(u) == "strip" \in Ops /\ Remove({u} \X Workspaces \X Roles)

\* A foreign key refuses to delete what a membership refers to.
DeleteUser(u) ==
    /\ "deleteUser" \in Ops
    /\ \A row \in members : row[1] # u
    /\ users' = users \ {u}
    /\ UNCHANGED <<workspaces, members, status, invite, req, history>>

DeleteWorkspace(w) ==
    /\ "deleteWorkspace" \in Ops
    /\ \A row \in members : row[2] # w
    /\ workspaces' = workspaces \ {w}
    /\ UNCHANGED <<users, members, status, invite, req, history>>

Abort(r) ==
    /\ req[r].pc # "idle"
    /\ Finish(r)
    /\ UNCHANGED <<tables, history>>

(***************************************************************************)
(* The specification.                                                      *)
(***************************************************************************)
Init ==
    /\ users = Users /\ workspaces = Workspaces
    /\ members = {}
    /\ invite \in [Invitations -> Offers \cup {None}]
    /\ \A i \in Invitations : invite[i] = None <=> i \notin Imported
    /\ status = [i \in Invitations |-> IF i \in Imported THEN "PENDING_APPROVAL" ELSE "none"]
    /\ req = [r \in Requests |-> Idle]
    /\ verdicts = [i \in Invitations |-> {}]
    /\ joins = [i \in Invitations |-> 0]
    /\ removed = {}

SendStep(r) ==
    \/ \E u \in Users, w \in Workspaces, role \in Roles \cup {None} :
         SendInvitation(r, u, w, role) \/ SendInvitationUnread(r, u, w, role)
    \/ NonePending(r) \/ CreateInvitation(r)

AnswerStep(r) ==
    \/ \E i \in Invitations :
         \/ AcceptInvitation(r, i) \/ RejectInvitation(r, i)
         \/ ApproveInvitation(r, i) \/ RejectInvitationByAdmin(r, i)
    \/ CommitAccept(r) \/ UpdateStatus(r)

AdminStep ==
    \/ \E u \in Users, w \in Workspaces :
         \/ RemoveUserFromWorkspace(u, w)
         \/ \E role \in Roles : AssignWorkspaceRole(u, w, role) \/ RemoveWorkspaceRole(u, w, role)
    \/ \E u \in Users : DeleteAllRoleMappings(u) \/ DeleteUser(u)
    \/ \E w \in Workspaces : DeleteWorkspace(w)

AddStep(r) ==
    \/ \E u \in Users, w \in Workspaces : AddUserToWorkspace(r, u, w)
    \/ AddDefaultRole(r)

Next ==
    \/ \E r \in Requests : SendStep(r) \/ AnswerStep(r) \/ AddStep(r) \/ Abort(r)
    \/ AdminStep

Spec == Init /\ [][Next]_vars

\* A request goes on to its end; who is invited tries to accept again and
\* again; and failures other than those the tables force do not go on for ever.
Continue(r) == NonePending(r) \/ CreateInvitation(r) \/ CommitAccept(r) \/ UpdateStatus(r)
                 \/ AddDefaultRole(r)
NeedlessFailure == \E r \in Requests : Abort(r) /\ ~Continue(r) /\ ENABLED Continue(r)
LiveSpec ==
    /\ Spec
    /\ \A r \in Requests : WF_vars(Continue(r) \/ Abort(r))
    /\ \A i \in Invitations : SF_vars(\E r \in Requests : AcceptInvitation(r, i))
    /\ <>[][~NeedlessFailure]_vars

(***************************************************************************)
(* Safety.                                                                 *)
(***************************************************************************)
\* An invitation gives a membership once, however often it is accepted at the
\* same time, unless that membership was taken away in between: it is the
\* primary key, not the status, that stops the second acceptance.
JoinedOnce == \A i \in Invitations : joins[i] = 2 => invite[i] \in removed

\* No membership of a user or in a workspace that is gone: deletions race with
\* acceptances and assignments that checked before the deletion.
NoOrphanMembers == \A row \in members : row[1] \in users /\ row[2] \in workspaces

\* An invitation gets one verdict: accepted or rejected, never both in turn
\* (RejectInvitation: "invitation is not in PENDING state").
OneVerdict == \A i \in Invitations : verdicts[i] # {"ACCEPTED", "REJECTED"}

\* Nobody is invited to a workspace they belong to (SendInvitation: "user is
\* already a member of this workspace").
MembersAreNotInvited ==
    [][\A i \in Invitations :
          status[i] = "none" /\ status'[i] = "PENDING"
            => ~CheckUserInWorkspace(invite'[i][1], invite'[i][2])]_vars

(***************************************************************************)
(* Liveness.                                                               *)
(***************************************************************************)
Blocked(i) == invite[i] # None /\ invite[i][3] # None /\ ~Creatable(invite[i])

\* An invitation whose invitee keeps accepting is settled, unless the
\* membership is there already, or its user or workspace is not: whatever else
\* the user is a member of, and whoever else works on the workspace.
AcceptanceSettles ==
    \A i \in Invitations :
        status[i] = "PENDING" ~>
            \/ status[i] \in {"ACCEPTED", "REJECTED"}
            \/ Blocked(i)
=============================================================================
