---------------------- MODULE WorkspaceMembershipProofs ----------------------
(***************************************************************************)
(* For any number of users, workspaces, invitations and overlapping        *)
(* requests: the types of WorkspaceMembership, that no membership is       *)
(* orphaned, and that an invitation is not used twice.  For requests one   *)
(* at a time: one verdict on an invitation, and no member is invited.      *)
(***************************************************************************)
EXTENDS WorkspaceMembership, TLAPS

\* What a request carries at each of its steps.
CarriesInv ==
    \A r \in Requests :
        /\ req[r].pc \in {"checkPending", "create"} => req[r].offer \in Offers
        /\ req[r].pc = "addDefault" => req[r].offer \in Users \X Workspaces \X Roles
        /\ req[r].pc = "settle" =>
              req[r].inv \in Invitations /\ status[req[r].inv] # "none"

\* An invitation that is there is for somebody, and stays so.
InviteInv == \A i \in Invitations : status[i] # "none" => invite[i] \in Offers

\* A membership an invitation led to is there, or was taken away.
JoinInv ==
    \A i \in Invitations :
        /\ joins[i] # 0 => status[i] # "none" /\ invite[i] \in members \cup removed
        /\ joins[i] = 2 => invite[i] \in removed

IInv == TypeOK /\ CarriesInv /\ InviteInv /\ JoinInv /\ NoOrphanMembers

LEMMA InitIInv == Init => IInv
  BY NoneAssumption, ImportedAssumption
  DEF Init, IInv, TypeOK, CarriesInv, InviteInv, JoinInv, NoOrphanMembers, Idle,
      RequestType, Steps, InvitationStatus, Offers, AllOps

\* The request that moves on has a record of the type again.
LEMMA BeginType ==
  ASSUME NEW r \in Requests, req \in [Requests -> RequestType],
         NEW op \in AllOps, NEW pc \in Steps, NEW i \in Invitations \cup {None},
         NEW offer \in Offers \cup {None}, Begin(r, op, pc, i, offer)
  PROVE  /\ req' \in [Requests -> RequestType]
         /\ req'[r].pc = pc /\ req'[r].inv = i /\ req'[r].offer = offer
         /\ \A s \in Requests \ {r} : req'[s] = req[s]
  BY DEF Begin, RequestType

LEMMA GotoType ==
  ASSUME NEW r \in Requests, req \in [Requests -> RequestType],
         NEW pc \in Steps, Goto(r, pc)
  PROVE  /\ req' \in [Requests -> RequestType]
         /\ req'[r].pc = pc /\ req'[r].offer = req[r].offer /\ req'[r].inv = req[r].inv
         /\ \A s \in Requests \ {r} : req'[s] = req[s]
  BY DEF Goto, RequestType

LEMMA FinishType ==
  ASSUME NEW r \in Requests, req \in [Requests -> RequestType], Finish(r)
  PROVE  /\ req' \in [Requests -> RequestType]
         /\ req'[r].pc = "idle"
         /\ \A s \in Requests \ {r} : req'[s] = req[s]
  BY DEF Finish, Idle, RequestType, Steps

\* A request that only reads.
LEMMA ReadStep ==
  ASSUME IInv, NEW r \in Requests, UNCHANGED <<tables, history>>,
         req' \in [Requests -> RequestType],
         \A s \in Requests \ {r} : req'[s] = req[s],
         req'[r].pc \in {"checkPending", "create"} => req'[r].offer \in Offers,
         req'[r].pc = "addDefault" => req'[r].offer \in Users \X Workspaces \X Roles,
         req'[r].pc = "settle" =>
            req'[r].inv \in Invitations /\ status[req'[r].inv] # "none"
  PROVE  IInv'
<1> USE DEF IInv, tables, history
<1>1. TypeOK'
  BY DEF TypeOK
<1>2. CarriesInv'
  BY DEF CarriesInv
<1>3. InviteInv' /\ JoinInv' /\ NoOrphanMembers'
  BY DEF InviteInv, JoinInv, NoOrphanMembers
<1> QED  BY <1>1, <1>2, <1>3

LEMMA SendPreserves ==
  ASSUME IInv, NEW r \in Requests, SendStep(r)
  PROVE  IInv'
<1>0. req \in [Requests -> RequestType]
  BY DEF IInv, TypeOK
<1>1. ASSUME NEW u \in Users, NEW w \in Workspaces, NEW role \in Roles \cup {None},
             SendInvitation(r, u, w, role) \/ SendInvitationUnread(r, u, w, role)
      PROVE  IInv'
  <2>1. <<u, w, role>> \in Offers
    BY DEF Offers
  <2>2. /\ Begin(r, "send", "checkPending", None, <<u, w, role>>)
        /\ "send" \in AllOps /\ "checkPending" \in Steps
    BY <1>1 DEF SendInvitation, SendInvitationUnread, AllOps, Steps
  <2>3. /\ req' \in [Requests -> RequestType]
        /\ req'[r].pc = "checkPending" /\ req'[r].offer = <<u, w, role>>
        /\ \A s \in Requests \ {r} : req'[s] = req[s]
    BY <1>0, <2>1, <2>2, BeginType
  <2> QED
    BY <1>1, <2>1, <2>3, ReadStep DEF SendInvitation, SendInvitationUnread
<1>2. CASE NonePending(r)
  <2>1. /\ req' \in [Requests -> RequestType]
        /\ req'[r].pc = "create" /\ req'[r].offer = req[r].offer
        /\ \A s \in Requests \ {r} : req'[s] = req[s]
    BY <1>0, <1>2, GotoType DEF NonePending, Steps
  <2>2. req[r].offer \in Offers
    BY <1>2 DEF NonePending, At, IInv, CarriesInv
  <2> QED
    BY <1>2, <2>1, <2>2, ReadStep DEF NonePending
<1>3. CASE CreateInvitation(r)
  <2> PICK i \in Invitations :
        /\ status[i] = "none"
        /\ status' = [status EXCEPT ![i] = "PENDING"]
        /\ invite' = [invite EXCEPT ![i] = req[r].offer]
    BY <1>3 DEF CreateInvitation
  <2> UNCHANGED <<users, workspaces, members, history>>
    BY <1>3 DEF CreateInvitation
  <2>1. req[r].offer \in Offers
    BY <1>3 DEF CreateInvitation, At, IInv, CarriesInv
  <2>2. /\ req' \in [Requests -> RequestType] /\ req'[r].pc = "idle"
        /\ \A s \in Requests \ {r} : req'[s] = req[s]
    BY <1>0, <1>3, FinishType DEF CreateInvitation
  <2>3. TypeOK'
    BY <2>1, <2>2 DEF IInv, TypeOK, InvitationStatus, history
  <2>4. CarriesInv'
    BY <2>2 DEF IInv, TypeOK, CarriesInv
  <2>5. InviteInv'
    BY <2>1 DEF IInv, TypeOK, InviteInv
  <2>6. JoinInv'
    BY DEF IInv, TypeOK, JoinInv, history
  <2>7. NoOrphanMembers'
    BY DEF IInv, NoOrphanMembers
  <2> QED  BY <2>3, <2>4, <2>5, <2>6, <2>7 DEF IInv
<1> QED  BY <1>1, <1>2, <1>3 DEF SendStep

LEMMA SettleType ==
  ASSUME IInv, NEW i \in Invitations, status[i] # "none",
         NEW verdict \in {"ACCEPTED", "REJECTED"}, Settle(i, verdict)
  PROVE  /\ status' \in [Invitations -> InvitationStatus \cup {"none"}]
         /\ verdicts' \in [Invitations -> SUBSET {"ACCEPTED", "REJECTED"}]
         /\ \A j \in Invitations : status'[j] = "none" <=> status[j] = "none"
  BY DEF IInv, TypeOK, Settle, InvitationStatus

LEMMA AnswerPreserves ==
  ASSUME IInv, NEW r \in Requests, AnswerStep(r)
  PROVE  IInv'
<1>0. req \in [Requests -> RequestType]
  BY DEF IInv, TypeOK
<1>1. ASSUME NEW i \in Invitations, NEW op \in AllOps,
             NEW open \in {"PENDING", "PENDING_APPROVAL"}, ReadInvitation(r, op, i, open)
      PROVE  IInv'
  <2>1. /\ req' \in [Requests -> RequestType]
        /\ req'[r].pc = "settle" /\ req'[r].inv = i
        /\ \A s \in Requests \ {r} : req'[s] = req[s]
    <3>1. Begin(r, op, "settle", i, None) /\ "settle" \in Steps
      BY <1>1 DEF ReadInvitation, Steps
    <3> QED  BY <1>0, <3>1, BeginType
  <2>2. status[i] # "none" /\ UNCHANGED <<tables, history>>
    BY <1>1 DEF ReadInvitation
  <2> QED
    BY <2>1, <2>2, ReadStep
<1>2. CASE CommitAccept(r)
  <2> DEFINE i == req[r].inv
  <2>1. i \in Invitations /\ status[i] # "none" /\ invite[i] \in Offers
    BY <1>2 DEF CommitAccept, At, IInv, CarriesInv, InviteInv
  <2>2. /\ req' \in [Requests -> RequestType] /\ req'[r].pc = "idle"
        /\ \A s \in Requests \ {r} : req'[s] = req[s]
    BY <1>0, <1>2, FinishType DEF CommitAccept
  <2>3. /\ status' \in [Invitations -> InvitationStatus \cup {"none"}]
        /\ verdicts' \in [Invitations -> SUBSET {"ACCEPTED", "REJECTED"}]
        /\ \A j \in Invitations : status'[j] = "none" <=> status[j] = "none"
    BY <1>2, <2>1, SettleType DEF CommitAccept
  <2>4. UNCHANGED <<users, workspaces, invite, removed>> /\ Join(i)
    BY <1>2 DEF CommitAccept
  <2>5. CASE invite[i][3] = None
    <3>1. UNCHANGED <<members, joins>>
      BY <2>4, <2>5 DEF Join
    <3>2. TypeOK'
      BY <2>2, <2>3, <2>4, <3>1 DEF IInv, TypeOK
    <3>3. CarriesInv'
      BY <2>2, <2>3 DEF IInv, CarriesInv
    <3>4. InviteInv' /\ JoinInv' /\ NoOrphanMembers'
      BY <2>3, <2>4, <3>1 DEF IInv, InviteInv, JoinInv, NoOrphanMembers
    <3> QED  BY <3>2, <3>3, <3>4 DEF IInv
  <2>6. CASE invite[i][3] # None
    <3>1. /\ Creatable(invite[i])
          /\ members' = members \cup {invite[i]}
          /\ joins' = [joins EXCEPT ![i] = IF @ = 0 THEN 1 ELSE 2]
      BY <2>4, <2>6 DEF Join, CreateUserWorkspaceRole
    <3>2. invite[i] \in Users \X Workspaces \X Roles
      BY <2>1, <2>6 DEF Offers
    <3>3. TypeOK'
      BY <2>1, <2>2, <2>3, <2>4, <3>1, <3>2 DEF IInv, TypeOK
    <3>4. CarriesInv'
      BY <2>2, <2>3 DEF IInv, CarriesInv
    <3>5. InviteInv'
      BY <2>3, <2>4 DEF IInv, InviteInv
    <3>6. JoinInv'
      <4>1. joins[i] # 0 => invite[i] \in removed
        BY <2>1, <3>1 DEF IInv, JoinInv, Creatable
      <4> QED
        BY <2>1, <2>3, <2>4, <3>1, <4>1 DEF IInv, TypeOK, JoinInv
    <3>7. NoOrphanMembers'
      BY <2>4, <3>1 DEF IInv, NoOrphanMembers, Creatable
    <3> QED  BY <3>3, <3>4, <3>5, <3>6, <3>7 DEF IInv
  <2> QED  BY <2>5, <2>6
<1>3. CASE UpdateStatus(r)
  <2>1. req[r].inv \in Invitations /\ status[req[r].inv] # "none"
    BY <1>3 DEF UpdateStatus, At, IInv, CarriesInv
  <2>2. /\ req' \in [Requests -> RequestType] /\ req'[r].pc = "idle"
        /\ \A s \in Requests \ {r} : req'[s] = req[s]
    BY <1>0, <1>3, FinishType DEF UpdateStatus
  <2>3. /\ status' \in [Invitations -> InvitationStatus \cup {"none"}]
        /\ verdicts' \in [Invitations -> SUBSET {"ACCEPTED", "REJECTED"}]
        /\ \A j \in Invitations : status'[j] = "none" <=> status[j] = "none"
    BY <1>3, <2>1, SettleType DEF UpdateStatus
  <2>4. UNCHANGED <<users, workspaces, members, invite, joins, removed>>
    BY <1>3 DEF UpdateStatus
  <2>5. TypeOK'
    BY <2>2, <2>3, <2>4 DEF IInv, TypeOK
  <2>6. CarriesInv'
    BY <2>2, <2>3 DEF IInv, CarriesInv
  <2>7. InviteInv' /\ JoinInv' /\ NoOrphanMembers'
    BY <2>3, <2>4 DEF IInv, InviteInv, JoinInv, NoOrphanMembers
  <2> QED  BY <2>5, <2>6, <2>7 DEF IInv
<1> QED
  BY <1>1, <1>2, <1>3
  DEF AnswerStep, AcceptInvitation, RejectInvitation, ApproveInvitation,
      RejectInvitationByAdmin, AllOps

LEMMA RemovePreserves ==
  ASSUME IInv, NEW rows, Remove(rows)
  PROVE  IInv'
  BY DEF Remove, IInv, TypeOK, CarriesInv, InviteInv, JoinInv, NoOrphanMembers

LEMMA AdminPreserves ==
  ASSUME IInv, AdminStep
  PROVE  IInv'
<1>1. ASSUME NEW u \in Users, NEW w \in Workspaces, RemoveUserFromWorkspace(u, w)
      PROVE  IInv'
  BY <1>1, RemovePreserves DEF RemoveUserFromWorkspace
<1>2. ASSUME NEW u \in Users, NEW w \in Workspaces, NEW role \in Roles,
             AssignWorkspaceRole(u, w, role)
      PROVE  IInv'
  BY <1>2 DEF AssignWorkspaceRole, CreateUserWorkspaceRole, Creatable, history, IInv,
              TypeOK, CarriesInv, InviteInv, JoinInv, NoOrphanMembers
<1>3. ASSUME NEW u \in Users, NEW w \in Workspaces, NEW role \in Roles,
             RemoveWorkspaceRole(u, w, role)
      PROVE  IInv'
  BY <1>3, RemovePreserves DEF RemoveWorkspaceRole
<1>4. ASSUME NEW u \in Users, DeleteAllRoleMappings(u)
      PROVE  IInv'
  BY <1>4, RemovePreserves DEF DeleteAllRoleMappings
<1>5. ASSUME NEW u \in Users, DeleteUser(u)
      PROVE  IInv'
  BY <1>5 DEF DeleteUser, history, IInv, TypeOK, CarriesInv, InviteInv, JoinInv, NoOrphanMembers
<1>6. ASSUME NEW w \in Workspaces, DeleteWorkspace(w)
      PROVE  IInv'
  BY <1>6 DEF DeleteWorkspace, history, IInv, TypeOK, CarriesInv, InviteInv, JoinInv, NoOrphanMembers
<1> QED  BY <1>1, <1>2, <1>3, <1>4, <1>5, <1>6 DEF AdminStep

LEMMA AddPreserves ==
  ASSUME IInv, NEW r \in Requests, AddStep(r)
  PROVE  IInv'
<1>0. req \in [Requests -> RequestType]
  BY DEF IInv, TypeOK
<1>1. ASSUME NEW u \in Users, NEW w \in Workspaces, AddUserToWorkspace(r, u, w)
      PROVE  IInv'
  <2>1. /\ <<u, w, DefaultRole>> \in Users \X Workspaces \X Roles
        /\ <<u, w, DefaultRole>> \in Offers
    BY RoleAssumption DEF Offers
  <2>2. /\ Begin(r, "add", "addDefault", None, <<u, w, DefaultRole>>)
        /\ "add" \in AllOps /\ "addDefault" \in Steps
    BY <1>1 DEF AddUserToWorkspace, AllOps, Steps
  <2>3. /\ req' \in [Requests -> RequestType]
        /\ req'[r].pc = "addDefault" /\ req'[r].offer = <<u, w, DefaultRole>>
        /\ \A s \in Requests \ {r} : req'[s] = req[s]
    BY <1>0, <2>1, <2>2, BeginType
  <2> QED
    BY <1>1, <2>1, <2>3, ReadStep DEF AddUserToWorkspace
<1>2. CASE AddDefaultRole(r)
  <2>1. /\ req' \in [Requests -> RequestType] /\ req'[r].pc = "idle"
        /\ \A s \in Requests \ {r} : req'[s] = req[s]
    BY <1>0, <1>2, FinishType DEF AddDefaultRole
  <2>2. req[r].offer \in Users \X Workspaces \X Roles
    BY <1>2 DEF AddDefaultRole, At, IInv, CarriesInv
  <2>3. /\ Creatable(req[r].offer) /\ members' = members \cup {req[r].offer}
        /\ UNCHANGED <<users, workspaces, status, invite, history>>
    BY <1>2 DEF AddDefaultRole, CreateUserWorkspaceRole
  <2>4. TypeOK'
    BY <2>1, <2>2, <2>3 DEF IInv, TypeOK, history
  <2>5. CarriesInv'
    BY <2>1, <2>3 DEF IInv, CarriesInv
  <2>6. InviteInv' /\ JoinInv' /\ NoOrphanMembers'
    BY <2>3 DEF IInv, InviteInv, JoinInv, NoOrphanMembers, Creatable, history
  <2> QED  BY <2>4, <2>5, <2>6 DEF IInv
<1> QED  BY <1>1, <1>2 DEF AddStep

LEMMA NextIInv == IInv /\ [Next]_vars => IInv'
<1> SUFFICES ASSUME IInv, [Next]_vars PROVE IInv'
  OBVIOUS
<1>1. ASSUME NEW r \in Requests, Abort(r) PROVE IInv'
  <2>1. /\ req' \in [Requests -> RequestType] /\ req'[r].pc = "idle"
        /\ \A s \in Requests \ {r} : req'[s] = req[s]
    BY <1>1, FinishType DEF Abort, IInv, TypeOK
  <2> QED  BY <1>1, <2>1, ReadStep DEF Abort
<1>2. CASE UNCHANGED vars
  BY <1>2 DEF vars, IInv, TypeOK, CarriesInv, InviteInv, JoinInv, NoOrphanMembers
<1> QED
  BY <1>1, <1>2, SendPreserves, AnswerPreserves, AddPreserves, AdminPreserves DEF Next

THEOREM AlwaysIInv == Spec => []IInv
  BY InitIInv, NextIInv, PTL DEF Spec

\* The tables keep their types.
THEOREM MembershipTypes == Spec => []TypeOK
<1>1. IInv => TypeOK
  BY DEF IInv
<1> QED  BY <1>1, AlwaysIInv, PTL

\* However deletions, acceptances and assignments interleave, a membership
\* has its user and its workspace.
THEOREM MembershipsHaveEnds == Spec => []NoOrphanMembers
<1>1. IInv => NoOrphanMembers
  BY DEF IInv
<1> QED  BY <1>1, AlwaysIInv, PTL

\* However often an invitation is accepted at the same time, it leads to one
\* membership, unless that was taken away in between.
THEOREM InvitationUsedOnce == Spec => []JoinedOnce
<1>1. IInv => JoinedOnce
  BY DEF IInv, JoinInv, JoinedOnce
<1> QED  BY <1>1, AlwaysIInv, PTL

(***************************************************************************)
(* One verdict, when requests come one at a time: what a request has read  *)
(* of an invitation is still so when it writes.                            *)
(***************************************************************************)
Serial == \A r, s \in Requests : r = s
Open(i) == status[i] \in {"PENDING", "PENDING_APPROVAL"}
VerdictInv ==
    /\ \A i \in Invitations : status[i] = "none" \/ Open(i) => verdicts[i] = {}
    /\ \A r \in Requests : At(r, "settle") => Open(req[r].inv)
    /\ OneVerdict

LEMMA InitVerdictInv == Init => VerdictInv
  BY DEF Init, VerdictInv, Open, OneVerdict, At, Idle

\* A step that leaves the verdicts alone, and at which nobody starts to settle.
LEMMA VerdictsStay ==
  ASSUME VerdictInv, UNCHANGED <<status, verdicts>>,
         \A r \in Requests : req'[r] = req[r] \/ req'[r].pc # "settle"
  PROVE  VerdictInv'
  BY DEF VerdictInv, Open, OneVerdict, At

LEMMA SerialSend ==
  ASSUME Serial, IInv, VerdictInv, NEW r \in Requests, SendStep(r)
  PROVE  VerdictInv'
<1>0. req \in [Requests -> RequestType] /\ verdicts \in [Invitations -> SUBSET {"ACCEPTED", "REJECTED"}]
        /\ status \in [Invitations -> InvitationStatus \cup {"none"}]
  BY DEF IInv, TypeOK
<1>1. req'[r].pc # "settle" /\ verdicts' = verdicts
  BY <1>0 DEF SendStep, SendInvitation, SendInvitationUnread, NonePending, CreateInvitation,
              Begin, Goto, Finish, Idle, RequestType, history
<1>2. CASE status' = status
  BY <1>1, <1>2, VerdictsStay DEF Serial
<1>3. CASE status' # status
  <2>1. CreateInvitation(r)
    BY <1>3 DEF SendStep, SendInvitation, SendInvitationUnread, NonePending, tables
  <2>2. PICK i \in Invitations : status[i] = "none" /\ status' = [status EXCEPT ![i] = "PENDING"]
    BY <2>1 DEF CreateInvitation
  <2> QED
    BY <1>0, <1>1, <2>2 DEF VerdictInv, Open, OneVerdict, At, Serial
<1> QED
  BY <1>2, <1>3

LEMMA SerialAnswer ==
  ASSUME Serial, IInv, VerdictInv, NEW r \in Requests, AnswerStep(r)
  PROVE  VerdictInv'
<1>0. req \in [Requests -> RequestType] /\ verdicts \in [Invitations -> SUBSET {"ACCEPTED", "REJECTED"}]
        /\ status \in [Invitations -> InvitationStatus \cup {"none"}]
  BY DEF IInv, TypeOK
<1>1. ASSUME NEW i \in Invitations, NEW op \in AllOps,
             NEW open \in {"PENDING", "PENDING_APPROVAL"}, ReadInvitation(r, op, i, open)
      PROVE  VerdictInv'
  <2>1. Open(i) /\ UNCHANGED <<status, verdicts>> /\ req'[r].inv = i
    BY <1>0, <1>1 DEF ReadInvitation, Open, Begin, tables, history
  <2> QED
    BY <2>1 DEF VerdictInv, Open, OneVerdict, At, Serial
<1>2. CASE CommitAccept(r) \/ UpdateStatus(r)
  <2>1. PICK verdict \in {"ACCEPTED", "REJECTED"} : Settle(req[r].inv, verdict)
    BY <1>2 DEF CommitAccept, UpdateStatus
  <2>2. At(r, "settle") /\ Finish(r)
    BY <1>2 DEF CommitAccept, UpdateStatus
  <2>3. req[r].inv \in Invitations
    BY <2>2 DEF At, IInv, CarriesInv
  <2>4. verdicts[req[r].inv] = {}
    BY <2>2, <2>3 DEF VerdictInv
  <2>5. req'[r].pc = "idle"
    BY <1>0, <2>2 DEF Finish, Idle
  <2>6. /\ status' = [status EXCEPT ![req[r].inv] = verdict]
        /\ verdicts' = [verdicts EXCEPT ![req[r].inv] = {verdict}]
    BY <2>1, <2>4 DEF Settle
  <2> QED
    BY <1>0, <2>3, <2>5, <2>6 DEF VerdictInv, Open, OneVerdict, At, Serial
<1> QED
  BY <1>1, <1>2
  DEF AnswerStep, AcceptInvitation, RejectInvitation, ApproveInvitation,
      RejectInvitationByAdmin, AllOps

LEMMA NextVerdictInv ==
  ASSUME Serial
  PROVE  IInv /\ VerdictInv /\ [Next]_vars => VerdictInv'
<1> SUFFICES ASSUME IInv, VerdictInv, [Next]_vars PROVE VerdictInv'
  OBVIOUS
<1>0. req \in [Requests -> RequestType]
  BY DEF IInv, TypeOK
<1>1. ASSUME NEW r \in Requests, AddStep(r) \/ Abort(r) PROVE VerdictInv'
  <2>1. UNCHANGED <<status, verdicts>> /\ req'[r].pc # "settle"
    BY <1>0, <1>1 DEF AddStep, AddUserToWorkspace, AddDefaultRole, Abort, Begin, Finish, Idle,
                      tables, history
  <2> QED
    BY <2>1, VerdictsStay DEF Serial
<1>2. CASE AdminStep
  <2>1. UNCHANGED <<status, verdicts, req>>
    BY <1>2 DEF AdminStep, RemoveUserFromWorkspace, AssignWorkspaceRole, RemoveWorkspaceRole,
                DeleteAllRoleMappings, DeleteUser, DeleteWorkspace, Remove, history
  <2> QED
    BY <2>1, VerdictsStay
<1>3. CASE UNCHANGED vars
  BY <1>3, VerdictsStay DEF vars
<1> QED
  BY <1>1, <1>2, <1>3, SerialSend, SerialAnswer DEF Next

\* With requests one at a time, and any number of users, workspaces and
\* invitations, nobody's invitation is accepted and rejected.
THEOREM SerialOneVerdict == ASSUME Serial PROVE Spec => []OneVerdict
<1>1. VerdictInv => OneVerdict
  BY DEF VerdictInv
<1> QED  BY <1>1, InitVerdictInv, NextVerdictInv, AlwaysIInv, PTL DEF Spec

(***************************************************************************)
(* Who is invited is no member, when requests come one at a time, no       *)
(* administrator assigns roles in between, the member check does not fail, *)
(* and every role is one the check sees.  The run membership_serial is     *)
(* such an instance.                                                       *)
(***************************************************************************)
Undisturbed ==
    Serial /\ "assign" \notin Ops /\ "sendUnread" \notin Ops /\ Roles \subseteq WorkspaceRoles

\* An invitation on its way is for somebody who is still no member.
OutsiderInv ==
    \A r \in Requests :
        req[r].pc \in {"checkPending", "create"} =>
            ~CheckUserInWorkspace(req[r].offer[1], req[r].offer[2])

LEMMA InitOutsiderInv == Init => OutsiderInv
  BY DEF Init, OutsiderInv, Idle

\* A step that adds no membership, and at which no invitation is begun.
LEMMA OutsidersStay ==
  ASSUME OutsiderInv, members' \subseteq members,
         \A r \in Requests : req'[r].pc \in {"checkPending", "create"} =>
              req[r].pc \in {"checkPending", "create"} /\ req'[r].offer = req[r].offer
  PROVE  OutsiderInv'
  BY DEF OutsiderInv, CheckUserInWorkspace

LEMMA NextOutsiderInv ==
  ASSUME Undisturbed
  PROVE  IInv /\ OutsiderInv /\ [Next]_vars => OutsiderInv'
<1> SUFFICES ASSUME IInv, OutsiderInv, [Next]_vars PROVE OutsiderInv'
  OBVIOUS
<1>0. req \in [Requests -> RequestType]
  BY DEF IInv, TypeOK
<1>1. ASSUME NEW r \in Requests, req'[r].pc \notin {"checkPending", "create"} PROVE OutsiderInv'
  BY <1>1 DEF OutsiderInv, Undisturbed, Serial
<1>2. ASSUME NEW r \in Requests, SendStep(r) PROVE OutsiderInv'
  <2>1. ASSUME NEW u \in Users, NEW w \in Workspaces, NEW role \in Roles \cup {None},
               SendInvitation(r, u, w, role)
        PROVE  OutsiderInv'
    <3>1. req'[r].offer = <<u, w, role>> /\ UNCHANGED members
      BY <1>0, <2>1 DEF SendInvitation, Begin, tables
    <3>2. \A x \in Roles : <<u, w, x>> \notin members'
      BY <2>1, <3>1 DEF SendInvitation, GetUserRoles, Undisturbed
    <3>3. ASSUME NEW s \in Requests PROVE ~CheckUserInWorkspace(req[s].offer[1], req[s].offer[2])'
      <4>1. s = r
        BY DEF Undisturbed, Serial
      <4>2. req'[s].offer[1] = u /\ req'[s].offer[2] = w
        BY <3>1, <4>1
      <4> QED  BY <3>2, <4>2 DEF CheckUserInWorkspace
    <3> QED
      BY <3>3 DEF OutsiderInv
  <2>2. CASE NonePending(r)
    BY <1>0, <2>2, OutsidersStay DEF NonePending, At, Goto, tables, Undisturbed, Serial
  <2>3. CASE CreateInvitation(r)
    BY <1>0, <1>1, <2>3 DEF CreateInvitation, Finish, Idle
  <2> QED
    BY <1>2, <2>1, <2>2, <2>3 DEF SendStep, SendInvitationUnread, Free, Undisturbed
<1>3. ASSUME NEW r \in Requests, AnswerStep(r) PROVE OutsiderInv'
  <2>1. req'[r].pc \in {"settle", "idle"}
    BY <1>0, <1>3 DEF AnswerStep, AcceptInvitation, RejectInvitation, ApproveInvitation,
                      RejectInvitationByAdmin, ReadInvitation, CommitAccept, UpdateStatus,
                      Begin, Finish, Idle
  <2> QED  BY <1>1, <2>1
<1>4. ASSUME NEW r \in Requests, AddStep(r) \/ Abort(r) PROVE OutsiderInv'
  <2>1. req'[r].pc \in {"addDefault", "idle"}
    BY <1>0, <1>4 DEF AddStep, AddUserToWorkspace, AddDefaultRole, Abort, Begin, Finish, Idle
  <2> QED  BY <1>1, <2>1
<1>5. CASE AdminStep
  <2>1. members' \subseteq members /\ UNCHANGED req
    BY <1>5 DEF AdminStep, RemoveUserFromWorkspace, AssignWorkspaceRole, RemoveWorkspaceRole,
                DeleteAllRoleMappings, DeleteUser, DeleteWorkspace, Remove, Undisturbed
  <2> QED  BY <2>1, OutsidersStay
<1>6. CASE UNCHANGED vars
  BY <1>6, OutsidersStay DEF vars
<1> QED  BY <1>2, <1>3, <1>4, <1>5, <1>6 DEF Next

\* Only the end of a sending writes an invitation that waits for an answer.
LEMMA OnlyCreateInvites ==
  ASSUME IInv, Next, NEW i \in Invitations, status[i] = "none", status'[i] = "PENDING"
  PROVE  \E r \in Requests : CreateInvitation(r) /\ invite'[i] = req[r].offer
<1>1. ASSUME NEW r \in Requests, SendStep(r)
      PROVE  CreateInvitation(r) /\ invite'[i] = req[r].offer
  <2>1. CreateInvitation(r)
    BY <1>1 DEF SendStep, SendInvitation, SendInvitationUnread, NonePending, tables
  <2>2. PICK j \in Invitations : /\ status' = [status EXCEPT ![j] = "PENDING"]
                                 /\ invite' = [invite EXCEPT ![j] = req[r].offer]
    BY <2>1 DEF CreateInvitation
  <2>3. i = j
    BY <2>2
  <2> QED  BY <2>1, <2>2, <2>3 DEF IInv, TypeOK
<1>2. ASSUME NEW r \in Requests, AnswerStep(r) PROVE FALSE
  BY <1>2 DEF AnswerStep, AcceptInvitation, RejectInvitation, ApproveInvitation,
              RejectInvitationByAdmin, ReadInvitation, CommitAccept, UpdateStatus, Settle,
              tables, IInv, TypeOK
<1>3. ASSUME NEW r \in Requests, AddStep(r) \/ Abort(r) PROVE FALSE
  BY <1>3 DEF AddStep, AddUserToWorkspace, AddDefaultRole, Abort, tables
<1>4. ~AdminStep
  BY DEF AdminStep, RemoveUserFromWorkspace, AssignWorkspaceRole, RemoveWorkspaceRole,
         DeleteAllRoleMappings, DeleteUser, DeleteWorkspace, Remove
<1> QED  BY <1>1, <1>2, <1>3, <1>4 DEF Next

\* With requests one at a time, any call of which may fail, nobody is invited
\* to a workspace they belong to (SendInvitation checks, then inserts).
THEOREM SerialInvitesOutsiders == ASSUME Undisturbed PROVE Spec => MembersAreNotInvited
<1>1. IInv /\ OutsiderInv /\ [Next]_vars =>
        [\A i \in Invitations : status[i] = "none" /\ status'[i] = "PENDING"
            => ~CheckUserInWorkspace(invite'[i][1], invite'[i][2])]_vars
  <2> SUFFICES ASSUME IInv, OutsiderInv, Next, NEW i \in Invitations,
                      status[i] = "none", status'[i] = "PENDING"
               PROVE  ~CheckUserInWorkspace(invite'[i][1], invite'[i][2])
    OBVIOUS
  <2>1. PICK r \in Requests : CreateInvitation(r) /\ invite'[i] = req[r].offer
    BY OnlyCreateInvites
  <2> QED  BY <2>1 DEF CreateInvitation, At, OutsiderInv
<1>2. IInv /\ OutsiderInv /\ [Next]_vars => OutsiderInv'
  BY NextOutsiderInv
<1> QED  BY <1>1, <1>2, InitOutsiderInv, AlwaysIInv, PTL DEF Spec, MembersAreNotInvited
=============================================================================
