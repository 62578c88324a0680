---------------------------- MODULE UserAccount ----------------------------
(***************************************************************************)
(* The life of a user account: service/user_service.go over the two stores *)
(* it keeps in step, the table mcmp_users (repository/user_repository.go)  *)
(* and the accounts of the Keycloak realm (service/keycloak_service.go).   *)
(*                                                                         *)
(* Neither store knows of the other and no operation runs in a             *)
(* transaction: every HTTP request is a sequence of separate Keycloak      *)
(* calls and SQL statements, so a request is a record with a program       *)
(* counter and each of its calls is one action.  Requests interleave.      *)
(*                                                                         *)
(* A request may be cut short before any of its calls (Abort).  Where the  *)
(* code returns on an error, the failed call is that Abort; a call that    *)
(* took effect though its answer was lost is the call followed by Abort;   *)
(* so is the death of the process.  Errors the code handles otherwise have *)
(* an action of their own.                                                 *)
(***************************************************************************)
EXTENDS Naturals, FiniteSets

CONSTANTS
    KcIds,       \* Keycloak user ids, each handed out once
    Names,       \* usernames
    NameOf,      \* the username under which a Keycloak id is created
    Ids,         \* primary keys of mcmp_users, each handed out once
    Requests,    \* bound: the requests that may be in progress at once
    RoleKinds,   \* bound: the role-mapping tables in which grants are made
    Ops,         \* bound: the operations requests may ask for
    None         \* no id

MappingKinds == {"platform", "workspace", "organization"}

AllOps == {"create", "signup", "sync", "approve", "updateOn", "updateOff",
           "deactivate", "activate", "ask", "process", "delete", "grant", "reset"}

ASSUME NameAssumption == NameOf \in [KcIds -> Names]
ASSUME NoneAssumption == None \notin KcIds \cup Ids
ASSUME BoundAssumption == RoleKinds \subseteq MappingKinds /\ Ops \subseteq AllOps

VARIABLES
    kc,        \* Keycloak: the state of every account
    status,    \* mcmp_users.status of every row, or that there is no row
    owner,     \* mcmp_users.kc_id
    maps,      \* the kinds of role mappings a row has
    session,   \* the accounts a login gave a token to
    password,  \* the accounts that have a password
    req,       \* the requests in progress
    asked,     \* history: the rows whose owner asked to withdraw
    vetted,    \* history: the accounts an administrator wanted enabled
    welcomed   \* history: the sign-ups answered with 201 Created

stores == <<kc, status, owner, maps>>
history == <<asked, vetted, welcomed>>
vars == <<kc, status, owner, maps, session, password, req, asked, vetted, welcomed>>

UserStatus == {"ACTIVE", "INACTIVE", "WITHDRAWAL_REQUESTED", "WITHDRAWN"}
Statuses == UserStatus \cup {"unborn", "deleted"}
Logins == {"unused", "disabled", "enabled", "deleted"}
Steps == {"idle", "password", "undo", "insert", "rollback", "find", "fetch",
          "syncInsert", "setEnabled", "deleteKc", "platform", "workspace",
          "organization", "deleteRow", "setStatus"}

RequestType == [op : AllOps \cup {"none"}, pc : Steps,
                id : Ids \cup {None}, kc : KcIds \cup {None}]

TypeOK ==
    /\ kc \in [KcIds -> Logins]
    /\ status \in [Ids -> Statuses]
    /\ owner \in [Ids -> KcIds \cup {None}]
    /\ maps \in [Ids -> SUBSET MappingKinds]
    /\ session \subseteq KcIds
    /\ password \subseteq KcIds
    /\ req \in [Requests -> RequestType]
    /\ asked \subseteq Ids
    /\ vetted \subseteq KcIds
    /\ welcomed \subseteq KcIds

Idle == [op |-> "none", pc |-> "idle", id |-> None, kc |-> None]

Live(i) == status[i] \in UserStatus
Present(k) == kc[k] \in {"disabled", "enabled"}
HasRow(k) == \E i \in Ids : Live(i) /\ owner[i] = k

(***************************************************************************)
(* The steps of a request.                                                 *)
(***************************************************************************)
Begin(r, op, pc, i, k) ==
    req' = [req EXCEPT ![r] = [op |-> op, pc |-> pc, id |-> i, kc |-> k]]
Goto(r, pc) == req' = [req EXCEPT ![r].pc = pc]
Finish(r) == req' = [req EXCEPT ![r] = Idle]

Free(r, op) == req[r].pc = "idle" /\ op \in Ops
At(r, pc) == req[r].pc = pc

\* Keycloak refuses a username that another account of the realm has.
KcCreate(k, login) ==
    /\ kc[k] = "unused"
    /\ \A k2 \in KcIds : Present(k2) => NameOf[k2] # NameOf[k]
    /\ kc' = [kc EXCEPT ![k] = login]

\* Mutant: only kc_id is unique.
InsertableUnlessSynced(k) == \A i \in Ids : Live(i) => owner[i] # k

\* Mutant: a deleted row keeps its kc_id and username.
InsertableOnce(k) ==
    \A i \in Ids : status[i] # "unborn" => owner[i] # k /\ NameOf[owner[i]] # NameOf[k]

\* kc_id and username are unique columns of mcmp_users.
Insertable(k) == \A i \in Ids : Live(i) => owner[i] # k /\ NameOf[owner[i]] # NameOf[k]

\* UserRepository.Create leaves the status to the column's default.
Insert(k) ==
    /\ Insertable(k)
    /\ \E i \in Ids :
         /\ status[i] = "unborn"
         /\ status' = [status EXCEPT ![i] = "ACTIVE"]
         /\ owner' = [owner EXCEPT ![i] = k]

(***************************************************************************)
(* Administrator creates a user: Keycloak first, then the row; if the row  *)
(* cannot be created the Keycloak account is deleted again.                *)
(***************************************************************************)
CreateUser(r, k) ==
    /\ Free(r, "create")
    /\ KcCreate(k, "enabled")
    /\ vetted' = vetted \cup {k}
    /\ Begin(r, "create", "insert", None, k)
    /\ UNCHANGED <<status, owner, maps, session, password, asked, welcomed>>

\* When the answer to the insert is lost, the row is there all the same.
InsertCreated(r) ==
    /\ At(r, "insert")
    /\ Insert(req[r].kc)
    /\ Finish(r) \/ Goto(r, "rollback")
    /\ UNCHANGED <<kc, maps, session, password, asked, vetted, welcomed>>

InsertCreatedFails(r) ==
    /\ At(r, "insert")
    /\ Goto(r, "rollback")
    /\ UNCHANGED <<stores, session, password, history>>

RollbackCreate(r) ==
    /\ At(r, "rollback")
    /\ kc' = [kc EXCEPT ![req[r].kc] = "deleted"]
    /\ Finish(r)
    /\ UNCHANGED <<status, owner, maps, session, password, history>>

(***************************************************************************)
(* Self sign-up: a disabled Keycloak account, its password, then SyncUser. *)
(* A failed password deletes the account again (its error is ignored); a   *)
(* failed SyncUser is only logged, the visitor is told 201 all the same.   *)
(***************************************************************************)
\* Mutant: the account is enabled from the start.
SignupUserEnabled(r, k) ==
    /\ Free(r, "signup")
    /\ KcCreate(k, "enabled")
    /\ Begin(r, "signup", "password", None, k)
    /\ UNCHANGED <<status, owner, maps, session, password, history>>

SignupUser(r, k) ==
    /\ Free(r, "signup")
    /\ KcCreate(k, "disabled")
    /\ Begin(r, "signup", "password", None, k)
    /\ UNCHANGED <<status, owner, maps, session, password, history>>

SetPassword(r) ==
    /\ At(r, "password")
    /\ password' = password \cup {req[r].kc}
    /\ Goto(r, "find")
    /\ UNCHANGED <<stores, session, history>>

SetPasswordFails(r) ==
    /\ At(r, "password")
    /\ password' \in {password, password \cup {req[r].kc}}
    /\ Goto(r, "undo")
    /\ UNCHANGED <<stores, session, history>>

UndoSignup(r) ==
    /\ At(r, "undo")
    /\ kc' = [kc EXCEPT ![req[r].kc] = "deleted"]
    /\ Finish(r)
    /\ UNCHANGED <<status, owner, maps, session, password, history>>

\* The password of an account created by an administrator comes from a reset,
\* which finds the account by its row.
ResetUserPassword(r, i) ==
    /\ Free(r, "reset")
    /\ Live(i)
    /\ Present(owner[i])
    /\ password' = password \cup {owner[i]}
    /\ UNCHANGED <<stores, session, req, history>>

(***************************************************************************)
(* SyncUser, entered from a login (the account must be enabled), from      *)
(* GetUserIDByKcID under a token, from a sign-up and from an approval.     *)
(***************************************************************************)
EndSync(r) ==
    /\ welcomed' = IF req[r].op = "signup" THEN welcomed \cup {req[r].kc} ELSE welcomed
    /\ Finish(r)

Login(r, k) ==
    /\ Free(r, "sync")
    /\ kc[k] = "enabled"
    /\ k \in password
    /\ session' = session \cup {k}
    /\ Begin(r, "sync", "find", None, k)
    /\ UNCHANGED <<stores, password, history>>

GetUserIDByKcID(r, k) ==
    /\ Free(r, "sync")
    /\ k \in session
    /\ ~HasRow(k)
    /\ Begin(r, "sync", "find", None, k)
    /\ UNCHANGED <<stores, session, password, history>>

SyncFind(r) ==
    /\ At(r, "find")
    /\ IF HasRow(req[r].kc) THEN EndSync(r) ELSE Goto(r, "fetch") /\ UNCHANGED welcomed
    /\ UNCHANGED <<stores, session, password, asked, vetted>>

SyncFetch(r) ==
    /\ At(r, "fetch")
    /\ IF Present(req[r].kc) THEN Goto(r, "syncInsert") /\ UNCHANGED welcomed ELSE EndSync(r)
    /\ UNCHANGED <<stores, session, password, asked, vetted>>

SyncInsert(r) ==
    /\ At(r, "syncInsert")
    /\ Insert(req[r].kc)
    /\ EndSync(r)
    /\ UNCHANGED <<kc, maps, session, password, asked, vetted>>

SyncFails(r) ==
    /\ req[r].pc \in {"find", "fetch", "syncInsert"}
    /\ EndSync(r)
    /\ UNCHANGED <<stores, session, password, asked, vetted>>

(***************************************************************************)
(* Administrator operations on a row: the row is read when the request     *)
(* begins and its guards are judged by what was read then.                 *)
(***************************************************************************)
ApproveUser(r, i) ==
    /\ Free(r, "approve")
    /\ Live(i)
    /\ vetted' = vetted \cup {owner[i]}
    /\ Begin(r, "approve", "setEnabled", i, owner[i])
    /\ UNCHANGED <<stores, session, password, asked, welcomed>>

\* The flag "enabled" of the request body is sent to Keycloak as it is.
UpdateUser(r, i, op) ==
    /\ op \in {"updateOn", "updateOff"}
    /\ Free(r, op)
    /\ Live(i)
    /\ vetted' = IF op = "updateOn" THEN vetted \cup {owner[i]} ELSE vetted
    /\ Begin(r, op, "setEnabled", i, owner[i])
    /\ UNCHANGED <<stores, session, password, asked, welcomed>>

DeactivateUser(r, i, requestor) ==
    /\ Free(r, "deactivate")
    /\ requestor \in session
    /\ Live(i)
    /\ owner[i] # requestor
    /\ status[i] # "INACTIVE"
    /\ Begin(r, "deactivate", "setEnabled", i, owner[i])
    /\ UNCHANGED <<stores, session, password, history>>

ActivateUser(r, i) ==
    /\ Free(r, "activate")
    /\ status[i] = "INACTIVE"
    /\ vetted' = vetted \cup {owner[i]}
    /\ Begin(r, "activate", "setEnabled", i, owner[i])
    /\ UNCHANGED <<stores, session, password, asked, welcomed>>

RequestWithdrawal(r, i) ==
    /\ Free(r, "ask")
    /\ owner[i] \in session
    /\ status[i] = "ACTIVE"
    /\ asked' = asked \cup {i}
    /\ Begin(r, "ask", "setStatus", i, owner[i])
    /\ UNCHANGED <<stores, session, password, vetted, welcomed>>

\* Mutant: the guard on the status is missing.
ProcessWithdrawalOfAny(r, i) ==
    /\ Free(r, "process")
    /\ Live(i)
    /\ Begin(r, "process", "platform", i, owner[i])
    /\ UNCHANGED <<stores, session, password, history>>

ProcessWithdrawal(r, i) ==
    /\ Free(r, "process")
    /\ status[i] = "WITHDRAWAL_REQUESTED"
    /\ Begin(r, "process", "platform", i, owner[i])
    /\ UNCHANGED <<stores, session, password, history>>

DeleteUser(r, i) ==
    /\ Free(r, "delete")
    /\ Live(i)
    /\ Begin(r, "delete", "deleteKc", i, owner[i])
    /\ UNCHANGED <<stores, session, password, history>>

\* A role or an organization is given to a user, whatever the user's status;
\* the foreign key asks for the row.
GrantRole(r, i, kind) ==
    /\ Free(r, "grant")
    /\ kind \in RoleKinds
    /\ Live(i)
    /\ maps' = [maps EXCEPT ![i] = @ \cup {kind}]
    /\ UNCHANGED <<kc, status, owner, session, password, req, history>>

(***************************************************************************)
(* The calls those operations go on with.                                  *)
(***************************************************************************)
EnablingOps == {"approve", "activate", "updateOn"}

AfterSetEnabled(op) ==
    CASE op \in {"updateOn", "updateOff"} -> "idle"
      [] op = "approve" -> "find"
      [] OTHER -> "setStatus"

LoginFor(op) == IF op \in EnablingOps THEN "enabled" ELSE "disabled"

\* Mutant: an account that is already in the wanted state is refused.
SetEnabledOnce(r) ==
    /\ At(r, "setEnabled")
    /\ Present(req[r].kc)
    /\ kc[req[r].kc] # LoginFor(req[r].op)
    /\ kc' = [kc EXCEPT ![req[r].kc] = LoginFor(req[r].op)]
    /\ IF AfterSetEnabled(req[r].op) = "idle" THEN Finish(r)
       ELSE Goto(r, AfterSetEnabled(req[r].op))
    /\ UNCHANGED <<status, owner, maps, session, password, history>>

\* EnableUser and DisableUser look the account up first: one that is gone is
\* an error, which is an Abort.  For UpdateUser the last call is the update of
\* the profile columns of the row, which are not modelled.
SetEnabled(r) ==
    /\ At(r, "setEnabled")
    /\ Present(req[r].kc)
    /\ kc' = [kc EXCEPT ![req[r].kc] = LoginFor(req[r].op)]
    /\ IF AfterSetEnabled(req[r].op) = "idle" THEN Finish(r)
       ELSE Goto(r, AfterSetEnabled(req[r].op))
    /\ UNCHANGED <<status, owner, maps, session, password, history>>

\* Mutant: the withdrawal forgets to shut the login.
AfterStripForgetful(op, kind) ==
    CASE kind = "platform" -> "workspace"
      [] kind = "workspace" -> "organization"
      [] kind = "organization" -> IF op = "process" THEN "setStatus" ELSE "deleteRow"

AfterStrip(op, kind) ==
    CASE kind = "platform" -> "workspace"
      [] kind = "workspace" -> "organization"
      [] kind = "organization" -> IF op = "process" THEN "setEnabled" ELSE "deleteRow"

\* DeleteAllRoleMappings: three statements, no transaction.
DeleteRoleMappings(r, kind) ==
    /\ kind \in MappingKinds
    /\ At(r, kind)
    /\ maps' = [maps EXCEPT ![req[r].id] = @ \ {kind}]
    /\ Goto(r, AfterStrip(req[r].op, kind))
    /\ UNCHANGED <<kc, status, owner, session, password, history>>

\* Mutant: a status the model of the table does not have.
StatusForMisspelt(op) ==
    CASE op = "deactivate" -> "INACTIVE"
      [] op = "activate" -> "ACTIVE"
      [] op = "ask" -> "WITHDRAW_REQUESTED"
      [] op = "process" -> "WITHDRAWN"

StatusFor(op) ==
    CASE op = "deactivate" -> "INACTIVE"
      [] op = "activate" -> "ACTIVE"
      [] op = "ask" -> "WITHDRAWAL_REQUESTED"
      [] op = "process" -> "WITHDRAWN"

\* UpdateStatus writes by id alone and takes a missing row for success.
UpdateStatus(r) ==
    /\ At(r, "setStatus")
    /\ status' = IF Live(req[r].id)
                 THEN [status EXCEPT ![req[r].id] = StatusFor(req[r].op)] ELSE status
    /\ Finish(r)
    /\ UNCHANGED <<kc, owner, maps, session, password, history>>

\* The Keycloak account is deleted, or was gone already.
DeleteFromKeycloak(r) ==
    /\ At(r, "deleteKc")
    /\ kc' = [kc EXCEPT ![req[r].kc] = "deleted"]
    /\ Goto(r, "platform")
    /\ UNCHANGED <<status, owner, maps, session, password, history>>

\* An error of Keycloak is logged and the deletion goes on.
DeleteFromKeycloakFails(r) ==
    /\ At(r, "deleteKc")
    /\ Goto(r, "platform")
    /\ UNCHANGED <<stores, session, password, history>>

\* Mutant: no foreign key.
DeleteRowUnchecked(r) ==
    /\ At(r, "deleteRow")
    /\ Live(req[r].id)
    /\ status' = [status EXCEPT ![req[r].id] = "deleted"]
    /\ Finish(r)
    /\ UNCHANGED <<kc, owner, maps, session, password, history>>

\* The foreign keys of the mapping tables refuse while a mapping is left.
DeleteRow(r) ==
    /\ At(r, "deleteRow")
    /\ Live(req[r].id)
    /\ maps[req[r].id] = {}
    /\ status' = [status EXCEPT ![req[r].id] = "deleted"]
    /\ Finish(r)
    /\ UNCHANGED <<kc, owner, maps, session, password, history>>

Abort(r) ==
    /\ ~At(r, "idle")
    /\ Finish(r)
    /\ UNCHANGED <<stores, session, password, history>>

(***************************************************************************)
(* The specification.                                                      *)
(***************************************************************************)
Init ==
    /\ kc = [k \in KcIds |-> "unused"]
    /\ status = [i \in Ids |-> "unborn"]
    /\ owner = [i \in Ids |-> None]
    /\ maps = [i \in Ids |-> {}]
    /\ session = {}
    /\ password = {}
    /\ req = [r \in Requests |-> Idle]
    /\ asked = {}
    /\ vetted = {}
    /\ welcomed = {}

Start(r) ==
    \/ \E k \in KcIds : CreateUser(r, k) \/ SignupUser(r, k) \/ Login(r, k)
                        \/ GetUserIDByKcID(r, k)
    \/ \E i \in Ids :
         \/ ApproveUser(r, i) \/ ActivateUser(r, i) \/ RequestWithdrawal(r, i)
         \/ ProcessWithdrawal(r, i) \/ DeleteUser(r, i) \/ ResetUserPassword(r, i)
         \/ \E op \in {"updateOn", "updateOff"} : UpdateUser(r, i, op)
         \/ \E k \in KcIds : DeactivateUser(r, i, k)
         \/ \E kind \in RoleKinds : GrantRole(r, i, kind)

Continue(r) ==
    \/ InsertCreated(r) \/ RollbackCreate(r) \/ SetPassword(r) \/ UndoSignup(r)
    \/ SyncFind(r) \/ SyncFetch(r) \/ SyncInsert(r)
    \/ SetEnabled(r) \/ UpdateStatus(r) \/ DeleteFromKeycloak(r) \/ DeleteRow(r)
    \/ \E kind \in MappingKinds : DeleteRoleMappings(r, kind)

Fail(r) ==
    \/ InsertCreatedFails(r) \/ SetPasswordFails(r) \/ SyncFails(r)
    \/ DeleteFromKeycloakFails(r) \/ Abort(r)

Next == \E r \in Requests : Start(r) \/ Continue(r) \/ Fail(r)

Spec == Init /\ [][Next]_vars

(***************************************************************************)
(* Safety.                                                                 *)
(***************************************************************************)

\* No administrator can withdraw an account whose owner never asked for it,
\* however the requests on it interleave (RequestWithdrawal, ProcessWithdrawal).
WithdrawnOnlyIfAsked == \A i \in Ids : status[i] = "WITHDRAWN" => i \in asked

\* Self sign-up opens no door: an account that can log in was created by an
\* administrator, or one approved, activated or enabled it (CreatePendingUser,
\* ApproveUser).
EnabledOnlyIfVetted == \A k \in KcIds : kc[k] = "enabled" => k \in vetted

\* Concurrent first logins, sign-ups and lookups of one account end with one
\* row for it, and no two rows share a username (SyncUser's find, then create).
OneRowPerUser ==
    \A i, j \in Ids : Live(i) /\ Live(j) /\ NameOf[owner[i]] = NameOf[owner[j]] => i = j

\* A role mapping never outlives its row: what is granted while DeleteUser runs
\* keeps the row (DeleteAllRoleMappings, Delete).
NoOrphanMappings == \A i \in Ids : maps[i] # {} => Live(i)

\* Requests one at a time, any call of which may fail: a status never runs
\* ahead of the login it stands for (the order of the calls in DeactivateUser,
\* ActivateUser, ProcessWithdrawal and DeleteUser).
Lifecycle == INSTANCE AccountLifecycle WITH login <- kc
ImplementsLifecycle == Lifecycle!Spec

(***************************************************************************)
(* Liveness.  A request ends, answered or cut short; an administrator      *)
(* retries a withdrawal and a user a login; from some time on no call      *)
(* fails that could succeed (whatever outage there was is over).           *)
(***************************************************************************)
NeedlessFailure(r) == Fail(r) /\ ~Continue(r) /\ ENABLED Continue(r)

FairSpec ==
    /\ Spec
    /\ \A r \in Requests : WF_vars(Continue(r) \/ Fail(r))
    /\ \A i \in Ids : SF_vars(\E r \in Requests : ProcessWithdrawal(r, i))
    /\ \A k \in KcIds : SF_vars(\E r \in Requests : Login(r, k))
    /\ <>[][\A r \in Requests : ~NeedlessFailure(r)]_vars

\* A withdrawal that failed half way, its mappings already deleted, is carried
\* through by a later attempt, unless the account itself is deleted meanwhile
\* (ProcessWithdrawal keeps the status till the end).
WithdrawalCompletes ==
    \A i \in Ids : status[i] = "WITHDRAWAL_REQUESTED" ~>
                   status[i] # "WITHDRAWAL_REQUESTED" \/ ~Present(owner[i])

IdsLeft == \E i \in Ids : status[i] = "unborn"

\* An account that can log in gets a row from one of its logins, also the one a
\* failed deletion left in Keycloak when its row was gone (SyncUser, DeleteUser).
LoginGivesRow ==
    \A k \in KcIds :
        <>[](kc[k] = "enabled" /\ k \in password /\ IdsLeft) => []<>HasRow(k)

(***************************************************************************)
(* What the documentation says and the code does not keep.                 *)
(***************************************************************************)

\* user_handler.go, SignupUser: whoever is told "You can login after admin
\* approval" has a row an administrator can approve.
WelcomedCanBeApproved == \A k \in welcomed : kc[k] = "disabled" => HasRow(k)
============================================================================
