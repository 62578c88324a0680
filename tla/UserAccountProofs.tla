------------------------- MODULE UserAccountProofs -------------------------
(***************************************************************************)
(* The safety properties of UserAccount, proved for any number of users,   *)
(* rows and overlapping requests.                                          *)
(*                                                                         *)
(* None of them is inductive alone.  RequestsOK says which step a request  *)
(* of each operation can be at, which is what makes its next call write a  *)
(* legal value to a row that exists; AskedInv and VettedInv extend a       *)
(* property of the stores to the requests that are about to write them.    *)
(*                                                                         *)
(* And the refinement: requests that do not overlap implement              *)
(* AccountLifecycle.                                                       *)
(***************************************************************************)
EXTENDS UserAccount, TLAPS

RowOps == {"approve", "updateOn", "updateOff", "deactivate", "activate", "ask",
           "process", "delete"}

StepsOf(op) ==
    CASE op = "none" -> {"idle"}
      [] op = "create" -> {"insert", "rollback"}
      [] op = "signup" -> {"password", "undo", "find", "fetch", "syncInsert"}
      [] op = "sync" -> {"find", "fetch", "syncInsert"}
      [] op = "approve" -> {"setEnabled", "find", "fetch", "syncInsert"}
      [] op \in {"updateOn", "updateOff"} -> {"setEnabled"}
      [] op \in {"deactivate", "activate"} -> {"setEnabled", "setStatus"}
      [] op = "ask" -> {"setStatus"}
      [] op = "process" -> {"platform", "workspace", "organization", "setEnabled", "setStatus"}
      [] op = "delete" -> {"deleteKc", "platform", "workspace", "organization", "deleteRow"}
      [] op \in {"grant", "reset"} -> {}

RequestsOK ==
    /\ req \in [Requests -> RequestType]
    /\ \A r \in Requests :
         /\ req[r].pc \in StepsOf(req[r].op)
         /\ req[r].op # "none" => req[r].kc \in KcIds
         /\ req[r].op \in RowOps => req[r].id \in Ids

StoresOK ==
    /\ kc \in [KcIds -> Logins]
    /\ status \in [Ids -> Statuses]
    /\ owner \in [Ids -> KcIds \cup {None}]
    /\ maps \in [Ids -> SUBSET MappingKinds]
    /\ session \subseteq KcIds /\ password \subseteq KcIds /\ asked \subseteq Ids
    /\ vetted \subseteq KcIds /\ welcomed \subseteq KcIds
    /\ \A i \in Ids : status[i] \in UserStatus => owner[i] \in KcIds

IInv == RequestsOK /\ StoresOK

AskedInv ==
    /\ \A i \in Ids : status[i] \in {"WITHDRAWAL_REQUESTED", "WITHDRAWN"} => i \in asked
    /\ \A r \in Requests : req[r].op \in {"ask", "process"} => req[r].id \in asked

VettedInv ==
    /\ EnabledOnlyIfVetted
    /\ \A r \in Requests : req[r].op \in EnablingOps => req[r].kc \in vetted

(***************************************************************************)
(* What the three shapes of a step leave of the requests.                  *)
(***************************************************************************)
LEMMA BeginStep ==
    ASSUME RequestsOK,
           NEW r \in Requests, NEW op \in AllOps, NEW pc \in Steps \cap StepsOf(op),
           NEW i \in Ids \cup {None}, NEW k \in KcIds,
           op \in RowOps => i \in Ids,
           Begin(r, op, pc, i, k)
    PROVE  /\ RequestsOK'
           /\ req'[r] = [op |-> op, pc |-> pc, id |-> i, kc |-> k]
           /\ \A q \in Requests : q # r => req'[q] = req[q]
  BY DEF Begin, RequestsOK, RequestType

LEMMA GotoStep ==
    ASSUME RequestsOK, NEW r \in Requests, NEW pc \in Steps \cap StepsOf(req[r].op),
           Goto(r, pc)
    PROVE  /\ RequestsOK'
           /\ req'[r].op = req[r].op /\ req'[r].id = req[r].id /\ req'[r].kc = req[r].kc
           /\ \A q \in Requests : q # r => req'[q] = req[q]
<1>1. req' \in [Requests -> RequestType]
  BY DEF Goto, RequestsOK, RequestType
<1>2. /\ req'[r].op = req[r].op /\ req'[r].id = req[r].id /\ req'[r].kc = req[r].kc
      /\ req'[r].pc = pc
  BY DEF Goto, RequestsOK, RequestType
<1>3. \A q \in Requests : q # r => req'[q] = req[q]
  BY DEF Goto, RequestsOK, RequestType
<1>4. QED
  BY <1>1, <1>2, <1>3 DEF RequestsOK

LEMMA FinishStep ==
    ASSUME RequestsOK, NEW r \in Requests, Finish(r)
    PROVE  /\ RequestsOK'
           /\ req'[r].op = "none"
           /\ \A q \in Requests : q # r => req'[q] = req[q]
<1>1. Idle \in RequestType /\ Idle.pc \in StepsOf("none") /\ Idle.op = "none"
  BY DEF Idle, RequestType, Steps, StepsOf
<1>2. req' = [req EXCEPT ![r] = Idle]
  BY DEF Finish
<1>3. QED
  BY <1>1, <1>2 DEF RequestsOK, RowOps

(***************************************************************************)
(* The operations that can be at a given step.                             *)
(***************************************************************************)
LEMMA OpsAt ==
    ASSUME RequestsOK, NEW r \in Requests
    PROVE  /\ At(r, "insert") => req[r].op = "create"
           /\ At(r, "password") => req[r].op = "signup"
           /\ At(r, "deleteKc") => req[r].op = "delete"
           /\ At(r, "deleteRow") => req[r].op = "delete"
           /\ req[r].pc \in MappingKinds => req[r].op \in {"process", "delete"}
           /\ req[r].pc \in {"find", "fetch", "syncInsert"} => req[r].op \in {"signup", "sync", "approve"}
           /\ At(r, "setEnabled") => req[r].op \in {"approve", "updateOn", "updateOff",
                                                  "deactivate", "activate", "process"}
           /\ At(r, "setStatus") => req[r].op \in {"deactivate", "activate", "ask", "process"}
           /\ ~At(r, "idle") => req[r].op # "none" /\ req[r].kc \in KcIds
<1>1. req[r].op \in AllOps \cup {"none"}
  BY DEF RequestsOK, RequestType
<1>2. QED
  BY <1>1 DEF RequestsOK, StepsOf, At, AllOps, MappingKinds

(***************************************************************************)
(* IInv is inductive: one step per action, one part under it per half.        *)
(***************************************************************************)
LEMMA IInvInit == Init => IInv
<1> SUFFICES ASSUME Init PROVE IInv
  OBVIOUS
<1>1. Idle \in RequestType /\ Idle.pc \in StepsOf("none") /\ Idle.op = "none"
  BY DEF Idle, RequestType, Steps, StepsOf
<1>2. RequestsOK
  BY <1>1 DEF Init, RequestsOK, RowOps
<1>3. StoresOK
  BY DEF Init, StoresOK, Statuses, UserStatus, Logins
<1>4. QED
  BY <1>2, <1>3 DEF IInv

LEMMA IInvNext == IInv /\ [Next]_vars => IInv'
<1> SUFFICES ASSUME IInv, [Next]_vars PROVE IInv'
  OBVIOUS
<1> USE DEF IInv
<1>0. CASE UNCHANGED vars
  BY <1>0 DEF vars, RequestsOK, StoresOK
<1>1. ASSUME NEW r \in Requests, NEW k \in KcIds, CreateUser(r, k) PROVE IInv'
  <2>1. RequestsOK'
    BY <1>1, BeginStep DEF CreateUser, Free, StepsOf, RowOps, AllOps, Steps, StoresOK, Live
  <2>2. StoresOK'
    BY <1>1 DEF CreateUser, KcCreate, StoresOK, Logins
  <2>3. QED
    BY <2>1, <2>2
<1>2. ASSUME NEW r \in Requests, NEW k \in KcIds, SignupUser(r, k) PROVE IInv'
  <2>1. RequestsOK'
    BY <1>2, BeginStep DEF SignupUser, Free, StepsOf, RowOps, AllOps, Steps, StoresOK, Live
  <2>2. StoresOK'
    BY <1>2 DEF SignupUser, KcCreate, StoresOK, Logins, history
  <2>3. QED
    BY <2>1, <2>2
<1>3. ASSUME NEW r \in Requests, NEW k \in KcIds, Login(r, k) PROVE IInv'
  <2>1. RequestsOK'
    BY <1>3, BeginStep DEF Login, Free, StepsOf, RowOps, AllOps, Steps, StoresOK, Live
  <2>2. StoresOK'
    BY <1>3 DEF Login, StoresOK, stores, history
  <2>3. QED
    BY <2>1, <2>2
<1>4. ASSUME NEW r \in Requests, NEW k \in KcIds, GetUserIDByKcID(r, k) PROVE IInv'
  <2>1. RequestsOK'
    BY <1>4, BeginStep DEF GetUserIDByKcID, Free, StepsOf, RowOps, AllOps, Steps, StoresOK, Live
  <2>2. StoresOK'
    BY <1>4 DEF GetUserIDByKcID, StoresOK, stores, history
  <2>3. QED
    BY <2>1, <2>2
<1>5. ASSUME NEW r \in Requests, NEW i \in Ids, ApproveUser(r, i) PROVE IInv'
  <2>1. RequestsOK'
    BY <1>5, BeginStep DEF ApproveUser, Free, StepsOf, RowOps, AllOps, Steps, StoresOK, Live
  <2>2. StoresOK'
    BY <1>5 DEF ApproveUser, StoresOK, stores, Live
  <2>3. QED
    BY <2>1, <2>2
<1>6. ASSUME NEW r \in Requests, NEW i \in Ids, ActivateUser(r, i) PROVE IInv'
  <2>1. RequestsOK'
    BY <1>6, BeginStep DEF ActivateUser, Free, StepsOf, RowOps, AllOps, Steps, StoresOK, Live, UserStatus
  <2>2. StoresOK'
    BY <1>6 DEF ActivateUser, StoresOK, stores, UserStatus
  <2>3. QED
    BY <2>1, <2>2
<1>7. ASSUME NEW r \in Requests, NEW i \in Ids, RequestWithdrawal(r, i) PROVE IInv'
  <2>1. RequestsOK'
    BY <1>7, BeginStep DEF RequestWithdrawal, Free, StepsOf, RowOps, AllOps, Steps, StoresOK, Live, UserStatus
  <2>2. StoresOK'
    BY <1>7 DEF RequestWithdrawal, StoresOK, stores
  <2>3. QED
    BY <2>1, <2>2
<1>8. ASSUME NEW r \in Requests, NEW i \in Ids, ProcessWithdrawal(r, i) PROVE IInv'
  <2>1. RequestsOK'
    BY <1>8, BeginStep DEF ProcessWithdrawal, Free, StepsOf, RowOps, AllOps, Steps, StoresOK, Live, UserStatus
  <2>2. StoresOK'
    BY <1>8 DEF ProcessWithdrawal, StoresOK, stores, history
  <2>3. QED
    BY <2>1, <2>2
<1>9. ASSUME NEW r \in Requests, NEW i \in Ids, DeleteUser(r, i) PROVE IInv'
  <2>1. RequestsOK'
    BY <1>9, BeginStep DEF DeleteUser, Free, StepsOf, RowOps, AllOps, Steps, StoresOK, Live
  <2>2. StoresOK'
    BY <1>9 DEF DeleteUser, StoresOK, stores, history
  <2>3. QED
    BY <2>1, <2>2
<1>10. ASSUME NEW r \in Requests, NEW i \in Ids, NEW op \in {"updateOn", "updateOff"}, UpdateUser(r, i, op) PROVE IInv'
  <2>1. RequestsOK'
    BY <1>10, BeginStep DEF UpdateUser, Free, StepsOf, RowOps, AllOps, Steps, StoresOK, Live
  <2>2. StoresOK'
    BY <1>10 DEF UpdateUser, StoresOK, stores, Live
  <2>3. QED
    BY <2>1, <2>2
<1>11. ASSUME NEW r \in Requests, NEW i \in Ids, NEW k \in KcIds, DeactivateUser(r, i, k) PROVE IInv'
  <2>1. RequestsOK'
    BY <1>11, BeginStep DEF DeactivateUser, Free, StepsOf, RowOps, AllOps, Steps, StoresOK, Live
  <2>2. StoresOK'
    BY <1>11 DEF DeactivateUser, StoresOK, stores, history
  <2>3. QED
    BY <2>1, <2>2
<1>12. ASSUME NEW r \in Requests, NEW i \in Ids, NEW kind \in RoleKinds, GrantRole(r, i, kind) PROVE IInv'
  <2>1. RequestsOK'
    BY <1>12 DEF GrantRole, RequestsOK
  <2>2. StoresOK'
    BY <1>12, BoundAssumption DEF GrantRole, StoresOK, history
  <2>3. QED
    BY <2>1, <2>2
<1>13. ASSUME NEW r \in Requests, InsertCreated(r) PROVE IInv'
  <2>1. RequestsOK'
    BY <1>13, OpsAt, FinishStep, GotoStep DEF InsertCreated, StepsOf, Steps
  <2>2. StoresOK'
    BY <1>13, OpsAt DEF InsertCreated, Insert, StoresOK, At, Statuses, UserStatus
  <2>3. QED
    BY <2>1, <2>2
<1>14. ASSUME NEW r \in Requests, RollbackCreate(r) PROVE IInv'
  <2>1. RequestsOK'
    BY <1>14, FinishStep DEF RollbackCreate
  <2>2. StoresOK'
    BY <1>14, OpsAt DEF RollbackCreate, StoresOK, At, Logins, history
  <2>3. QED
    BY <2>1, <2>2
<1>15. ASSUME NEW r \in Requests, SetPassword(r) PROVE IInv'
  <2>1. RequestsOK'
    BY <1>15, OpsAt, GotoStep DEF SetPassword, StepsOf, Steps
  <2>2. StoresOK'
    BY <1>15, OpsAt DEF SetPassword, StoresOK, At, stores, history
  <2>3. QED
    BY <2>1, <2>2
<1>16. ASSUME NEW r \in Requests, UndoSignup(r) PROVE IInv'
  <2>1. RequestsOK'
    BY <1>16, FinishStep DEF UndoSignup
  <2>2. StoresOK'
    BY <1>16, OpsAt DEF UndoSignup, StoresOK, At, Logins, history
  <2>3. QED
    BY <2>1, <2>2
<1>17. ASSUME NEW r \in Requests, SyncFind(r) PROVE IInv'
  <2>1. RequestsOK'
    BY <1>17, OpsAt, FinishStep, GotoStep DEF SyncFind, EndSync, At, StepsOf, Steps
  <2>2. StoresOK'
    BY <1>17, OpsAt DEF SyncFind, EndSync, At, StoresOK, stores
  <2>3. QED
    BY <2>1, <2>2
<1>18. ASSUME NEW r \in Requests, SyncFetch(r) PROVE IInv'
  <2>1. RequestsOK'
    BY <1>18, OpsAt, FinishStep, GotoStep DEF SyncFetch, EndSync, At, StepsOf, Steps
  <2>2. StoresOK'
    BY <1>18, OpsAt DEF SyncFetch, EndSync, At, StoresOK, stores
  <2>3. QED
    BY <2>1, <2>2
<1>19. ASSUME NEW r \in Requests, SyncInsert(r) PROVE IInv'
  <2>1. RequestsOK'
    BY <1>19, FinishStep DEF SyncInsert, EndSync
  <2>2. StoresOK'
    BY <1>19, OpsAt DEF SyncInsert, EndSync, Insert, StoresOK, At, Statuses, UserStatus
  <2>3. QED
    BY <2>1, <2>2
<1>20. ASSUME NEW r \in Requests, SetEnabled(r) PROVE IInv'
  <2>1. RequestsOK'
    BY <1>20, OpsAt, FinishStep, GotoStep DEF SetEnabled, AfterSetEnabled, StepsOf, Steps
  <2>2. StoresOK'
    BY <1>20, OpsAt DEF SetEnabled, LoginFor, At, StoresOK, Logins, history
  <2>3. QED
    BY <2>1, <2>2
<1>21. ASSUME NEW r \in Requests, UpdateStatus(r) PROVE IInv'
  <2>1. RequestsOK'
    BY <1>21, FinishStep DEF UpdateStatus
  <2>2. StoresOK'
    BY <1>21, OpsAt DEF UpdateStatus, StatusFor, Live, StoresOK, Statuses, UserStatus, history
  <2>3. QED
    BY <2>1, <2>2
<1>22. ASSUME NEW r \in Requests, DeleteFromKeycloak(r) PROVE IInv'
  <2>1. RequestsOK'
    BY <1>22, OpsAt, GotoStep DEF DeleteFromKeycloak, StepsOf, Steps
  <2>2. StoresOK'
    BY <1>22, OpsAt DEF DeleteFromKeycloak, StoresOK, At, Logins, history
  <2>3. QED
    BY <2>1, <2>2
<1>23. ASSUME NEW r \in Requests, DeleteRow(r) PROVE IInv'
  <2>1. RequestsOK'
    BY <1>23, FinishStep DEF DeleteRow
  <2>2. StoresOK'
    BY <1>23, OpsAt DEF DeleteRow, Live, StoresOK, Statuses, UserStatus, history
  <2>3. QED
    BY <2>1, <2>2
<1>24. ASSUME NEW r \in Requests, NEW kind \in MappingKinds, DeleteRoleMappings(r, kind) PROVE IInv'
  <2>1. RequestsOK'
    BY <1>24, OpsAt, GotoStep DEF DeleteRoleMappings, AfterStrip, MappingKinds, At, StepsOf, Steps
  <2>2. StoresOK'
    BY <1>24 DEF DeleteRoleMappings, StoresOK, history
  <2>3. QED
    BY <2>1, <2>2
<1>25. ASSUME NEW r \in Requests, InsertCreatedFails(r) PROVE IInv'
  <2>1. RequestsOK'
    BY <1>25, OpsAt, GotoStep DEF InsertCreatedFails, StepsOf, Steps
  <2>2. StoresOK'
    BY <1>25, OpsAt DEF InsertCreatedFails, StoresOK, stores, history
  <2>3. QED
    BY <2>1, <2>2
<1>26. ASSUME NEW r \in Requests, SetPasswordFails(r) PROVE IInv'
  <2>1. RequestsOK'
    BY <1>26, OpsAt, GotoStep DEF SetPasswordFails, StepsOf, Steps
  <2>2. StoresOK'
    BY <1>26, OpsAt DEF SetPasswordFails, StoresOK, At, stores, history
  <2>3. QED
    BY <2>1, <2>2
<1>27. ASSUME NEW r \in Requests, SyncFails(r) PROVE IInv'
  <2>1. RequestsOK'
    BY <1>27, FinishStep DEF SyncFails, EndSync
  <2>2. StoresOK'
    BY <1>27, OpsAt DEF SyncFails, EndSync, At, StoresOK, stores
  <2>3. QED
    BY <2>1, <2>2
<1>28. ASSUME NEW r \in Requests, DeleteFromKeycloakFails(r) PROVE IInv'
  <2>1. RequestsOK'
    BY <1>28, OpsAt, GotoStep DEF DeleteFromKeycloakFails, StepsOf, Steps
  <2>2. StoresOK'
    BY <1>28, OpsAt DEF DeleteFromKeycloakFails, StoresOK, stores, history
  <2>3. QED
    BY <2>1, <2>2
<1>29. ASSUME NEW r \in Requests, Abort(r) PROVE IInv'
  <2>1. RequestsOK'
    BY <1>29, FinishStep DEF Abort
  <2>2. StoresOK'
    BY <1>29, OpsAt DEF Abort, StoresOK, stores, history
  <2>3. QED
    BY <2>1, <2>2
<1>30. ASSUME NEW r \in Requests, NEW i \in Ids, ResetUserPassword(r, i) PROVE IInv'
  <2>1. RequestsOK'
    BY <1>30 DEF ResetUserPassword, RequestsOK
  <2>2. StoresOK'
    BY <1>30 DEF ResetUserPassword, StoresOK, stores, history, Live
  <2>3. QED
    BY <2>1, <2>2
<1>31. QED
  BY <1>0, <1>1, <1>2, <1>3, <1>4, <1>5, <1>6, <1>7, <1>8, <1>9, <1>10, <1>11, <1>12, <1>13, <1>14, <1>15, <1>16, <1>17, <1>18, <1>19, <1>20, <1>21, <1>22, <1>23, <1>24, <1>25, <1>26, <1>27, <1>28, <1>29, <1>30 DEF Next, Start, Continue, Fail

(***************************************************************************)
(* What a step does to the requests and to the status of a row.             *)
(***************************************************************************)
LEMMA RequestStep ==
    ASSUME IInv, Next, NEW q \in Requests, req'[q].op # "none"
    PROVE  \/ req'[q].op = req[q].op /\ req'[q].id = req[q].id /\ req'[q].kc = req[q].kc
           \/ Start(q)
<1> USE DEF IInv
<1>1. ASSUME NEW r \in Requests, Start(r), r # q PROVE req'[q] = req[q]
  BY <1>1 DEF Start, CreateUser, SignupUser, Login, GetUserIDByKcID, ApproveUser, ActivateUser,
     RequestWithdrawal, ProcessWithdrawal, DeleteUser, UpdateUser, DeactivateUser, ResetUserPassword, GrantRole,
     Begin, RequestsOK
<1>2. ASSUME NEW r \in Requests, Continue(r) \/ Fail(r) PROVE Finish(r) \/ \E pc : Goto(r, pc)
  BY <1>2 DEF Continue, Fail, InsertCreated, RollbackCreate, SetPassword, UndoSignup, SyncFind,
     SyncFetch, SyncInsert, EndSync, SetEnabled, UpdateStatus, DeleteFromKeycloak, DeleteRow,
     DeleteRoleMappings, InsertCreatedFails, SetPasswordFails, SyncFails,
     DeleteFromKeycloakFails, Abort
<1>3. ASSUME NEW r \in Requests, Finish(r) PROVE req'[q] = req[q]
  <2>1. r # q
    BY <1>3, FinishStep
  <2>2. QED
    BY <1>3, <2>1, FinishStep
<1>4. ASSUME NEW r \in Requests, NEW pc, Goto(r, pc)
      PROVE req'[q].op = req[q].op /\ req'[q].id = req[q].id /\ req'[q].kc = req[q].kc
  BY <1>4 DEF Goto, RequestsOK, RequestType
<1>5. QED
  BY <1>1, <1>2, <1>3, <1>4 DEF Next

LEMMA StatusStep ==
    ASSUME IInv, Next, NEW i \in Ids, status'[i] # status[i]
    PROVE  \/ status[i] = "unborn" /\ status'[i] = "ACTIVE"
              /\ owner'[i] \in KcIds /\ Insert(owner'[i])
           \/ \E r \in Requests : UpdateStatus(r) /\ req[r].id = i
           \/ \E r \in Requests : DeleteRow(r) /\ req[r].id = i
<1> USE DEF IInv
<1>1. ASSUME NEW r \in Requests, Start(r) PROVE FALSE
  BY <1>1 DEF Start, CreateUser, SignupUser, Login, GetUserIDByKcID, ApproveUser, ActivateUser,
     RequestWithdrawal, ProcessWithdrawal, DeleteUser, UpdateUser, DeactivateUser, ResetUserPassword, GrantRole, stores
<1>2. ASSUME NEW r \in Requests, Fail(r) PROVE FALSE
  BY <1>2 DEF Fail, InsertCreatedFails, SetPasswordFails, SyncFails, DeleteFromKeycloakFails,
     Abort, stores
<1>3. ASSUME NEW r \in Requests, InsertCreated(r) \/ SyncInsert(r)
      PROVE status[i] = "unborn" /\ status'[i] = "ACTIVE" /\ owner'[i] \in KcIds /\ Insert(owner'[i])
  <2>1. Insert(req[r].kc) /\ req[r].kc \in KcIds
    BY <1>3, OpsAt DEF InsertCreated, SyncInsert, At
  <2>2. PICK j \in Ids : /\ status[j] = "unborn"
                         /\ status' = [status EXCEPT ![j] = "ACTIVE"]
                         /\ owner' = [owner EXCEPT ![j] = req[r].kc]
    BY <2>1 DEF Insert
  <2>3. i = j
    BY <2>2 DEF StoresOK
  <2>4. owner'[i] = req[r].kc
    BY <2>2, <2>3 DEF StoresOK
  <2>5. QED
    BY <2>1, <2>2, <2>3, <2>4 DEF StoresOK
<1>4. ASSUME NEW r \in Requests, UpdateStatus(r) \/ DeleteRow(r) PROVE req[r].id = i
  BY <1>4, OpsAt DEF UpdateStatus, DeleteRow, StoresOK
<1>5. ASSUME NEW r \in Requests,
             \/ RollbackCreate(r) \/ SetPassword(r) \/ UndoSignup(r) \/ SyncFind(r)
             \/ SyncFetch(r) \/ SetEnabled(r) \/ DeleteFromKeycloak(r)
             \/ \E kind \in MappingKinds : DeleteRoleMappings(r, kind)
      PROVE FALSE
  BY <1>5 DEF RollbackCreate, SetPassword, UndoSignup, SyncFind, SyncFetch, SetEnabled,
     DeleteFromKeycloak, DeleteRoleMappings, stores
<1>6. QED
  BY <1>1, <1>2, <1>3, <1>4, <1>5 DEF Next, Continue

LEMMA HistoryGrows == Next => asked \subseteq asked' /\ vetted \subseteq vetted'
<1>1. ASSUME NEW r \in Requests, Start(r) PROVE asked \subseteq asked' /\ vetted \subseteq vetted'
  BY <1>1 DEF Start, CreateUser, SignupUser, Login, GetUserIDByKcID, ApproveUser, ActivateUser,
     RequestWithdrawal, ProcessWithdrawal, DeleteUser, UpdateUser, DeactivateUser, ResetUserPassword, GrantRole, history
<1>2. ASSUME NEW r \in Requests, Continue(r) \/ Fail(r) PROVE asked' = asked /\ vetted' = vetted
  BY <1>2 DEF Continue, Fail, InsertCreated, RollbackCreate, SetPassword, UndoSignup, SyncFind, SyncFetch, SyncInsert,
     SetEnabled, UpdateStatus, DeleteFromKeycloak, DeleteRow, DeleteRoleMappings,
     InsertCreatedFails, SetPasswordFails, SyncFails, DeleteFromKeycloakFails, Abort, history
<1>3. QED
  BY <1>1, <1>2 DEF Next

LEMMA LoginStep ==
    ASSUME IInv, Next, NEW k \in KcIds, kc'[k] = "enabled", kc[k] # "enabled"
    PROVE  \/ k \in vetted'
           \/ \E r \in Requests : req[r].kc = k /\ req[r].op \in EnablingOps
<1> USE DEF IInv
<1>1. ASSUME NEW r \in Requests, Start(r) PROVE k \in vetted'
  <2>1. PICK k2 \in KcIds : CreateUser(r, k2) \/ SignupUser(r, k2)
    BY <1>1 DEF Start, Login, GetUserIDByKcID, ApproveUser, ActivateUser, RequestWithdrawal,
       ProcessWithdrawal, DeleteUser, UpdateUser, DeactivateUser, ResetUserPassword, GrantRole, stores
  <2>2. CASE CreateUser(r, k2)
    BY <2>2 DEF CreateUser, KcCreate, StoresOK
  <2>3. CASE SignupUser(r, k2)
    BY <2>3 DEF SignupUser, KcCreate, StoresOK
  <2>4. QED
    BY <2>1, <2>2, <2>3
<1>2. ASSUME NEW r \in Requests, Continue(r) \/ Fail(r)
      PROVE req[r].kc = k /\ req[r].op \in EnablingOps
  <2>1. SetEnabled(r) \/ RollbackCreate(r) \/ UndoSignup(r) \/ DeleteFromKeycloak(r)
    BY <1>2 DEF Continue, Fail, InsertCreated, SetPassword, SyncFind, SyncFetch, SyncInsert,
       UpdateStatus, DeleteRow, DeleteRoleMappings, InsertCreatedFails, SetPasswordFails, SyncFails, DeleteFromKeycloakFails, Abort, stores
  <2>2. ~(RollbackCreate(r) \/ UndoSignup(r) \/ DeleteFromKeycloak(r))
    BY DEF RollbackCreate, UndoSignup, DeleteFromKeycloak, StoresOK
  <2>3. SetEnabled(r)
    BY <2>1, <2>2
  <2>4. QED
    BY <2>3, OpsAt DEF SetEnabled, LoginFor, StoresOK
<1>3. QED
  BY <1>1, <1>2 DEF Next

(***************************************************************************)
(* The theorems.                                                           *)
(***************************************************************************)

\* Every reachable state has the declared types, and every request in progress
\* is at a step its operation has (UserService, all operations).
THEOREM TypeCorrect == Spec => []TypeOK
<1>1. IInv => TypeOK
  BY DEF IInv, TypeOK, RequestsOK, StoresOK
<1>2. QED
  BY IInvInit, IInvNext, <1>1, PTL DEF Spec

LEMMA Inductive == Spec => []IInv
  BY IInvInit, IInvNext, PTL DEF Spec

LEMMA AskedNext == IInv /\ AskedInv /\ [Next]_vars => AskedInv'
<1> SUFFICES ASSUME IInv, AskedInv, Next PROVE AskedInv'
  BY DEF AskedInv, vars
<1>1. asked \subseteq asked'
  BY HistoryGrows
<1>2. ASSUME NEW i \in Ids, status'[i] \in {"WITHDRAWAL_REQUESTED", "WITHDRAWN"} PROVE i \in asked'
  <2>1. CASE status'[i] = status[i]
    BY <1>1, <1>2, <2>1 DEF AskedInv
  <2>2. ASSUME NEW r \in Requests, UpdateStatus(r), req[r].id = i PROVE i \in asked'
    <3>1. req[r].op \in {"deactivate", "activate", "ask", "process"}
      BY <2>2, OpsAt DEF IInv, UpdateStatus
    <3>2. status'[i] = status[i] \/ status'[i] = StatusFor(req[r].op)
      BY <2>2 DEF UpdateStatus, IInv, StoresOK
    <3>3. status'[i] = status[i] \/ req[r].op \in {"ask", "process"}
      BY <1>2, <3>1, <3>2 DEF StatusFor
    <3>4. QED
      BY <1>1, <2>1, <2>2, <3>3 DEF AskedInv
  <2>3. ASSUME NEW r \in Requests, DeleteRow(r), req[r].id = i PROVE FALSE
    BY <1>2, <2>3 DEF DeleteRow, IInv, StoresOK
  <2>4. QED
    BY <1>2, <2>1, <2>2, <2>3, StatusStep
<1>3. ASSUME NEW q \in Requests, req'[q].op \in {"ask", "process"} PROVE req'[q].id \in asked'
  <2>1. CASE req'[q].op = req[q].op /\ req'[q].id = req[q].id
    BY <1>1, <1>3, <2>1 DEF AskedInv
  <2>2. CASE Start(q)
    <3>1. PICK i \in Ids : RequestWithdrawal(q, i) \/ ProcessWithdrawal(q, i) \/ req' = req
      BY <1>3, <2>2 DEF Start, CreateUser, SignupUser, Login, GetUserIDByKcID, ApproveUser,
         ActivateUser, DeleteUser, UpdateUser, DeactivateUser, ResetUserPassword, GrantRole, Begin, IInv, RequestsOK
    <3>2. CASE RequestWithdrawal(q, i)
      BY <3>2 DEF RequestWithdrawal, Begin, IInv, RequestsOK
    <3>3. CASE ProcessWithdrawal(q, i)
      BY <1>1, <3>3 DEF ProcessWithdrawal, Begin, IInv, RequestsOK, AskedInv
    <3>4. QED
      BY <1>1, <1>3, <3>1, <3>2, <3>3 DEF AskedInv
  <2>3. QED
    BY <1>3, <2>1, <2>2, RequestStep
<1>4. QED
  BY <1>2, <1>3 DEF AskedInv

\* No row is WITHDRAWN unless its owner asked for it: the request in progress,
\* like the status it read, stands for a RequestWithdrawal of the same row.
THEOREM WithdrawnWasAsked == Spec => []WithdrawnOnlyIfAsked
<1>1. Init => AskedInv
  BY DEF Init, AskedInv, Idle
<1>2. AskedInv => WithdrawnOnlyIfAsked
  BY DEF AskedInv, WithdrawnOnlyIfAsked
<1>3. QED
  BY <1>1, <1>2, AskedNext, Inductive, PTL DEF Spec

LEMMA VettedNext == IInv /\ VettedInv /\ [Next]_vars => VettedInv'
<1> SUFFICES ASSUME IInv, VettedInv, Next PROVE VettedInv'
  BY DEF VettedInv, EnabledOnlyIfVetted, vars
<1> USE DEF VettedInv, EnabledOnlyIfVetted
<1>1. vetted \subseteq vetted'
  BY HistoryGrows
<1>2. ASSUME NEW k \in KcIds, kc'[k] = "enabled" PROVE k \in vetted'
  BY <1>1, <1>2, LoginStep
<1>3. ASSUME NEW q \in Requests, req'[q].op \in EnablingOps PROVE req'[q].kc \in vetted'
  <2>1. CASE req'[q].op = req[q].op /\ req'[q].kc = req[q].kc
    BY <1>1, <1>3, <2>1
  <2>2. CASE Start(q)
    <3>1. PICK i \in Ids : \/ ApproveUser(q, i) \/ ActivateUser(q, i) \/ UpdateUser(q, i, "updateOn")
                           \/ req' = req
      BY <1>3, <2>2 DEF EnablingOps, Start, CreateUser, SignupUser, Login, GetUserIDByKcID,
         RequestWithdrawal, ProcessWithdrawal, DeleteUser, UpdateUser, DeactivateUser, ResetUserPassword, GrantRole,
         Begin, IInv, RequestsOK
    <3>2. req' = req \/ (req'[q].kc = owner[i] /\ owner[i] \in vetted')
      BY <3>1 DEF ApproveUser, ActivateUser, UpdateUser, Begin, IInv, RequestsOK
    <3>3. QED
      BY <1>1, <1>3, <3>2
  <2>3. req'[q].op # "none"
    BY <1>3 DEF EnablingOps
  <2>4. QED
    BY <2>1, <2>2, <2>3, RequestStep
<1>4. QED
  BY <1>2, <1>3

\* No login is open that no administrator wanted open: a self sign-up waits for
\* its approval, whatever fails or overlaps.
THEOREM EnabledWasVetted == Spec => []EnabledOnlyIfVetted
<1>1. Init => VettedInv
  BY DEF Init, VettedInv, EnabledOnlyIfVetted, EnablingOps, Idle
<1>2. VettedInv => EnabledOnlyIfVetted
  BY DEF VettedInv
<1>3. QED
  BY <1>1, <1>2, VettedNext, Inductive, PTL DEF Spec

LEMMA OwnerStep ==
    ASSUME IInv, Next
    PROVE  \/ owner' = owner /\ \A i \in Ids : Live(i)' => Live(i)
           \/ \E k \in KcIds : Insert(k) /\ maps' = maps
<1> USE DEF IInv
<1>1. ASSUME NEW r \in Requests, InsertCreated(r) \/ SyncInsert(r)
      PROVE  Insert(req[r].kc) /\ req[r].kc \in KcIds /\ maps' = maps
  BY <1>1, OpsAt DEF InsertCreated, SyncInsert, At
<1>2. ASSUME NEW r \in Requests, UpdateStatus(r) \/ DeleteRow(r)
      PROVE  owner' = owner /\ \A i \in Ids : Live(i)' => Live(i)
  BY <1>2 DEF UpdateStatus, DeleteRow, Live, StoresOK
<1>3. ASSUME NEW r \in Requests, Start(r)
      PROVE  owner' = owner /\ status' = status
  BY <1>3 DEF Start, CreateUser, SignupUser, Login, GetUserIDByKcID, ApproveUser, ActivateUser,
     RequestWithdrawal, ProcessWithdrawal, DeleteUser, UpdateUser, DeactivateUser, ResetUserPassword, GrantRole, KcCreate, stores
<1>4. ASSUME NEW r \in Requests,
             \/ Fail(r) \/ RollbackCreate(r) \/ SetPassword(r) \/ UndoSignup(r) \/ SyncFind(r)
             \/ SyncFetch(r) \/ SetEnabled(r) \/ DeleteFromKeycloak(r)
             \/ \E kind \in MappingKinds : DeleteRoleMappings(r, kind)
      PROVE  owner' = owner /\ status' = status
  BY <1>4 DEF Fail, RollbackCreate, SetPassword, UndoSignup, SyncFind, SyncFetch, SetEnabled,
     DeleteFromKeycloak, DeleteRoleMappings, InsertCreatedFails, SetPasswordFails, SyncFails, DeleteFromKeycloakFails, Abort, stores
<1>5. QED
  BY <1>1, <1>2, <1>3, <1>4 DEF Next, Continue, Live

LEMMA OneRowNext == IInv /\ OneRowPerUser /\ [Next]_vars => OneRowPerUser'
<1> SUFFICES ASSUME IInv, OneRowPerUser, Next PROVE OneRowPerUser'
  BY DEF OneRowPerUser, Live, vars
<1>1. CASE owner' = owner /\ \A i \in Ids : Live(i)' => Live(i)
  BY <1>1 DEF OneRowPerUser
<1>2. ASSUME NEW k \in KcIds, Insert(k) PROVE OneRowPerUser'
  <2>1. PICK n \in Ids : /\ status[n] = "unborn"
                         /\ status' = [status EXCEPT ![n] = "ACTIVE"]
                         /\ owner' = [owner EXCEPT ![n] = k]
    BY <1>2 DEF Insert
  <2>2. owner'[n] = k /\ \A i \in Ids : i # n => owner'[i] = owner[i] /\ (Live(i)' <=> Live(i))
    BY <2>1 DEF IInv, StoresOK, Live
  <2>3. \A i \in Ids : Live(i) => NameOf[owner[i]] # NameOf[k]
    BY <1>2 DEF Insert, Insertable
  <2>4. QED
    BY <2>2, <2>3 DEF OneRowPerUser
<1>3. QED
  BY <1>1, <1>2, OwnerStep

\* Two rows never stand for one user, whichever logins, sign-ups and creations
\* race to insert the row.
THEOREM UsersHaveOneRow == Spec => []OneRowPerUser
<1>1. Init => OneRowPerUser
  BY DEF Init, OneRowPerUser, Live, UserStatus
<1>2. QED
  BY <1>1, OneRowNext, Inductive, PTL DEF Spec

LEMMA OrphanNext == IInv /\ NoOrphanMappings /\ [Next]_vars => NoOrphanMappings'
<1> SUFFICES ASSUME IInv, NoOrphanMappings, Next PROVE NoOrphanMappings'
  BY DEF NoOrphanMappings, Live, vars
<1> USE DEF IInv
<1>1. ASSUME NEW i \in Ids, maps'[i] # {}, maps[i] = {} PROVE Live(i)'
  <2>1. ASSUME NEW r \in Requests, Start(r) PROVE Live(i)'
    <3>1. PICK j \in Ids, kind \in RoleKinds : GrantRole(r, j, kind)
      BY <1>1, <2>1 DEF Start, CreateUser, SignupUser, Login, GetUserIDByKcID, ApproveUser,
         ActivateUser, RequestWithdrawal, ProcessWithdrawal, DeleteUser, UpdateUser,
         DeactivateUser, ResetUserPassword, stores
    <3>2. j = i
      BY <1>1, <3>1 DEF GrantRole, StoresOK
    <3>3. QED
      BY <3>1, <3>2 DEF GrantRole, Live
  <2>2. ASSUME NEW r \in Requests, NEW kind \in MappingKinds, DeleteRoleMappings(r, kind) PROVE FALSE
    BY <1>1, <2>2 DEF DeleteRoleMappings, StoresOK
  <2>3. ASSUME NEW r \in Requests, Fail(r) PROVE FALSE
    BY <1>1, <2>3 DEF Fail, InsertCreatedFails, SetPasswordFails, SyncFails, DeleteFromKeycloakFails, Abort, stores
  <2>4. ASSUME NEW r \in Requests,
               \/ InsertCreated(r) \/ RollbackCreate(r) \/ SetPassword(r) \/ UndoSignup(r)
               \/ SyncFind(r) \/ SyncFetch(r) \/ SyncInsert(r) \/ SetEnabled(r)
               \/ UpdateStatus(r) \/ DeleteFromKeycloak(r) \/ DeleteRow(r)
        PROVE FALSE
    BY <1>1, <2>4 DEF InsertCreated, RollbackCreate, SetPassword, UndoSignup, SyncFind, SyncFetch,
       SyncInsert, SetEnabled, UpdateStatus, DeleteFromKeycloak, DeleteRow, stores
  <2>5. QED
    BY <2>1, <2>2, <2>3, <2>4 DEF Next, Continue
<1>2. ASSUME NEW i \in Ids, maps'[i] # {}, maps[i] # {} PROVE Live(i)'
  <2>1. Live(i)
    BY <1>2 DEF NoOrphanMappings
  <2>2. ASSUME NEW r \in Requests, UpdateStatus(r), req[r].id = i PROVE Live(i)'
    <3>1. req[r].op \in {"deactivate", "activate", "ask", "process"}
      BY <2>2, OpsAt DEF UpdateStatus
    <3>2. StatusFor(req[r].op) \in UserStatus
      BY <3>1 DEF StatusFor, UserStatus
    <3>3. QED
      BY <2>1, <2>2, <3>2 DEF UpdateStatus, StoresOK, Live
  <2>3. ASSUME NEW r \in Requests, DeleteRow(r), req[r].id = i PROVE FALSE
    BY <1>2, <2>3 DEF DeleteRow
  <2>4. CASE status'[i] = status[i]
    BY <2>1, <2>4 DEF Live
  <2>5. CASE status[i] = "unborn"
    BY <2>1, <2>5 DEF Live, UserStatus
  <2>6. QED
    BY <2>2, <2>3, <2>4, <2>5, StatusStep
<1>3. QED
  BY <1>1, <1>2 DEF NoOrphanMappings

\* No role mapping is left without its row, also when roles are granted while
\* DeleteUser empties the mapping tables one after the other.
THEOREM MappingsHaveRow == Spec => []NoOrphanMappings
<1>1. Init => NoOrphanMappings
  BY DEF Init, NoOrphanMappings
<1>2. QED
  BY <1>1, OrphanNext, Inductive, PTL DEF Spec

(***************************************************************************)
(* The refinement.  A request that nothing disturbs finds at its last call *)
(* what its earlier calls left: that is ReliesOn, by operation and step.   *)
(* Under it each call that writes a store is one step of AccountLifecycle, *)
(* and every other call is a stutter.                                      *)
(***************************************************************************)

\* The hypothesis of the run user_account_lifecycle, for any ids and rows.
OneAtATime == \A r, s \in Requests : r = s

\* What a request that nothing disturbs relies on when it comes to its last call.
ReliesOn(q, login, st, ow, mp) ==
    /\ q.pc \in {"insert", "syncInsert"} => login[q.kc] \in {"disabled", "enabled"}
    /\ q.op \in {"deactivate", "activate", "ask", "process", "delete"} =>
         st[q.id] \in UserStatus /\ ow[q.id] = q.kc
    /\ q.op = "deactivate" => st[q.id] # "INACTIVE"
    /\ q.op = "activate" => st[q.id] = "INACTIVE"
    /\ q.op = "ask" => st[q.id] = "ACTIVE"
    /\ q.op = "process" =>
         /\ st[q.id] = "WITHDRAWAL_REQUESTED"
         /\ q.pc # "platform" => "platform" \notin mp[q.id]
         /\ q.pc \notin {"platform", "workspace"} => "workspace" \notin mp[q.id]
         /\ q.pc \notin {"platform", "workspace", "organization"} => "organization" \notin mp[q.id]
    /\ q.pc = "setStatus" /\ q.op = "activate" => login[q.kc] = "enabled"
    /\ q.pc = "setStatus" /\ q.op \in {"deactivate", "process"} => login[q.kc] # "enabled"

Undisturbed == \A r \in Requests : ReliesOn(req[r], kc, status, owner, maps)

LEMMA IdleRelies ==
    ASSUME NEW q, q.pc = "idle", q.op = "none", NEW login, NEW st, NEW ow, NEW mp
    PROVE  ReliesOn(q, login, st, ow, mp)
  BY DEF ReliesOn

LEMMA UndisturbedInit == Init => Undisturbed
  BY IdleRelies DEF Init, Undisturbed, Idle

LEMMA OneSteps ==
    ASSUME OneAtATime, NEW r \in Requests, ReliesOn(req'[r], kc', status', owner', maps')
    PROVE  Undisturbed'
<1>1. \A s \in Requests : s = r
  BY DEF OneAtATime
<1> QED
  BY <1>1 DEF Undisturbed

LEMMA StartRelies ==
    ASSUME IInv, OneAtATime, NEW r \in Requests, Start(r)
    PROVE  Undisturbed'
<1> USE DEF IInv
<1>1. ASSUME NEW op, NEW pc, NEW i, NEW k, Begin(r, op, pc, i, k)
      PROVE  req'[r].op = op /\ req'[r].pc = pc /\ req'[r].id = i /\ req'[r].kc = k
  BY <1>1 DEF Begin, RequestsOK
<1>2. ASSUME NEW k \in KcIds, CreateUser(r, k) PROVE Undisturbed'
  <2>1. /\ req'[r].op = "create" /\ req'[r].pc = "insert" /\ req'[r].kc = k
        /\ kc'[k] = "enabled"
    BY <1>1, <1>2 DEF CreateUser, KcCreate, StoresOK
  <2> QED  BY <2>1, OneSteps DEF ReliesOn
<1>3. ASSUME NEW k \in KcIds, SignupUser(r, k) \/ Login(r, k) \/ GetUserIDByKcID(r, k)
      PROVE  Undisturbed'
  <2>1. req'[r].op \in {"signup", "sync"} /\ req'[r].pc \in {"password", "find"}
    BY <1>1, <1>3 DEF SignupUser, Login, GetUserIDByKcID
  <2> QED  BY <2>1, OneSteps DEF ReliesOn
<1>4. ASSUME NEW i \in Ids, NEW op \in {"updateOn", "updateOff"}, ApproveUser(r, i) \/ UpdateUser(r, i, op)
      PROVE  Undisturbed'
  <2>1. req'[r].op \in {"approve", "updateOn", "updateOff"} /\ req'[r].pc = "setEnabled"
    BY <1>1, <1>4 DEF ApproveUser, UpdateUser
  <2> QED  BY <2>1, OneSteps DEF ReliesOn
<1>5. ASSUME NEW i \in Ids, NEW k \in KcIds, DeactivateUser(r, i, k) PROVE Undisturbed'
  <2>1. /\ req'[r].op = "deactivate" /\ req'[r].pc = "setEnabled" /\ req'[r].id = i
        /\ req'[r].kc = owner[i] /\ status[i] \in UserStatus /\ status[i] # "INACTIVE"
        /\ UNCHANGED <<kc, status, owner, maps>>
    BY <1>1, <1>5 DEF DeactivateUser, Live, stores
  <2> QED  BY <2>1, OneSteps DEF ReliesOn
<1>6. ASSUME NEW i \in Ids, ActivateUser(r, i) PROVE Undisturbed'
  <2>1. /\ req'[r].op = "activate" /\ req'[r].pc = "setEnabled" /\ req'[r].id = i
        /\ req'[r].kc = owner[i] /\ status[i] = "INACTIVE" /\ UNCHANGED <<kc, status, owner, maps>>
    BY <1>1, <1>6 DEF ActivateUser, stores
  <2> QED  BY <2>1, OneSteps DEF ReliesOn, UserStatus
<1>7. ASSUME NEW i \in Ids, RequestWithdrawal(r, i) PROVE Undisturbed'
  <2>1. /\ req'[r].op = "ask" /\ req'[r].pc = "setStatus" /\ req'[r].id = i
        /\ req'[r].kc = owner[i] /\ status[i] = "ACTIVE" /\ UNCHANGED <<kc, status, owner, maps>>
    BY <1>1, <1>7 DEF RequestWithdrawal, stores
  <2> QED  BY <2>1, OneSteps DEF ReliesOn, UserStatus
<1>8. ASSUME NEW i \in Ids, ProcessWithdrawal(r, i) PROVE Undisturbed'
  <2>1. /\ req'[r].op = "process" /\ req'[r].pc = "platform" /\ req'[r].id = i
        /\ req'[r].kc = owner[i] /\ status[i] = "WITHDRAWAL_REQUESTED"
        /\ UNCHANGED <<kc, status, owner, maps>>
    BY <1>1, <1>8 DEF ProcessWithdrawal, stores
  <2> QED  BY <2>1, OneSteps DEF ReliesOn, UserStatus
<1>9. ASSUME NEW i \in Ids, DeleteUser(r, i) PROVE Undisturbed'
  <2>1. /\ req'[r].op = "delete" /\ req'[r].pc = "deleteKc" /\ req'[r].id = i
        /\ req'[r].kc = owner[i] /\ status[i] \in UserStatus /\ UNCHANGED <<kc, status, owner, maps>>
    BY <1>1, <1>9 DEF DeleteUser, Live, stores
  <2> QED  BY <2>1, OneSteps DEF ReliesOn
<1>10. ASSUME NEW i \in Ids, NEW kind \in RoleKinds, ResetUserPassword(r, i) \/ GrantRole(r, i, kind)
       PROVE  Undisturbed'
  <2>1. req'[r].pc = "idle" /\ req'[r].op = "none"
    BY <1>10 DEF ResetUserPassword, GrantRole, Free, RequestsOK, StepsOf, RequestType, AllOps
  <2> QED  BY <2>1, OneSteps, IdleRelies
<1>11. ASSUME NEW i \in Ids, ResetUserPassword(r, i) PROVE Undisturbed'
  <2>1. req'[r].pc = "idle" /\ req'[r].op = "none"
    BY <1>11 DEF ResetUserPassword, Free, RequestsOK, StepsOf, RequestType, AllOps
  <2> QED  BY <2>1, OneSteps, IdleRelies
<1>12. ASSUME NEW i \in Ids, ApproveUser(r, i) PROVE Undisturbed'
  BY <1>4, <1>12
<1> QED
  BY <1>2, <1>3, <1>4, <1>5, <1>6, <1>7, <1>8, <1>9, <1>10, <1>11, <1>12 DEF Start

LEMMA GoesOnRelying ==
    ASSUME IInv, OneAtATime, Undisturbed, NEW r \in Requests, Continue(r) \/ Fail(r)
    PROVE  Undisturbed'
<1> USE DEF IInv
<1> DEFINE q == req[r]
<1>1. /\ q \in RequestType /\ q.pc \in StepsOf(q.op) /\ (q.op # "none" => q.kc \in KcIds)
      /\ q.op \in RowOps => q.id \in Ids
      /\ ReliesOn(q, kc, status, owner, maps)
  BY DEF RequestsOK, Undisturbed
<1>2. ASSUME Finish(r) PROVE Undisturbed'
  <2>1. req'[r].pc = "idle" /\ req'[r].op = "none"
    BY <1>2 DEF Finish, Idle, RequestsOK
  <2> QED  BY <2>1, OneSteps, IdleRelies
<1>3. ASSUME NEW pc, Goto(r, pc)
      PROVE  req'[r].op = q.op /\ req'[r].pc = pc /\ req'[r].id = q.id /\ req'[r].kc = q.kc
  BY <1>1, <1>3 DEF Goto, RequestsOK, RequestType
<1>4. ASSUME NEW pc \in {"rollback", "find", "undo", "fetch"}, Goto(r, pc),
             q.op \in {"create", "signup", "sync", "approve"}
      PROVE  Undisturbed'
  BY <1>3, <1>4, OneSteps DEF ReliesOn
<1>5. CASE InsertCreated(r) \/ InsertCreatedFails(r) \/ RollbackCreate(r)
  BY <1>2, <1>4, <1>5, OpsAt DEF InsertCreated, InsertCreatedFails, RollbackCreate
<1>6. CASE SetPassword(r) \/ SetPasswordFails(r) \/ UndoSignup(r)
  BY <1>2, <1>4, <1>6, OpsAt DEF SetPassword, SetPasswordFails, UndoSignup
<1>7. CASE SyncFind(r) \/ SyncInsert(r) \/ SyncFails(r) \/ Abort(r)
  BY <1>2, <1>4, <1>7, OpsAt DEF SyncFind, SyncInsert, SyncFails, EndSync, Abort, At
<1>8. CASE SyncFetch(r)
  <2>1. CASE Goto(r, "syncInsert") /\ Present(q.kc)
    <3>1. /\ req'[r].op = q.op /\ req'[r].pc = "syncInsert" /\ req'[r].kc = q.kc
          /\ q.op \in {"signup", "sync", "approve"} /\ kc'[q.kc] \in {"disabled", "enabled"}
      BY <1>3, <1>8, <2>1, OpsAt DEF SyncFetch, At, Present, stores
    <3> QED  BY <3>1, OneSteps DEF ReliesOn
  <2> QED  BY <1>2, <1>8, <2>1 DEF SyncFetch, EndSync
<1>9. CASE SetEnabled(r)
  <2>1. CASE q.op \in {"updateOn", "updateOff"}
    BY <1>2, <1>9, <2>1 DEF SetEnabled, AfterSetEnabled
  <2>2. CASE q.op = "approve"
    BY <1>4, <1>9, <2>2 DEF SetEnabled, AfterSetEnabled
  <2>3. CASE q.op \in {"deactivate", "activate", "process"}
    <3>1. /\ req'[r].op = q.op /\ req'[r].pc = "setStatus" /\ req'[r].id = q.id /\ req'[r].kc = q.kc
          /\ kc'[q.kc] = LoginFor(q.op) /\ UNCHANGED <<status, owner, maps>> /\ q.pc = "setEnabled"
      BY <1>1, <1>3, <1>9, <2>3 DEF SetEnabled, AfterSetEnabled, StoresOK, At
    <3>2. ReliesOn(req'[r], kc', status', owner', maps')
      BY <1>1, <2>3, <3>1 DEF ReliesOn, LoginFor, EnablingOps
    <3> QED  BY <3>2, OneSteps
  <2> QED  BY <1>9, <2>1, <2>2, <2>3, OpsAt DEF SetEnabled
<1>10. ASSUME NEW kind \in MappingKinds, DeleteRoleMappings(r, kind) PROVE Undisturbed'
  <2>1. q.op \in {"process", "delete"} /\ q.id \in Ids /\ q.pc = kind
    BY <1>1, <1>10, OpsAt DEF DeleteRoleMappings, At, RowOps
  <2>2. /\ req'[r].op = q.op /\ req'[r].pc = AfterStrip(q.op, kind) /\ req'[r].id = q.id
        /\ req'[r].kc = q.kc /\ maps'[q.id] = maps[q.id] \ {kind} /\ UNCHANGED <<kc, status, owner>>
    BY <1>3, <1>10, <2>1 DEF DeleteRoleMappings, StoresOK
  <2>3. ReliesOn(req'[r], kc', status', owner', maps')
    BY <1>1, <2>1, <2>2 DEF ReliesOn, AfterStrip, MappingKinds
  <2> QED  BY <2>3, OneSteps
<1>11. CASE DeleteFromKeycloak(r) \/ DeleteFromKeycloakFails(r)
  <2>1. /\ req'[r].op = "delete" /\ req'[r].pc = "platform" /\ req'[r].id = q.id /\ req'[r].kc = q.kc
        /\ UNCHANGED <<status, owner>> /\ q.op = "delete"
    BY <1>3, <1>11, OpsAt DEF DeleteFromKeycloak, DeleteFromKeycloakFails, stores
  <2>2. ReliesOn(req'[r], kc', status', owner', maps')
    BY <1>1, <2>1 DEF ReliesOn
  <2> QED  BY <2>2, OneSteps
<1>12. CASE UpdateStatus(r) \/ DeleteRow(r)
  BY <1>2, <1>12 DEF UpdateStatus, DeleteRow
<1> QED
  BY <1>5, <1>6, <1>7, <1>8, <1>9, <1>10, <1>11, <1>12 DEF Continue, Fail

LEMMA UndisturbedNext == OneAtATime /\ IInv /\ Undisturbed /\ [Next]_vars => Undisturbed'
<1> SUFFICES ASSUME OneAtATime, IInv, Undisturbed, [Next]_vars PROVE Undisturbed'
  OBVIOUS
<1>1. CASE UNCHANGED vars
  BY <1>1 DEF Undisturbed, vars
<1> QED
  BY <1>1, StartRelies, GoesOnRelying DEF Next

LEMMA LifecycleInit == Init => Lifecycle!Init
  BY DEF Init, Lifecycle!Init

LEMMA LoginChanges ==
    ASSUME IInv, NEW k \in KcIds, NEW state \in {"disabled", "enabled", "deleted"},
           kc' = [kc EXCEPT ![k] = state], state = "deleted" \/ kc[k] # "deleted",
           UNCHANGED <<status, owner, maps>>
    PROVE  [Lifecycle!Next]_(Lifecycle!vars)
<1>1. CASE kc[k] = "deleted"
  <2>1. kc' = kc
    BY <1>1 DEF IInv, StoresOK
  <2> QED  BY <2>1 DEF Lifecycle!vars
<1>2. CASE kc[k] # "deleted"
  BY <1>2 DEF Lifecycle!Next, Lifecycle!ChangeLogin
<1> QED  BY <1>1, <1>2

LEMMA RowRegisters ==
    ASSUME NEW k \in KcIds, Insert(k), kc[k] \in {"disabled", "enabled"}, UNCHANGED <<kc, maps>>
    PROVE  Lifecycle!Next
<1>1. PICK i \in Ids : /\ status[i] = "unborn"
                       /\ status' = [status EXCEPT ![i] = "ACTIVE"]
                       /\ owner' = [owner EXCEPT ![i] = k]
  BY DEF Insert
<1>2. Lifecycle!Register(i, k)
  BY <1>1 DEF Lifecycle!Register
<1> QED  BY <1>2 DEF Lifecycle!Next

LEMMA GrantsChange ==
    ASSUME NEW i \in Ids, Live(i), NEW kind \in MappingKinds,
           \/ maps' = [maps EXCEPT ![i] = @ \cup {kind}]
           \/ maps' = [maps EXCEPT ![i] = @ \ {kind}],
           UNCHANGED <<kc, status, owner>>
    PROVE  Lifecycle!Next
<1>1. Lifecycle!Grant(i)
  BY DEF Lifecycle!Grant, Live, UserStatus, MappingKinds
<1> QED  BY <1>1 DEF Lifecycle!Next

LEMMA StartSimulates ==
    ASSUME IInv, NEW r \in Requests, Start(r)
    PROVE  [Lifecycle!Next]_(Lifecycle!vars)
<1>1. ASSUME NEW k \in KcIds, CreateUser(r, k) \/ SignupUser(r, k)
      PROVE  [Lifecycle!Next]_(Lifecycle!vars)
  BY <1>1, LoginChanges DEF CreateUser, SignupUser, KcCreate
<1>2. ASSUME NEW i \in Ids, NEW kind \in RoleKinds, GrantRole(r, i, kind)
      PROVE  Lifecycle!Next
  BY <1>2, GrantsChange, BoundAssumption DEF GrantRole
<1>3. ASSUME NEW k \in KcIds, Login(r, k) \/ GetUserIDByKcID(r, k) PROVE UNCHANGED stores
  BY <1>3 DEF Login, GetUserIDByKcID
<1>4. ASSUME NEW i \in Ids,
             \/ ApproveUser(r, i) \/ ActivateUser(r, i) \/ RequestWithdrawal(r, i)
             \/ ProcessWithdrawal(r, i) \/ DeleteUser(r, i) \/ ResetUserPassword(r, i)
             \/ \E op \in {"updateOn", "updateOff"} : UpdateUser(r, i, op)
             \/ \E k \in KcIds : DeactivateUser(r, i, k)
      PROVE  UNCHANGED stores
  BY <1>4 DEF ApproveUser, ActivateUser, RequestWithdrawal, ProcessWithdrawal, DeleteUser,
              ResetUserPassword, UpdateUser, DeactivateUser
<1>5. UNCHANGED stores => UNCHANGED Lifecycle!vars
  BY DEF stores, Lifecycle!vars
<1> QED
  BY <1>1, <1>2, <1>3, <1>4, <1>5 DEF Start

LEMMA GoesOnSimulating ==
    ASSUME IInv, Undisturbed, NEW r \in Requests, Continue(r) \/ Fail(r)
    PROVE  [Lifecycle!Next]_(Lifecycle!vars)
<1> USE DEF IInv
<1> DEFINE q == req[r]
<1>1. /\ q.op # "none" => q.kc \in KcIds
      /\ q.op \in RowOps => q.id \in Ids
      /\ ReliesOn(q, kc, status, owner, maps)
  BY DEF RequestsOK, Undisturbed
<1>2. UNCHANGED stores => UNCHANGED Lifecycle!vars
  BY DEF stores, Lifecycle!vars
<1>3. CASE InsertCreated(r) \/ SyncInsert(r)
  <2>1. /\ q.pc \in {"insert", "syncInsert"} /\ q.kc \in KcIds /\ Insert(q.kc)
        /\ UNCHANGED <<kc, maps>>
    BY <1>1, <1>3, OpsAt DEF InsertCreated, SyncInsert, At
  <2>2. kc[q.kc] \in {"disabled", "enabled"}
    BY <1>1, <2>1 DEF ReliesOn
  <2> QED  BY <2>1, <2>2, RowRegisters
<1>4. CASE RollbackCreate(r) \/ UndoSignup(r) \/ DeleteFromKeycloak(r)
  <2>1. /\ q.kc \in KcIds /\ kc' = [kc EXCEPT ![q.kc] = "deleted"]
        /\ UNCHANGED <<status, owner, maps>>
    BY <1>1, <1>4, OpsAt DEF RollbackCreate, UndoSignup, DeleteFromKeycloak, At
  <2> QED  BY <2>1, LoginChanges
<1>5. CASE SetEnabled(r)
  <2>1. /\ q.kc \in KcIds /\ kc' = [kc EXCEPT ![q.kc] = LoginFor(q.op)]
        /\ kc[q.kc] # "deleted" /\ UNCHANGED <<status, owner, maps>>
    BY <1>1, <1>5, OpsAt DEF SetEnabled, Present
  <2>2. LoginFor(q.op) \in {"disabled", "enabled", "deleted"}
    BY DEF LoginFor
  <2> QED  BY <2>1, <2>2, LoginChanges
<1>6. CASE UpdateStatus(r)
  <2>1. /\ q.op \in {"deactivate", "activate", "ask", "process"} /\ q.id \in Ids
        /\ q.pc = "setStatus" /\ UNCHANGED <<kc, owner, maps>>
    BY <1>1, <1>6, OpsAt DEF UpdateStatus, At, RowOps
  <2>2. /\ status[q.id] \in UserStatus /\ owner[q.id] = q.kc
        /\ status' = [status EXCEPT ![q.id] = StatusFor(q.op)]
    BY <1>1, <1>6, <2>1 DEF ReliesOn, UpdateStatus, Live
  <2>3. CASE q.op = "deactivate"
    <3>1. Lifecycle!Deactivate(q.id)
      BY <1>1, <2>1, <2>2, <2>3 DEF ReliesOn, StatusFor, UserStatus, Lifecycle!Deactivate,
                                   Lifecycle!Mark, Lifecycle!Shut
    <3> QED  BY <2>1, <3>1 DEF Lifecycle!Next
  <2>4. CASE q.op = "activate"
    <3>1. Lifecycle!Reactivate(q.id)
      BY <1>1, <2>1, <2>2, <2>4 DEF ReliesOn, StatusFor, Lifecycle!Reactivate, Lifecycle!Mark
    <3> QED  BY <2>1, <3>1 DEF Lifecycle!Next
  <2>5. CASE q.op = "ask"
    <3>1. Lifecycle!Ask(q.id)
      BY <1>1, <2>1, <2>2, <2>5 DEF ReliesOn, StatusFor, Lifecycle!Ask, Lifecycle!Mark
    <3> QED  BY <2>1, <3>1 DEF Lifecycle!Next
  <2>6. CASE q.op = "process"
    <3>1. \A kind \in MappingKinds : kind \notin maps[q.id]
      BY <1>1, <2>1, <2>6 DEF ReliesOn, MappingKinds
    <3>2. maps[q.id] = {}
      BY <2>1, <3>1 DEF StoresOK
    <3>3. Lifecycle!Withdraw(q.id)
      BY <1>1, <2>1, <2>2, <2>6, <3>2 DEF ReliesOn, StatusFor, Lifecycle!Withdraw,
                                         Lifecycle!Mark, Lifecycle!Shut
    <3> QED  BY <2>1, <3>3 DEF Lifecycle!Next
  <2> QED  BY <2>1, <2>3, <2>4, <2>5, <2>6
<1>7. CASE DeleteRow(r)
  <2>1. q.id \in Ids
    BY <1>1, <1>7, OpsAt DEF DeleteRow, RowOps
  <2>2. Lifecycle!Remove(q.id)
    BY <1>7, <2>1 DEF DeleteRow, Live, UserStatus, Lifecycle!Remove, Lifecycle!Mark
  <2> QED  BY <2>1, <2>2 DEF Lifecycle!Next
<1>8. ASSUME NEW kind \in MappingKinds, DeleteRoleMappings(r, kind) PROVE Lifecycle!Next
  <2>1. q.op \in {"process", "delete"} /\ q.id \in Ids
    BY <1>1, <1>8, OpsAt DEF DeleteRoleMappings, At, RowOps
  <2>2. Live(q.id)
    BY <1>1, <2>1 DEF ReliesOn, Live
  <2> QED  BY <1>8, <2>1, <2>2, GrantsChange DEF DeleteRoleMappings
<1>9. CASE \/ SetPassword(r) \/ SyncFind(r) \/ SyncFetch(r) \/ Fail(r)
  BY <1>2, <1>9 DEF SetPassword, SyncFind, SyncFetch, Fail, InsertCreatedFails,
                    SetPasswordFails, SyncFails, DeleteFromKeycloakFails, Abort
<1> QED
  BY <1>3, <1>4, <1>5, <1>6, <1>7, <1>8, <1>9 DEF Continue

LEMMA LifecycleNext ==
    IInv /\ Undisturbed /\ [Next]_vars => [Lifecycle!Next]_(Lifecycle!vars)
<1>1. UNCHANGED vars => UNCHANGED Lifecycle!vars
  BY DEF vars, Lifecycle!vars
<1> QED
  BY <1>1, StartSimulates, GoesOnSimulating DEF Next

\* When requests do not overlap, whichever of their calls fails, the two stores
\* go through the life of an account that AccountLifecycle promises: the status
\* never runs ahead of the login (DeactivateUser, ActivateUser,
\* ProcessWithdrawal, DeleteUser).
THEOREM AccountsImplementLifecycle ==
    ASSUME OneAtATime
    PROVE  Spec => ImplementsLifecycle
<1>1. Init => Undisturbed
  BY UndisturbedInit
<1>2. IInv /\ Undisturbed /\ [Next]_vars => Undisturbed'
  BY UndisturbedNext
<1> QED
  BY <1>1, <1>2, IInvInit, IInvNext, LifecycleInit, LifecycleNext, PTL
     DEF Spec, ImplementsLifecycle, Lifecycle!Spec
=============================================================================
