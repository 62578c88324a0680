----------------------------- MODULE RoleProofs ------------------------------
(***************************************************************************)
(* Roles, their types and mappings, and the roles of the platform that are *)
(* also in Keycloak.                                                       *)
(***************************************************************************)
EXTENDS RoleGrant, TLAPS

------------------------------------------------------------------------------
(***************************************************************************)
(* For any roles, menus, CSP roles, users, groups and overlapping          *)
(* requests: the types of RoleMaster, that what refers to a role finds it, *)
(* that predefined roles stay, that holdings have the type of their role,  *)
(* and that dangling mappings are late ones.                               *)
(***************************************************************************)
Deleting == {"dropMenus", "dropCsp", "dropSubs", "dropMaster"}
WithRole == Deleting \cup {"save", "clearMenus", "setMenus", "clearCsp", "mapCsp", "addSub",
                           "listMappings", "dropSub", "insertRow", "changeRow"}
WithCsp == {"ensureCsp", "clearCsp", "mapCsp", "addSub", "cutMappings", "dropCspRole"}

Typed(r, t) == <<r, t>> \in subs \cup stripped

\* What a request carries at each of its steps, and what was so when it was
\* checked and still is: the role was not marked, it had the type, nothing is
\* mapped to the CSP role but by latecomers.
Carries(q) ==
    /\ req[q].pc \in WithRole => req[q].role \in Roles
    /\ req[q].pc \in WithCsp => req[q].csp \in CspRoles
    /\ req[q].pc \in {"insert", "save"} => req[q].name \in Names
    /\ req[q].pc = "ensureCsp" =>
         IF req[q].op = "create" THEN req[q].name \in Names ELSE req[q].role \in Roles
    /\ req[q].pc \in {"save", "clearMenus", "setMenus", "clearCsp"} => req[q].op # "create"
    /\ req[q].pc \in {"insertRow", "changeRow"} => req[q].holder \in Holders
    /\ req[q].pc \in Deleting => (req[q].role \in Predefined => req[q].role \in unmarked)
    /\ req[q].pc = "insertRow" => \A t \in req[q].types : Typed(req[q].role, t)
    /\ req[q].pc = "changeRow" => Typed(req[q].role, "workspace")
    /\ req[q].pc = "dropCspRole" => \A m \in csp : (m[2] = req[q].csp => m \in late)

MarkInv == \A r \in Predefined : (Exists(r) /\ r \in marked) \/ r \in unmarked

TablesOK ==
    /\ name \in [Roles -> Names \cup {None}]
    /\ marked \subseteq Roles
    /\ subs \subseteq Roles \X Types
    /\ menus \subseteq Roles \X Menus
    /\ cspRoles \subseteq CspRoles
    /\ csp \subseteq Roles \X CspRoles
    /\ holds \subseteq Holders \X Roles /\ members \subseteq Holders \X Roles
    /\ drawn \subseteq Roles \cup CspRoles
    /\ stripped \subseteq Roles \X Types
    /\ unmarked \subseteq Roles
    /\ late \subseteq Roles \X CspRoles
ReqOK == req \in [Requests -> RequestType]

IInv ==
    /\ TablesOK /\ ReqOK
    /\ \A q \in Requests : Carries(q)
    /\ RowsHaveRoles
    /\ MarkInv
    /\ HoldingsAreTyped
    /\ DanglingMappingsAreLate

LEMMA InitIInv == RoleInit => IInv
<1> SUFFICES ASSUME RoleInit PROVE IInv
  OBVIOUS
<1> USE DEF RoleInit
<1>1. TablesOK
  BY RoleAssumption DEF TablesOK
<1>2. ReqOK
  BY DEF ReqOK, Idle, RequestType, Steps
<1>3. \A q \in Requests : Carries(q)
  BY DEF Carries, Idle, Deleting, WithRole, WithCsp
<1>4. RowsHaveRoles
  BY RoleAssumption DEF RowsHaveRoles, Exists, ReferredTo, TypesOf, HasType
<1>5. MarkInv
  BY RoleAssumption DEF MarkInv, Exists
<1>6. HoldingsAreTyped /\ DanglingMappingsAreLate
  BY DEF HoldingsAreTyped, DanglingMappingsAreLate
<1> QED  BY <1>1, <1>2, <1>3, <1>4, <1>5, <1>6 DEF IInv

(***************************************************************************)
(* The request that moves.                                                 *)
(***************************************************************************)
LEMMA BeginType ==
  ASSUME NEW q \in Requests, ReqOK, NEW r \in RequestType, Begin(q, r)
  PROVE  /\ ReqOK' /\ req'[q] = r
         /\ \A p \in Requests \ {q} : req'[p] = req[p]
  BY DEF Begin, ReqOK

LEMMA GotoType ==
  ASSUME NEW q \in Requests, ReqOK, NEW pc \in Steps, Goto(q, pc)
  PROVE  /\ ReqOK' /\ req'[q].pc = pc /\ req'[q].op = req[q].op
         /\ req'[q].role = req[q].role /\ req'[q].csp = req[q].csp
         /\ req'[q].name = req[q].name /\ req'[q].types = req[q].types
         /\ req'[q].holder = req[q].holder
         /\ \A p \in Requests \ {q} : req'[p] = req[p]
  BY DEF Goto, ReqOK, RequestType

LEMMA FinishType ==
  ASSUME NEW q \in Requests, ReqOK, Finish(q)
  PROVE  /\ ReqOK' /\ req'[q].pc = "idle"
         /\ \A p \in Requests \ {q} : req'[p] = req[p]
  BY DEF Finish, ReqOK, Idle, RequestType, Steps

(***************************************************************************)
(* What no step takes back, so that what the other requests carry lasts.   *)
(***************************************************************************)
Lasting ==
    /\ unmarked \subseteq unmarked'
    /\ subs \cup stripped \subseteq subs' \cup stripped'
    /\ late \subseteq late'
    /\ \A m \in csp' \ csp : m \in late' \/ ~BeingDeleted(m[2])

LEMMA OthersCarry ==
  ASSUME IInv, Lasting, NEW p \in Requests, req'[p] = req[p]
  PROVE  Carries(p)'
  BY DEF IInv, Lasting, Carries, BeingDeleted, At, Typed

LEMMA StepKeeps ==
  ASSUME IInv, NEW q \in Requests, Lasting, ReqOK', Carries(q)',
         \A p \in Requests \ {q} : req'[p] = req[p],
         TablesOK', RowsHaveRoles', MarkInv', HoldingsAreTyped', DanglingMappingsAreLate'
  PROVE  IInv'
<1>1. \A p \in Requests : Carries(p)'
  BY OthersCarry
<1> QED  BY <1>1 DEF IInv

tables == <<catalogue, mappings, holdings, drawn, history>>
LEMMA ReadKeeps ==
  ASSUME IInv, NEW q \in Requests, UNCHANGED tables, ReqOK', Carries(q)',
         \A p \in Requests \ {q} : req'[p] = req[p]
  PROVE  IInv'
<1> USE DEF tables, catalogue, mappings, holdings, history
<1>1. Lasting
  BY DEF Lasting
<1>2. TablesOK'
  BY DEF IInv, TablesOK
<1>3. RowsHaveRoles' /\ MarkInv'
  BY DEF IInv, RowsHaveRoles, MarkInv, Exists, ReferredTo, TypesOf, HasType
<1>4. HoldingsAreTyped' /\ DanglingMappingsAreLate'
  BY DEF IInv, HoldingsAreTyped, DanglingMappingsAreLate
<1> QED  BY <1>1, <1>2, <1>3, <1>4, StepKeeps

(***************************************************************************)
(* Requests that arrive: nothing is written.                               *)
(***************************************************************************)
LEMMA CreateBegins ==
  ASSUME IInv, NEW q \in Requests
  PROVE  /\ \A n \in Names, types \in AskTypes, ms \in SUBSET Menus, c \in CspRoles \cup {None} :
               CreateRole(q, n, types, ms, c) => IInv'
         /\ \A n \in Names, types \in SUBSET Types : CreateRoleOfType(q, n, types) => IInv'
<1>1. ASSUME NEW n \in Names, NEW types \in AskTypes, NEW ms \in SUBSET Menus,
             NEW c \in CspRoles \cup {None},
             CreateRole(q, n, types, ms, c)
      PROVE  IInv'
  <2> DEFINE r == [Idle EXCEPT !.op = "create", !.name = n, !.types = types, !.menus = ms,
                             !.csp = c, !.pc = IF c = None THEN "insert" ELSE "ensureCsp"]
  <2>1. r \in RequestType
    BY <1>1, AskAssumption DEF CreateRole, RequestType, Idle, AllOps, Steps, Holders, TypesOf, HasType
  <2>2. ReqOK' /\ req'[q] = r /\ \A p \in Requests \ {q} : req'[p] = req[p]
    BY <1>1, <2>1, BeginType DEF CreateRole, IInv
  <2>3. Carries(q)'
    BY <1>1, <2>2 DEF CreateRole, Carries, Idle, Deleting, WithRole, WithCsp, Typed
  <2> QED
    BY <1>1, <2>2, <2>3, ReadKeeps DEF CreateRole, tables
<1>2. ASSUME NEW n \in Names, NEW types \in SUBSET Types,
             CreateRoleOfType(q, n, types)
      PROVE  IInv'
  <2> DEFINE r == [Idle EXCEPT !.op = "createTyped", !.name = n, !.types = types, !.pc = "insert"]
  <2>1. r \in RequestType
    BY <1>2, AskAssumption DEF CreateRoleOfType, RequestType, Idle, AllOps, Steps, Holders, TypesOf, HasType
  <2>2. ReqOK' /\ req'[q] = r /\ \A p \in Requests \ {q} : req'[p] = req[p]
    BY <1>2, <2>1, BeginType DEF CreateRoleOfType, IInv
  <2>3. Carries(q)'
    BY <1>2, <2>2 DEF CreateRoleOfType, Carries, Idle, Deleting, WithRole, WithCsp, Typed
  <2> QED
    BY <1>2, <2>2, <2>3, ReadKeeps DEF CreateRoleOfType, tables
<1> QED  BY <1>1, <1>2

LEMMA UpdateBegins ==
  ASSUME IInv, NEW q \in Requests, NEW r0 \in Roles, NEW n \in Names, NEW types \in AskTypes
  PROVE  /\ \A ms \in SUBSET Menus, c \in CspRoles \cup {None} :
               UpdateRole(q, r0, n, types, ms, c) => IInv'
         /\ \A t \in Types : UpdateRoleOfType(q, r0, t, n, types) => IInv'
<1>1. ASSUME NEW ms \in SUBSET Menus, NEW c \in CspRoles \cup {None},
             UpdateRole(q, r0, n, types, ms, c)
      PROVE  IInv'
  <2> DEFINE r == [op |-> "update", pc |-> "save", role |-> r0, name |-> n, types |-> types,
                menus |-> ms, csp |-> c, holder |-> None]
  <2>1. r \in RequestType
    BY <1>1, AskAssumption DEF UpdateRole, RequestType, Idle, AllOps, Steps, Holders, TypesOf, HasType
  <2>2. ReqOK' /\ req'[q] = r /\ \A p \in Requests \ {q} : req'[p] = req[p]
    BY <1>1, <2>1, BeginType DEF UpdateRole, IInv
  <2>3. Carries(q)'
    BY <1>1, <2>2 DEF UpdateRole, Carries, Idle, Deleting, WithRole, WithCsp, Typed
  <2> QED
    BY <1>1, <2>2, <2>3, ReadKeeps DEF UpdateRole, tables
<1>2. ASSUME NEW t \in Types,
             UpdateRoleOfType(q, r0, t, n, types)
      PROVE  IInv'
  <2> DEFINE r == [Idle EXCEPT !.op = "updateTyped", !.pc = "save", !.role = r0, !.name = n,
                             !.types = types]
  <2>1. r \in RequestType
    BY <1>2, AskAssumption DEF UpdateRoleOfType, RequestType, Idle, AllOps, Steps, Holders, TypesOf, HasType
  <2>2. ReqOK' /\ req'[q] = r /\ \A p \in Requests \ {q} : req'[p] = req[p]
    BY <1>2, <2>1, BeginType DEF UpdateRoleOfType, IInv
  <2>3. Carries(q)'
    BY <1>2, <2>2 DEF UpdateRoleOfType, Carries, Idle, Deleting, WithRole, WithCsp, Typed
  <2> QED
    BY <1>2, <2>2, <2>3, ReadKeeps DEF UpdateRoleOfType, tables
<1> QED  BY <1>1, <1>2

LEMMA DeleteBegins ==
  ASSUME IInv, NEW q \in Requests, NEW r0 \in Roles
  PROVE  /\ \A t \in Types \cup {None} : DeleteRole(q, r0, t) => IInv'
         /\ \A t \in Types, pc \in {"dropSub", "listMappings"} :
               DeleteRoleOfType(q, r0, t, pc) => IInv'
<1>1. ASSUME NEW t \in Types \cup {None},
             DeleteRole(q, r0, t)
      PROVE  IInv'
  <2> DEFINE r == [Idle EXCEPT !.op = "delete", !.pc = "dropMenus", !.role = r0,
                             !.types = TypesOf(r0) \cap (IF t = None THEN Types ELSE {t})]
  <2>1. r \in RequestType
    BY <1>1, AskAssumption DEF DeleteRole, RequestType, Idle, AllOps, Steps, Holders, TypesOf, HasType
  <2>2. ReqOK' /\ req'[q] = r /\ \A p \in Requests \ {q} : req'[p] = req[p]
    BY <1>1, <2>1, BeginType DEF DeleteRole, IInv
  <2>3. Carries(q)'
    BY <1>1, <2>2 DEF DeleteRole, Carries, Idle, Deleting, WithRole, WithCsp, Typed, IInv, MarkInv, history, catalogue
  <2> QED
    BY <1>1, <2>2, <2>3, ReadKeeps DEF DeleteRole, tables
<1>2. ASSUME NEW t \in Types, NEW pc \in {"dropSub", "listMappings"},
             DeleteRoleOfType(q, r0, t, pc)
      PROVE  IInv'
  <2> DEFINE r == [Idle EXCEPT !.op = "deleteTyped", !.pc = pc, !.role = r0, !.types = {t}]
  <2>1. r \in RequestType
    BY <1>2, AskAssumption DEF DeleteRoleOfType, RequestType, Idle, AllOps, Steps, Holders, TypesOf, HasType
  <2>2. ReqOK' /\ req'[q] = r /\ \A p \in Requests \ {q} : req'[p] = req[p]
    BY <1>2, <2>1, BeginType DEF DeleteRoleOfType, IInv
  <2>3. Carries(q)'
    BY <1>2, <2>2 DEF DeleteRoleOfType, Carries, Idle, Deleting, WithRole, WithCsp, Typed
  <2> QED
    BY <1>2, <2>2, <2>3, ReadKeeps DEF DeleteRoleOfType, tables
<1> QED  BY <1>1, <1>2

LEMMA MappingBegins ==
  ASSUME IInv, NEW q \in Requests, NEW c \in CspRoles
  PROVE  /\ \A r0 \in Roles : AddCspRoleMappings(q, r0, c) => IInv'
         /\ DeleteCspRole(q, c) => IInv'
<1>1. ASSUME NEW r0 \in Roles,
             AddCspRoleMappings(q, r0, c)
      PROVE  IInv'
  <2> DEFINE r == [Idle EXCEPT !.op = "map", !.role = r0, !.csp = c,
                     !.pc = IF Exists(r0) /\ HasType(r0, "csp") THEN "mapCsp" ELSE "addSub"]
  <2>1. r \in RequestType
    BY <1>1, AskAssumption DEF AddCspRoleMappings, RequestType, Idle, AllOps, Steps, Holders, TypesOf, HasType
  <2>2. ReqOK' /\ req'[q] = r /\ \A p \in Requests \ {q} : req'[p] = req[p]
    BY <1>1, <2>1, BeginType DEF AddCspRoleMappings, IInv
  <2>3. Carries(q)'
    BY <1>1, <2>2 DEF AddCspRoleMappings, Carries, Idle, Deleting, WithRole, WithCsp, Typed
  <2> QED
    BY <1>1, <2>2, <2>3, ReadKeeps DEF AddCspRoleMappings, tables
<1>2. ASSUME DeleteCspRole(q, c)
      PROVE  IInv'
  <2> DEFINE r == [Idle EXCEPT !.op = "deleteCsp", !.pc = "cutMappings", !.csp = c]
  <2>1. r \in RequestType
    BY <1>2, AskAssumption DEF DeleteCspRole, RequestType, Idle, AllOps, Steps, Holders, TypesOf, HasType
  <2>2. ReqOK' /\ req'[q] = r /\ \A p \in Requests \ {q} : req'[p] = req[p]
    BY <1>2, <2>1, BeginType DEF DeleteCspRole, IInv
  <2>3. Carries(q)'
    BY <1>2, <2>2 DEF DeleteCspRole, Carries, Idle, Deleting, WithRole, WithCsp, Typed
  <2> QED
    BY <1>2, <2>2, <2>3, ReadKeeps DEF DeleteCspRole, tables
<1> QED  BY <1>1, <1>2

LEMMA HoldingBegins ==
  ASSUME IInv, NEW q \in Requests, NEW h \in Holders, NEW r0 \in Roles
  PROVE  /\ \A t \in {"platform", "workspace"} : AssignRole(q, h, r0, t) => IInv'
         /\ UpdateGroupWorkspaceRole(q, h, r0) => IInv'
<1>1. ASSUME NEW t \in {"platform", "workspace"},
             AssignRole(q, h, r0, t)
      PROVE  IInv'
  <2> DEFINE r == [Idle EXCEPT !.op = "assign", !.pc = "insertRow", !.role = r0, !.types = {t},
                             !.holder = h]
  <2>1. r \in RequestType
    BY <1>1, AskAssumption DEF AssignRole, RequestType, Idle, AllOps, Steps, Holders, TypesOf, HasType, Types
  <2>2. ReqOK' /\ req'[q] = r /\ \A p \in Requests \ {q} : req'[p] = req[p]
    BY <1>1, <2>1, BeginType DEF AssignRole, IInv
  <2>3. Carries(q)'
    BY <1>1, <2>2 DEF AssignRole, Carries, Idle, Deleting, WithRole, WithCsp, Typed, FindRoleByRoleID, HasType, catalogue, history
  <2> QED
    BY <1>1, <2>2, <2>3, ReadKeeps DEF AssignRole, tables
<1>2. ASSUME UpdateGroupWorkspaceRole(q, h, r0)
      PROVE  IInv'
  <2> DEFINE r == [Idle EXCEPT !.op = "change", !.pc = "changeRow", !.role = r0, !.holder = h]
  <2>1. r \in RequestType
    BY <1>2, AskAssumption DEF UpdateGroupWorkspaceRole, RequestType, Idle, AllOps, Steps, Holders, TypesOf, HasType
  <2>2. ReqOK' /\ req'[q] = r /\ \A p \in Requests \ {q} : req'[p] = req[p]
    BY <1>2, <2>1, BeginType DEF UpdateGroupWorkspaceRole, IInv
  <2>3. Carries(q)'
    BY <1>2, <2>2 DEF UpdateGroupWorkspaceRole, Carries, Idle, Deleting, WithRole, WithCsp, Typed, FindRoleByRoleID, HasType, catalogue, history
  <2> QED
    BY <1>2, <2>2, <2>3, ReadKeeps DEF UpdateGroupWorkspaceRole, tables
<1> QED  BY <1>1, <1>2

(***************************************************************************)
(* Steps that only read, and requests that end.                            *)
(***************************************************************************)
LEMMA ReadingSteps ==
  ASSUME IInv, NEW q \in Requests, NoMappingListed(q) \/ Abort(q)
  PROVE  IInv'
<1>1. CASE NoMappingListed(q)
  <2>1. /\ ReqOK' /\ req'[q].pc = "dropSub" /\ req'[q].role = req[q].role
        /\ \A p \in Requests \ {q} : req'[p] = req[p]
    BY <1>1, GotoType DEF NoMappingListed, IInv, Steps
  <2>2. Carries(q)'
    BY <1>1, <2>1 DEF NoMappingListed, At, Carries, IInv, Deleting, WithRole, WithCsp
  <2> QED  BY <1>1, <2>1, <2>2, ReadKeeps DEF NoMappingListed, tables
<1>2. CASE Abort(q)
  <2>1. /\ ReqOK' /\ req'[q].pc = "idle" /\ \A p \in Requests \ {q} : req'[p] = req[p]
    BY <1>2, FinishType DEF Abort, IInv
  <2>2. Carries(q)'
    BY <2>1 DEF Carries, Deleting, WithRole, WithCsp
  <2> QED  BY <1>2, <2>1, <2>2, ReadKeeps DEF Abort, tables
<1> QED  BY <1>1, <1>2

(***************************************************************************)
(* The steps that create and update a role.                                *)
(***************************************************************************)
\* What a request at a given step is known to carry.
LEMMA Asked ==
  ASSUME IInv, NEW q \in Requests
  PROVE  /\ req[q].types \subseteq Types /\ req[q].menus \subseteq Menus
         /\ req[q].csp # None => req[q].csp \in CspRoles
         /\ req[q].pc \in {"insert", "save"} => req[q].name \in Names /\ req[q].name # None
         /\ req[q].pc \in WithRole => req[q].role \in Roles
         /\ req[q].pc \in WithCsp => req[q].csp \in CspRoles
         /\ req[q].pc \in {"insertRow", "changeRow"} => req[q].holder \in Holders
<1>1. req[q] \in RequestType /\ Carries(q)
  BY DEF IInv, ReqOK
<1> QED  BY <1>1, NoneNowhere DEF RequestType, Carries

LEMMA MappingAdded ==
  ASSUME TablesOK, NEW r \in Roles, NEW c \in CspRoles, AddMapping(r, c)
  PROVE  /\ csp' = csp \cup {<<r, c>>} /\ csp' \subseteq Roles \X CspRoles
         /\ late \subseteq late' /\ late' \subseteq Roles \X CspRoles
         /\ <<r, c>> \in late' \/ (c \in cspRoles /\ ~BeingDeleted(c))
  BY DEF AddMapping, TablesOK

LEMMA EnsureKeeps ==
  ASSUME IInv, NEW q \in Requests, EnsureCspRole(q)
  PROVE  IInv'
<1> USE DEF catalogue, mappings, holdings, history
<1>1. /\ ReqOK' /\ req'[q].pc \in {"insert", "mapCsp"} /\ req'[q].role = req[q].role
      /\ req'[q].csp = req[q].csp /\ req'[q].op = req[q].op /\ req'[q].name = req[q].name
      /\ req'[q].pc = "insert" <=> req[q].op = "create"
      /\ \A p \in Requests \ {q} : req'[p] = req[p]
  BY GotoType DEF EnsureCspRole, IInv, Steps
<1>2. Carries(q)'
  BY <1>1 DEF EnsureCspRole, At, IInv, Carries, Deleting, WithRole, WithCsp, Typed
<1>3. Lasting
  BY <1>1 DEF EnsureCspRole, At, IInv, Lasting, TablesOK, ReqOK, RequestType
<1>4. TablesOK'
  BY <1>1 DEF EnsureCspRole, At, IInv, TablesOK, ReqOK, RequestType, Carries, WithRole, WithCsp, Deleting
<1>5. RowsHaveRoles'
  BY <1>1 DEF EnsureCspRole, At, IInv, RowsHaveRoles, Exists, ReferredTo, TypesOf, HasType
<1>6. MarkInv'
  BY <1>1 DEF EnsureCspRole, At, IInv, MarkInv, Exists
<1>7. HoldingsAreTyped' /\ DanglingMappingsAreLate'
  BY <1>1 DEF EnsureCspRole, At, IInv, HoldingsAreTyped, DanglingMappingsAreLate
<1> QED  BY <1>1, <1>2, <1>3, <1>4, <1>5, <1>6, <1>7, StepKeeps

LEMMA InsertKeeps ==
  ASSUME IInv, NEW q \in Requests, CreateRoleWithAllDependencies(q)
  PROVE  IInv'
<1> USE DEF catalogue, mappings, holdings, history
<1>1. /\ ReqOK' /\ req'[q].pc = "idle" /\ \A p \in Requests \ {q} : req'[p] = req[p]
  BY FinishType DEF CreateRoleWithAllDependencies, IInv
<1>2. PICK r \in NamedOrNew(req[q].name) :
        /\ name' = [name EXCEPT ![r] = req[q].name]
        /\ subs' = subs \cup ({r} \X req[q].types)
        /\ menus' = IF "platform" \in req[q].types THEN menus \cup ({r} \X req[q].menus) ELSE menus
        /\ IF req[q].csp = None THEN UNCHANGED <<csp, late>> ELSE AddMapping(r, req[q].csp)
        /\ drawn' = drawn \cup {r}
  BY DEF CreateRoleWithAllDependencies
<1>3. /\ r \in Roles /\ req[q].name \in Names /\ req[q].name # None
      /\ req[q].types \subseteq Types /\ req[q].menus \subseteq Menus
      /\ req[q].csp # None => req[q].csp \in CspRoles
  BY <1>2, Asked DEF NamedOrNew, FindRoleByRoleName, CreateRoleWithAllDependencies, At
<1>4. UNCHANGED <<marked, cspRoles, holdings, stripped, unmarked>>
  BY DEF CreateRoleWithAllDependencies
<1>5. /\ csp \subseteq csp' /\ csp' \subseteq Roles \X CspRoles
      /\ late \subseteq late' /\ late' \subseteq Roles \X CspRoles
      /\ \A m \in csp' \ csp : m[1] = r /\ (m \in late' \/ (m[2] \in cspRoles /\ ~BeingDeleted(m[2])))
  <2>1. CASE req[q].csp = None
    BY <1>2, <2>1 DEF IInv, TablesOK
  <2>2. CASE req[q].csp # None
    <3>1. AddMapping(r, req[q].csp) /\ r \in Roles /\ req[q].csp \in CspRoles /\ TablesOK
      BY <1>2, <1>3, <2>2 DEF IInv
    <3> DEFINE c == req[q].csp
    <3>2. /\ csp' = csp \cup {<<r, c>>} /\ csp' \subseteq Roles \X CspRoles
          /\ late \subseteq late' /\ late' \subseteq Roles \X CspRoles
          /\ <<r, c>> \in late' \/ (c \in cspRoles /\ ~BeingDeleted(c))
      BY <3>1, MappingAdded
    <3>3. \A m \in csp' \ csp : m = <<r, c>>
      BY <3>2
    <3>4. \A m \in csp' \ csp : m[1] = r /\ m[2] = c
      BY <3>3
    <3> QED  BY <3>2, <3>3, <3>4
  <2> QED  BY <2>1, <2>2
<1>6. Carries(q)'
  BY <1>1 DEF Carries, Deleting, WithRole, WithCsp
<1>7. Lasting
  BY <1>2, <1>4, <1>5 DEF Lasting
<1>8. TablesOK'
  BY <1>2, <1>3, <1>4, <1>5 DEF IInv, TablesOK
<1>9. RowsHaveRoles' /\ MarkInv'
  <2>1. name'[r] # None /\ \A s \in Roles \ {r} : name'[s] = name[s]
    BY <1>2, <1>3 DEF IInv, TablesOK
  <2>2. \A s \in Roles \ {r} : \A t \in Types : <<s, t>> \in subs' => <<s, t>> \in subs
    BY <1>2
  <2>3. \A s \in Roles \ {r} : \A c \in CspRoles : <<s, c>> \in csp' => <<s, c>> \in csp
    BY <1>5
  <2>4. RowsHaveRoles'
    <3> SUFFICES ASSUME NEW s \in Roles \ {r}, name[s] = None
                 PROVE  /\ \A t \in Types : <<s, t>> \notin subs'
                        /\ \A c \in CspRoles : <<s, c>> \notin csp'
                        /\ \A h \in Holders : <<h, s>> \notin holds' /\ <<h, s>> \notin members'
      BY <2>1 DEF RowsHaveRoles, Exists, ReferredTo, TypesOf, HasType
    <3> QED
      BY <2>2, <2>3, <1>4 DEF IInv, RowsHaveRoles, Exists, ReferredTo, TypesOf, HasType
  <2>5. MarkInv'
    BY <2>1, <1>4, RoleAssumption DEF IInv, MarkInv, Exists
  <2> QED  BY <2>4, <2>5
<1>10. HoldingsAreTyped' /\ DanglingMappingsAreLate'
  BY <1>2, <1>4, <1>5 DEF IInv, HoldingsAreTyped, DanglingMappingsAreLate
<1> QED  BY <1>1, <1>6, <1>7, <1>8, <1>9, <1>10, StepKeeps

LEMMA SaveKeeps ==
  ASSUME IInv, NEW q \in Requests, UpdateRoleWithSubs(q)
  PROVE  IInv'
<1> USE DEF catalogue, mappings, holdings, history
<1> DEFINE r == req[q].role
           types == req[q].types
<1>1. /\ ReqOK'
      /\ req'[q].pc = "clearMenus" \/ req'[q].pc = "clearCsp" \/ req'[q].pc = "idle"
      /\ req'[q].pc # "idle" => req'[q].role = req[q].role /\ req'[q].csp = req[q].csp /\ req'[q].op = req[q].op
      /\ req'[q].pc = "clearCsp" => req[q].csp # None
      /\ \A p \in Requests \ {q} : req'[p] = req[p]
  BY GotoType, FinishType DEF UpdateRoleWithSubs, IInv, Steps, Proceed, AfterSave
<1>2. /\ name' = [name EXCEPT ![r] = req[q].name] /\ marked' = marked \ {r}
      /\ unmarked' = unmarked \cup ({r} \cap Predefined)
      /\ subs' = {s \in subs : s[1] # r} \cup ({r} \X types)
      /\ stripped' = stripped \cup {<<r, t>> : t \in (Types \ types) \cap TypesOf(r)}
      /\ drawn' = drawn \cup {r}
      /\ UNCHANGED <<menus, cspRoles, csp, holds, members, late>>
  BY DEF UpdateRoleWithSubs, Strip
<1>3. r \in Roles /\ req[q].name \in Names /\ req[q].name # None /\ types \subseteq Types
  BY Asked DEF UpdateRoleWithSubs, At, WithRole
<1>4. Carries(q)'
  BY <1>1, <1>3, Asked DEF Carries, Deleting, WithRole, WithCsp, UpdateRoleWithSubs, At, IInv
<1>5. subs \cup stripped \subseteq subs' \cup stripped'
  <2>1. ASSUME NEW s \in subs, s \notin subs' PROVE s \in stripped'
    <3>1. PICK t \in Types : s = <<r, t>> /\ t \notin types
      BY <1>2, <1>3, <2>1 DEF IInv, TablesOK
    <3> QED  BY <1>2, <3>1 DEF TypesOf, HasType
  <2> QED  BY <1>2, <2>1
<1>6. Lasting
  BY <1>2, <1>5 DEF Lasting
<1>7. TablesOK'
  <2>1. subs' \subseteq Roles \X Types /\ stripped' \subseteq Roles \X Types
    BY <1>2, <1>3 DEF IInv, TablesOK, TypesOf
  <2> QED  BY <1>2, <1>3, <2>1 DEF IInv, TablesOK
<1>8. RowsHaveRoles' /\ MarkInv'
  <2>1. name'[r] # None /\ \A s \in Roles \ {r} : name'[s] = name[s]
    BY <1>2, <1>3 DEF IInv, TablesOK
  <2>2. \A s \in Roles \ {r} : \A t \in Types : <<s, t>> \in subs' => <<s, t>> \in subs
    BY <1>2
  <2>3. RowsHaveRoles'
    BY <1>2, <2>1, <2>2 DEF IInv, RowsHaveRoles, Exists, ReferredTo, TypesOf, HasType
  <2>4. MarkInv'
    BY <1>2, <2>1 DEF IInv, MarkInv, Exists
  <2> QED  BY <2>3, <2>4
<1>9. HoldingsAreTyped' /\ DanglingMappingsAreLate'
  BY <1>2, <1>5 DEF IInv, HoldingsAreTyped, DanglingMappingsAreLate
<1> QED  BY <1>1, <1>4, <1>6, <1>7, <1>8, <1>9, StepKeeps

LEMMA ClearMenusKeeps ==
  ASSUME IInv, NEW q \in Requests, ClearMenus(q)
  PROVE  IInv'
<1> USE DEF catalogue, mappings, holdings, history
<1>1. /\ ReqOK' /\ req'[q].pc = "setMenus" /\ req'[q].role = req[q].role
      /\ req'[q].csp = req[q].csp /\ req'[q].op = req[q].op /\ req'[q].name = req[q].name
      /\ \A p \in Requests \ {q} : req'[p] = req[p]
  BY GotoType DEF ClearMenus, IInv, Steps
<1>2. Carries(q)'
  BY <1>1 DEF ClearMenus, At, IInv, Carries, Deleting, WithRole, WithCsp, Typed
<1>3. Lasting
  BY <1>1 DEF ClearMenus, At, IInv, Lasting, TablesOK, ReqOK, RequestType
<1>4. TablesOK'
  BY <1>1 DEF ClearMenus, At, IInv, TablesOK, ReqOK, RequestType, Carries, WithRole, WithCsp, Deleting
<1>5. RowsHaveRoles'
  BY <1>1 DEF ClearMenus, At, IInv, RowsHaveRoles, Exists, ReferredTo, TypesOf, HasType
<1>6. MarkInv'
  BY <1>1 DEF ClearMenus, At, IInv, MarkInv, Exists
<1>7. HoldingsAreTyped' /\ DanglingMappingsAreLate'
  BY <1>1 DEF ClearMenus, At, IInv, HoldingsAreTyped, DanglingMappingsAreLate
<1> QED  BY <1>1, <1>2, <1>3, <1>4, <1>5, <1>6, <1>7, StepKeeps

LEMMA SetMenusKeeps ==
  ASSUME IInv, NEW q \in Requests, SetMenus(q)
  PROVE  IInv'
<1> USE DEF catalogue, mappings, holdings, history
<1>1. /\ ReqOK'
      /\ req'[q].pc = "clearCsp" \/ req'[q].pc = "idle"
      /\ req'[q].pc # "idle" => req'[q].role = req[q].role /\ req'[q].csp = req[q].csp /\ req'[q].op = req[q].op
      /\ req'[q].pc = "clearCsp" => req[q].csp # None
      /\ \A p \in Requests \ {q} : req'[p] = req[p]
  BY GotoType, FinishType DEF SetMenus, IInv, Steps, Proceed, AfterMenus
<1>2. Carries(q)'
  BY <1>1, Asked DEF SetMenus, At, IInv, Carries, Deleting, WithRole, WithCsp, Typed
<1>3. Lasting
  BY <1>1 DEF SetMenus, At, IInv, Lasting, TablesOK, ReqOK, RequestType
<1>4. TablesOK'
  BY <1>1, Asked DEF SetMenus, At, IInv, TablesOK, ReqOK, RequestType, Carries, WithRole, WithCsp, Deleting
<1>5. RowsHaveRoles'
  BY <1>1 DEF SetMenus, At, IInv, RowsHaveRoles, Exists, ReferredTo, TypesOf, HasType
<1>6. MarkInv'
  BY <1>1 DEF SetMenus, At, IInv, MarkInv, Exists
<1>7. HoldingsAreTyped' /\ DanglingMappingsAreLate'
  BY <1>1 DEF SetMenus, At, IInv, HoldingsAreTyped, DanglingMappingsAreLate
<1> QED  BY <1>1, <1>2, <1>3, <1>4, <1>5, <1>6, <1>7, StepKeeps

LEMMA ClearCspKeeps ==
  ASSUME IInv, NEW q \in Requests, ClearCsp(q)
  PROVE  IInv'
<1> USE DEF catalogue, mappings, holdings, history
<1>1. /\ ReqOK' /\ req'[q].pc = "ensureCsp" /\ req'[q].role = req[q].role
      /\ req'[q].csp = req[q].csp /\ req'[q].op = req[q].op /\ req'[q].name = req[q].name
      /\ \A p \in Requests \ {q} : req'[p] = req[p]
  BY GotoType DEF ClearCsp, IInv, Steps
<1>2. Carries(q)'
  BY <1>1 DEF ClearCsp, At, IInv, Carries, Deleting, WithRole, WithCsp, Typed
<1>3. Lasting
  BY <1>1 DEF ClearCsp, At, IInv, Lasting, TablesOK, ReqOK, RequestType
<1>4. TablesOK'
  BY <1>1 DEF ClearCsp, At, IInv, TablesOK, ReqOK, RequestType, Carries, WithRole, WithCsp, Deleting
<1>5. RowsHaveRoles'
  BY <1>1 DEF ClearCsp, At, IInv, RowsHaveRoles, Exists, ReferredTo, TypesOf, HasType
<1>6. MarkInv'
  BY <1>1 DEF ClearCsp, At, IInv, MarkInv, Exists
<1>7. HoldingsAreTyped' /\ DanglingMappingsAreLate'
  BY <1>1 DEF ClearCsp, At, IInv, HoldingsAreTyped, DanglingMappingsAreLate
<1> QED  BY <1>1, <1>2, <1>3, <1>4, <1>5, <1>6, <1>7, StepKeeps

LEMMA MapKeeps ==
  ASSUME IInv, NEW q \in Requests, CreateRoleCspRoleMapping(q)
  PROVE  IInv'
<1> USE DEF catalogue, mappings, holdings, history
<1> DEFINE r == req[q].role
           c == req[q].csp
<1>1. /\ ReqOK' /\ req'[q].pc = "idle" /\ \A p \in Requests \ {q} : req'[p] = req[p]
  BY FinishType DEF CreateRoleCspRoleMapping, IInv
<1>2. /\ Exists(r) /\ AddMapping(r, c)
      /\ UNCHANGED <<name, marked, subs, menus, cspRoles, holds, members, drawn, stripped, unmarked>>
  BY DEF CreateRoleCspRoleMapping
<1>3. r \in Roles /\ c \in CspRoles
  BY Asked DEF CreateRoleCspRoleMapping, At, WithRole, WithCsp
<1>4. /\ csp' = csp \cup {<<r, c>>} /\ csp' \subseteq Roles \X CspRoles
      /\ late \subseteq late' /\ late' \subseteq Roles \X CspRoles
      /\ <<r, c>> \in late' \/ (c \in cspRoles /\ ~BeingDeleted(c))
  BY <1>2, <1>3, MappingAdded DEF IInv
<1>5. Carries(q)'
  BY <1>1 DEF Carries, Deleting, WithRole, WithCsp
<1>6. Lasting
  BY <1>2, <1>4 DEF Lasting
<1>7. TablesOK'
  BY <1>2, <1>4 DEF IInv, TablesOK
<1>8. RowsHaveRoles' /\ MarkInv'
  BY <1>2, <1>4 DEF IInv, RowsHaveRoles, MarkInv, Exists, ReferredTo, TypesOf, HasType
<1>9. HoldingsAreTyped' /\ DanglingMappingsAreLate'
  BY <1>2, <1>4 DEF IInv, HoldingsAreTyped, DanglingMappingsAreLate
<1> QED  BY <1>1, <1>5, <1>6, <1>7, <1>8, <1>9, StepKeeps

LEMMA AddSubKeeps ==
  ASSUME IInv, NEW q \in Requests, CreateRoleSub(q)
  PROVE  IInv'
<1> USE DEF catalogue, mappings, holdings, history
<1>1. /\ ReqOK' /\ req'[q].pc = "mapCsp" /\ req'[q].role = req[q].role
      /\ req'[q].csp = req[q].csp /\ req'[q].op = req[q].op /\ req'[q].name = req[q].name
      /\ \A p \in Requests \ {q} : req'[p] = req[p]
  BY GotoType DEF CreateRoleSub, IInv, Steps
<1>2. Carries(q)'
  BY <1>1 DEF CreateRoleSub, At, IInv, Carries, Deleting, WithRole, WithCsp, Typed
<1>3. Lasting
  BY <1>1 DEF CreateRoleSub, At, IInv, Lasting, TablesOK, ReqOK, RequestType
<1>4. TablesOK'
  BY <1>1, Asked DEF CreateRoleSub, At, IInv, TablesOK, ReqOK, RequestType, Carries, WithRole, WithCsp, Deleting, Types
<1>5. RowsHaveRoles'
  BY <1>1 DEF CreateRoleSub, At, IInv, RowsHaveRoles, Exists, ReferredTo, TypesOf, HasType
<1>6. MarkInv'
  BY <1>1 DEF CreateRoleSub, At, IInv, MarkInv, Exists
<1>7. HoldingsAreTyped' /\ DanglingMappingsAreLate'
  BY <1>1 DEF CreateRoleSub, At, IInv, HoldingsAreTyped, DanglingMappingsAreLate
<1> QED  BY <1>1, <1>2, <1>3, <1>4, <1>5, <1>6, <1>7, StepKeeps

(***************************************************************************)
(* The steps that delete a role or a CSP role.                             *)
(***************************************************************************)
LEMMA DropMenusKeeps ==
  ASSUME IInv, NEW q \in Requests, DropMenus(q)
  PROVE  IInv'
<1> USE DEF catalogue, mappings, holdings, history
<1>1. /\ ReqOK' /\ req'[q].pc = "dropCsp" /\ req'[q].role = req[q].role
      /\ req'[q].csp = req[q].csp /\ req'[q].op = req[q].op /\ req'[q].name = req[q].name
      /\ \A p \in Requests \ {q} : req'[p] = req[p]
  BY GotoType DEF DropMenus, IInv, Steps
<1>2. Carries(q)'
  BY <1>1 DEF DropMenus, At, IInv, Carries, Deleting, WithRole, WithCsp, Typed
<1>3. Lasting
  BY <1>1 DEF DropMenus, At, IInv, Lasting, TablesOK, ReqOK, RequestType
<1>4. TablesOK'
  BY <1>1 DEF DropMenus, At, IInv, TablesOK, ReqOK, RequestType, Carries, WithRole, WithCsp, Deleting
<1>5. RowsHaveRoles'
  BY <1>1 DEF DropMenus, At, IInv, RowsHaveRoles, Exists, ReferredTo, TypesOf, HasType
<1>6. MarkInv'
  BY <1>1 DEF DropMenus, At, IInv, MarkInv, Exists
<1>7. HoldingsAreTyped' /\ DanglingMappingsAreLate'
  BY <1>1 DEF DropMenus, At, IInv, HoldingsAreTyped, DanglingMappingsAreLate
<1> QED  BY <1>1, <1>2, <1>3, <1>4, <1>5, <1>6, <1>7, StepKeeps

LEMMA DropCspKeeps ==
  ASSUME IInv, NEW q \in Requests, DropCsp(q)
  PROVE  IInv'
<1> USE DEF catalogue, mappings, holdings, history
<1>1. /\ ReqOK' /\ req'[q].pc = "dropSubs" /\ req'[q].role = req[q].role
      /\ req'[q].csp = req[q].csp /\ req'[q].op = req[q].op /\ req'[q].name = req[q].name
      /\ \A p \in Requests \ {q} : req'[p] = req[p]
  BY GotoType DEF DropCsp, IInv, Steps
<1>2. Carries(q)'
  BY <1>1 DEF DropCsp, At, IInv, Carries, Deleting, WithRole, WithCsp, Typed
<1>3. Lasting
  BY <1>1 DEF DropCsp, At, IInv, Lasting, TablesOK, ReqOK, RequestType
<1>4. TablesOK'
  BY <1>1 DEF DropCsp, At, IInv, TablesOK, ReqOK, RequestType, Carries, WithRole, WithCsp, Deleting
<1>5. RowsHaveRoles'
  BY <1>1 DEF DropCsp, At, IInv, RowsHaveRoles, Exists, ReferredTo, TypesOf, HasType
<1>6. MarkInv'
  BY <1>1 DEF DropCsp, At, IInv, MarkInv, Exists
<1>7. HoldingsAreTyped' /\ DanglingMappingsAreLate'
  BY <1>1 DEF DropCsp, At, IInv, HoldingsAreTyped, DanglingMappingsAreLate
<1> QED  BY <1>1, <1>2, <1>3, <1>4, <1>5, <1>6, <1>7, StepKeeps

LEMMA DropSubsKeeps ==
  ASSUME IInv, NEW q \in Requests, DeleteRoleSubs(q)
  PROVE  IInv'
<1> USE DEF catalogue, mappings, holdings, history
<1>1. /\ ReqOK' /\ req'[q].pc = "dropMaster" /\ req'[q].role = req[q].role
      /\ req'[q].csp = req[q].csp /\ req'[q].op = req[q].op /\ req'[q].name = req[q].name
      /\ \A p \in Requests \ {q} : req'[p] = req[p]
  BY GotoType DEF DeleteRoleSubs, IInv, Steps
<1>2. Carries(q)'
  BY <1>1 DEF DeleteRoleSubs, At, IInv, Carries, Deleting, WithRole, WithCsp, Typed, Strip
<1>3. Lasting
  BY <1>1 DEF DeleteRoleSubs, At, IInv, Lasting, TablesOK, ReqOK, RequestType, Strip, TypesOf, HasType
<1>4. TablesOK'
  BY <1>1, Asked DEF DeleteRoleSubs, At, IInv, TablesOK, ReqOK, RequestType, Carries, WithRole, WithCsp, Deleting, Strip, TypesOf
<1>5. RowsHaveRoles'
  BY <1>1 DEF DeleteRoleSubs, At, IInv, RowsHaveRoles, Exists, ReferredTo, TypesOf, HasType
<1>6. MarkInv'
  BY <1>1 DEF DeleteRoleSubs, At, IInv, MarkInv, Exists
<1>7. HoldingsAreTyped' /\ DanglingMappingsAreLate'
  BY <1>1, <1>3 DEF DeleteRoleSubs, At, IInv, HoldingsAreTyped, DanglingMappingsAreLate, Strip, Lasting
<1> QED  BY <1>1, <1>2, <1>3, <1>4, <1>5, <1>6, <1>7, StepKeeps

LEMMA DropMasterKeeps ==
  ASSUME IInv, NEW q \in Requests, DeleteRoleMaster(q)
  PROVE  IInv'
<1> USE DEF catalogue, mappings, holdings, history
<1>1. /\ ReqOK' /\ req'[q].pc = "idle" /\ \A p \in Requests \ {q} : req'[p] = req[p]
  BY FinishType DEF DeleteRoleMaster, IInv
<1>2. Carries(q)'
  BY <1>1 DEF DeleteRoleMaster, At, IInv, Carries, Deleting, WithRole, WithCsp, Typed
<1>3. Lasting
  BY <1>1 DEF DeleteRoleMaster, At, IInv, Lasting, TablesOK, ReqOK, RequestType
<1>4. TablesOK'
  BY <1>1 DEF DeleteRoleMaster, At, IInv, TablesOK, ReqOK, RequestType, Carries, WithRole, WithCsp, Deleting
<1>5. RowsHaveRoles'
  BY <1>1, Asked DEF DeleteRoleMaster, At, IInv, RowsHaveRoles, Exists, ReferredTo, TypesOf, HasType, TablesOK, WithRole, Deleting
<1>6. MarkInv'
  BY <1>1, Asked, RoleAssumption DEF DeleteRoleMaster, At, IInv, MarkInv, Exists, TablesOK, Carries, WithRole, Deleting
<1>7. HoldingsAreTyped' /\ DanglingMappingsAreLate'
  BY <1>1 DEF DeleteRoleMaster, At, IInv, HoldingsAreTyped, DanglingMappingsAreLate
<1> QED  BY <1>1, <1>2, <1>3, <1>4, <1>5, <1>6, <1>7, StepKeeps

LEMMA DropSubKeeps ==
  ASSUME IInv, NEW q \in Requests, DropSub(q)
  PROVE  IInv'
<1> USE DEF catalogue, mappings, holdings, history
<1>0. subs \subseteq subs' \cup stripped' /\ stripped \subseteq stripped'
  <2>1. ASSUME NEW s \in subs, s \notin subs' PROVE s \in stripped'
    <3>1. PICK t \in req[q].types : s = <<req[q].role, t>>
      BY <2>1 DEF DropSub
    <3>2. t \in Types
      BY Asked
    <3> QED  BY <2>1, <3>1, <3>2 DEF DropSub, Strip, TypesOf, HasType
  <2> QED  BY <2>1 DEF DropSub, Strip
<1>1. /\ ReqOK' /\ req'[q].pc = "idle" /\ \A p \in Requests \ {q} : req'[p] = req[p]
  BY FinishType DEF DropSub, IInv
<1>2. Carries(q)'
  BY <1>1 DEF DropSub, At, IInv, Carries, Deleting, WithRole, WithCsp, Typed
<1>3. Lasting
  BY <1>1, <1>0 DEF DropSub, At, IInv, Lasting, TablesOK, ReqOK, RequestType
<1>4. TablesOK'
  BY <1>1, Asked DEF DropSub, At, IInv, TablesOK, ReqOK, RequestType, Carries, WithRole, WithCsp, Deleting, Strip, TypesOf
<1>5. RowsHaveRoles'
  BY <1>1 DEF DropSub, At, IInv, RowsHaveRoles, Exists, ReferredTo, TypesOf, HasType
<1>6. MarkInv'
  BY <1>1 DEF DropSub, At, IInv, MarkInv, Exists
<1>7. HoldingsAreTyped' /\ DanglingMappingsAreLate'
  BY <1>1, <1>3 DEF DropSub, At, IInv, HoldingsAreTyped, DanglingMappingsAreLate, Lasting
<1> QED  BY <1>1, <1>2, <1>3, <1>4, <1>5, <1>6, <1>7, StepKeeps

LEMMA CutKeeps ==
  ASSUME IInv, NEW q \in Requests, CutMappings(q)
  PROVE  IInv'
<1> USE DEF catalogue, mappings, holdings, history
<1>1. /\ ReqOK' /\ req'[q].pc = "dropCspRole" /\ req'[q].role = req[q].role
      /\ req'[q].csp = req[q].csp /\ req'[q].op = req[q].op /\ req'[q].name = req[q].name
      /\ \A p \in Requests \ {q} : req'[p] = req[p]
  BY GotoType DEF CutMappings, IInv, Steps
<1>2. Carries(q)'
  BY <1>1 DEF CutMappings, At, IInv, Carries, Deleting, WithRole, WithCsp, Typed
<1>3. Lasting
  BY <1>1 DEF CutMappings, At, IInv, Lasting, TablesOK, ReqOK, RequestType
<1>4. TablesOK'
  BY <1>1 DEF CutMappings, At, IInv, TablesOK, ReqOK, RequestType, Carries, WithRole, WithCsp, Deleting
<1>5. RowsHaveRoles'
  BY <1>1 DEF CutMappings, At, IInv, RowsHaveRoles, Exists, ReferredTo, TypesOf, HasType
<1>6. MarkInv'
  BY <1>1 DEF CutMappings, At, IInv, MarkInv, Exists
<1>7. HoldingsAreTyped' /\ DanglingMappingsAreLate'
  BY <1>1 DEF CutMappings, At, IInv, HoldingsAreTyped, DanglingMappingsAreLate
<1> QED  BY <1>1, <1>2, <1>3, <1>4, <1>5, <1>6, <1>7, StepKeeps

LEMMA DropCspRoleKeeps ==
  ASSUME IInv, NEW q \in Requests, DropCspRole(q)
  PROVE  IInv'
<1> USE DEF catalogue, mappings, holdings, history
<1>1. /\ ReqOK' /\ req'[q].pc = "idle" /\ \A p \in Requests \ {q} : req'[p] = req[p]
  BY FinishType DEF DropCspRole, IInv
<1>2. Carries(q)'
  BY <1>1 DEF DropCspRole, At, IInv, Carries, Deleting, WithRole, WithCsp, Typed
<1>3. Lasting
  BY <1>1 DEF DropCspRole, At, IInv, Lasting, TablesOK, ReqOK, RequestType
<1>4. TablesOK'
  BY <1>1 DEF DropCspRole, At, IInv, TablesOK, ReqOK, RequestType, Carries, WithRole, WithCsp, Deleting
<1>5. RowsHaveRoles'
  BY <1>1 DEF DropCspRole, At, IInv, RowsHaveRoles, Exists, ReferredTo, TypesOf, HasType
<1>6. MarkInv'
  BY <1>1 DEF DropCspRole, At, IInv, MarkInv, Exists
<1>7. HoldingsAreTyped' /\ DanglingMappingsAreLate'
  BY <1>1 DEF DropCspRole, At, IInv, HoldingsAreTyped, DanglingMappingsAreLate, Carries
<1> QED  BY <1>1, <1>2, <1>3, <1>4, <1>5, <1>6, <1>7, StepKeeps

(***************************************************************************)
(* The steps that write who holds a role, and the calls of one statement.  *)
(***************************************************************************)
LEMMA HoldKeeps ==
  ASSUME IInv, NEW q \in Requests, InsertHolding(q)
  PROVE  IInv'
<1> USE DEF catalogue, mappings, holdings, history
<1>1. /\ ReqOK' /\ req'[q].pc = "idle" /\ \A p \in Requests \ {q} : req'[p] = req[p]
  BY FinishType DEF InsertHolding, IInv
<1>2. Carries(q)'
  BY <1>1 DEF InsertHolding, At, IInv, Carries, Deleting, WithRole, WithCsp, Typed
<1>3. Lasting
  BY <1>1 DEF InsertHolding, At, IInv, Lasting, TablesOK, ReqOK, RequestType
<1>4. TablesOK'
  BY <1>1, Asked DEF InsertHolding, At, IInv, TablesOK, ReqOK, RequestType, Carries, WithRole, WithCsp, Deleting
<1>5. RowsHaveRoles'
  BY <1>1 DEF InsertHolding, At, IInv, RowsHaveRoles, Exists, ReferredTo, TypesOf, HasType
<1>6. MarkInv'
  BY <1>1 DEF InsertHolding, At, IInv, MarkInv, Exists
<1>7. HoldingsAreTyped' /\ DanglingMappingsAreLate'
  BY <1>1 DEF InsertHolding, At, IInv, HoldingsAreTyped, DanglingMappingsAreLate, Carries, Typed
<1> QED  BY <1>1, <1>2, <1>3, <1>4, <1>5, <1>6, <1>7, StepKeeps

LEMMA ChangeKeeps ==
  ASSUME IInv, NEW q \in Requests, ChangeRow(q)
  PROVE  IInv'
<1> USE DEF catalogue, mappings, holdings, history
<1>1. /\ ReqOK' /\ req'[q].pc = "idle" /\ \A p \in Requests \ {q} : req'[p] = req[p]
  BY FinishType DEF ChangeRow, IInv
<1>2. Carries(q)'
  BY <1>1 DEF ChangeRow, At, IInv, Carries, Deleting, WithRole, WithCsp, Typed
<1>3. Lasting
  BY <1>1 DEF ChangeRow, At, IInv, Lasting, TablesOK, ReqOK, RequestType
<1>4. TablesOK'
  BY <1>1, Asked DEF ChangeRow, At, IInv, TablesOK, ReqOK, RequestType, Carries, WithRole, WithCsp, Deleting
<1>5. RowsHaveRoles'
  BY <1>1 DEF ChangeRow, At, IInv, RowsHaveRoles, Exists, ReferredTo, TypesOf, HasType
<1>6. MarkInv'
  BY <1>1 DEF ChangeRow, At, IInv, MarkInv, Exists
<1>7. HoldingsAreTyped' /\ DanglingMappingsAreLate'
  BY <1>1 DEF ChangeRow, At, IInv, HoldingsAreTyped, DanglingMappingsAreLate, Carries, Typed
<1> QED  BY <1>1, <1>2, <1>3, <1>4, <1>5, <1>6, <1>7, StepKeeps

LEMMA SingleKeeps ==
  ASSUME IInv, SingleStep
  PROVE  IInv'
<1> USE DEF catalogue, mappings, holdings, history
<1>1. /\ UNCHANGED <<name, marked, subs, menus, req, stripped, unmarked, late>>
      /\ csp' \subseteq csp /\ holds' \subseteq holds /\ members' \subseteq members
      /\ cspRoles \subseteq cspRoles' /\ cspRoles' \subseteq CspRoles
      /\ drawn' \subseteq Roles \cup CspRoles
  BY DEF IInv, TablesOK, SingleStep, RemoveCspRoleMappings, CreateCspRole, RemoveRole,
         RemoveGroupWorkspaceRole
<1>2. Lasting
  BY <1>1 DEF Lasting
<1>3. \A p \in Requests : Carries(p)'
  BY <1>1, <1>2, OthersCarry
<1>4. TablesOK' /\ ReqOK'
  BY <1>1 DEF IInv, TablesOK, ReqOK
<1>5. RowsHaveRoles' /\ MarkInv'
  BY <1>1 DEF IInv, RowsHaveRoles, MarkInv, Exists, ReferredTo, TypesOf, HasType
<1>6. HoldingsAreTyped' /\ DanglingMappingsAreLate'
  BY <1>1 DEF IInv, HoldingsAreTyped, DanglingMappingsAreLate
<1> QED  BY <1>3, <1>4, <1>5, <1>6 DEF IInv

(***************************************************************************)
(* Every step keeps the invariant.                                         *)
(***************************************************************************)
LEMMA NextIInv == IInv /\ [RoleNext]_roleVars => IInv'
<1> SUFFICES ASSUME IInv, [RoleNext]_roleVars PROVE IInv'
  OBVIOUS
<1>1. ASSUME NEW q \in Requests, CreateStep(q) PROVE IInv'
  BY <1>1, CreateBegins, EnsureKeeps, InsertKeeps
     DEF CreateStep, CreatePlatformRole, CreateWorkspaceRole, CreateCspRoleMaster, Types
<1>2. ASSUME NEW q \in Requests, UpdateStep(q) PROVE IInv'
  BY <1>2, UpdateBegins, SaveKeeps, ClearMenusKeeps, SetMenusKeeps, ClearCspKeeps
     DEF UpdateStep, UpdatePlatformRole, UpdateWorkspaceRole, UpdateCspRoleMaster, Types
<1>3. ASSUME NEW q \in Requests, MappingStep(q) PROVE IInv'
  BY <1>3, MappingBegins, AddSubKeeps, MapKeeps, CutKeeps, DropCspRoleKeeps DEF MappingStep
<1>4. ASSUME NEW q \in Requests, DeleteStep(q) PROVE IInv'
  BY <1>4, DeleteBegins, DropMenusKeeps, DropCspKeeps, DropSubsKeeps, DropMasterKeeps,
     ReadingSteps, DropSubKeeps
     DEF DeleteStep, DeletePlatformRole, DeleteWorkspaceRole, DeleteCspRoleMaster, Types
<1>5. ASSUME NEW q \in Requests, HoldingStep(q) PROVE IInv'
  BY <1>5, HoldingBegins, HoldKeeps, ChangeKeeps DEF HoldingStep, AssignGroupWorkspace, Holders
<1>6. ASSUME NEW q \in Requests, Abort(q) PROVE IInv'
  BY <1>6, ReadingSteps
<1>7. CASE SingleStep
  BY <1>7, SingleKeeps
<1>8. CASE UNCHANGED roleVars
  <2>1. UNCHANGED <<name, marked, subs, menus, cspRoles, csp, holds, members, drawn, req,
                    stripped, unmarked, late>>
    BY <1>8 DEF roleVars
  <2>2. UNCHANGED tables /\ req' = req
    BY <2>1 DEF tables, catalogue, mappings, holdings, history
  <2>3. Lasting
    BY <2>1 DEF Lasting
  <2>4. \A p \in Requests : Carries(p)'
    BY <2>2, <2>3, OthersCarry
  <2>5. TablesOK' /\ ReqOK' /\ RowsHaveRoles' /\ MarkInv'
    BY <2>1 DEF IInv, TablesOK, ReqOK, RowsHaveRoles, MarkInv, Exists, ReferredTo, TypesOf, HasType
  <2>6. HoldingsAreTyped' /\ DanglingMappingsAreLate'
    BY <2>1 DEF IInv, HoldingsAreTyped, DanglingMappingsAreLate
  <2> QED  BY <2>4, <2>5, <2>6 DEF IInv
<1> QED  BY <1>1, <1>2, <1>3, <1>4, <1>5, <1>6, <1>7, <1>8 DEF RoleNext

LEMMA RolesInvariant == RoleSpec => []IInv
  BY InitIInv, NextIInv, PTL DEF RoleSpec

----------------------------------------------------------------------------
(* Every table, mark and request keeps its type. *)
THEOREM RolesKeepTypes == RoleSpec => []TypeOK
<1>1. IInv => TypeOK
  BY DEF IInv, TablesOK, ReqOK, TypeOK
<1> QED  BY <1>1, RolesInvariant, PTL

(***************************************************************************)
(* However deletions of roles meet assignments, mappings, updates and the  *)
(* death of the process, no type, CSP mapping or holding is left without   *)
(* its master.                                                             *)
(***************************************************************************)
THEOREM RowsKeepRoles == RoleSpec => []RowsHaveRoles
<1>1. IInv => RowsHaveRoles
  BY DEF IInv
<1> QED  BY <1>1, RolesInvariant, PTL

(***************************************************************************)
(* No sequence of calls deletes a predefined role but through an update    *)
(* that saved it, which clears its mark: a deletion in progress carries a  *)
(* role that was not marked, and no call marks a role again.               *)
(***************************************************************************)
THEOREM PredefinedRolesStay == RoleSpec => []PredefinedStays
<1>1. IInv => PredefinedStays
  BY DEF IInv, MarkInv, PredefinedStays
<1> QED  BY <1>1, RolesInvariant, PTL

(***************************************************************************)
(* Whoever holds a role has it with its type, or the type was taken from   *)
(* it by an update or a deletion: an assignment carries a role that had    *)
(* the type when it was looked up.                                         *)
(***************************************************************************)
THEOREM HoldingsKeepTypes == RoleSpec => []HoldingsAreTyped
<1>1. IInv => HoldingsAreTyped
  BY DEF IInv
<1> QED  BY <1>1, RolesInvariant, PTL

(***************************************************************************)
(* A mapping whose CSP role is gone was written while that CSP role was    *)
(* being deleted, or after.                                                *)
(***************************************************************************)
THEOREM OnlyLateMappingsDangle == RoleSpec => []DanglingMappingsAreLate
<1>1. IInv => DanglingMappingsAreLate
  BY DEF IInv
<1> QED  BY <1>1, RolesInvariant, PTL

------------------------------------------------------------------------------
(***************************************************************************)
(* The table and Keycloak.  A pair of a holder and a role that is not      *)
(* excused has kept its role's name, and one call at most is under way on  *)
(* it; what this call has still to do tells on which side the role is.     *)
(***************************************************************************)
UniqueNames == \A r, s \in Roles : Exists(r) /\ name[r] = name[s] => r = s
Has(h, r) == <<h, r>> \in holds
Given(h, r) == Exists(r) /\ <<h, name[r]>> \in granted
Working(k) == call[k].pc # "idle"
Had(c) == c.had = TRUE

\* What a call has still to do, when its pair is not excused.
Owes(c) ==
    LET h == c.holder
        r == c.role
    IN  /\ c.name = name[r] /\ c.op # "sync"
        /\ c.pc \in {"row", "delRow"} => (Has(h, r) <=> Given(h, r))
        /\ c.pc \in {"ensure", "grant", "undo"} => Has(h, r) /\ ~Given(h, r)
        /\ c.pc = "delRow" => (Had(c) <=> Has(h, r))
        /\ c.pc \in {"revoke", "redo"} => ~Has(h, r) /\ (Given(h, r) <=> Had(c))
CallCarries(c) ==
    c.pc # "idle" =>
        /\ c.holder \in Holders /\ c.role \in Roles /\ c.name \in Names
        /\ c.pc \in {"row", "ensure", "grant", "undo"} => c.op \in {"assign", "sync"}
        /\ <<c.holder, c.role>> \notin excused => Owes(c)
        \* Its name is that of no other role.
        /\ \A r \in Roles : <<c.holder, r>> \notin excused /\ name[r] = c.name => r = c.role
Alone ==
    \A j, k \in Calls :
        Working(j) /\ Working(k) /\ j # k /\ Pair(j) = Pair(k) => Pair(j) \in excused
GrantInv ==
    /\ UniqueNames /\ GrantTypeOK
    /\ \A g \in granted : g[2] \in realm
    /\ \A k \in Calls : CallCarries(call[k])
    /\ Alone
    /\ KeycloakAgrees

Agree(h, r) == Has(h, r) <=> Given(h, r)

(***************************************************************************)
(* What is left to show of a step of a call: of its own pair, what the     *)
(* call then has still to do, or, when it ends, that the two sides agree;  *)
(* of the other pairs, that nothing happens to them.                       *)
(***************************************************************************)
OthersStay(k) ==
    \A h \in Holders, r \in Roles :
        <<h, r>> \notin excused' /\ <<h, r>> # Pair(k) =>
            (Has(h, r)' <=> Has(h, r)) /\ (Given(h, r)' <=> Given(h, r))
KeycloakTyped ==
    realm' \subseteq RealmNames /\ realm \subseteq realm' /\ granted' \subseteq Holders \X realm'

LEMMA CallIsTyped ==
  ASSUME GrantInv, NEW k \in Calls, Working(k)
  PROVE  /\ call[k] \in CallType /\ CallCarries(call[k])
         /\ call[k].holder \in Holders /\ call[k].role \in Roles /\ call[k].name \in Names
         /\ Pair(k) \in Holders \X Roles /\ Pair(k) = <<call[k].holder, call[k].role>>
         /\ Pair(k) \notin excused => Owes(call[k])
  BY DEF GrantInv, GrantTypeOK, CallCarries, Working, Pair

LEMMA CallMoves ==
  ASSUME GrantInv, NEW k \in Calls, Working(k), NEW new \in CallType,
         call' = [call EXCEPT ![k] = new], UNCHANGED name,
         excused \subseteq excused', excused' \subseteq Holders \X Roles,
         OthersStay(k), KeycloakTyped,
         new.pc # "idle" =>
             /\ new.holder = call[k].holder /\ new.role = call[k].role /\ new.name = call[k].name
             /\ new.pc \in {"row", "ensure", "grant", "undo"} => new.op \in {"assign", "sync"}
             /\ Pair(k) \notin excused' => Owes(new)',
         NEW h, NEW r, h = call[k].holder, r = call[k].role,
         new.pc = "idle" /\ <<h, r>> \notin excused' => Agree(h, r)'
  PROVE  GrantInv'
<1>0. /\ call[k] \in CallType /\ CallCarries(call[k]) /\ Pair(k) = <<h, r>>
      /\ h \in Holders /\ r \in Roles /\ call[k].name \in Names
  BY CallIsTyped
<1>1. call' \in [Calls -> CallType] /\ \A j \in Calls : call'[j] = IF j = k THEN new ELSE call[j]
  BY DEF GrantInv, GrantTypeOK
<1>2. GrantTypeOK'
  BY <1>1 DEF KeycloakTyped, GrantTypeOK
<1>3. UniqueNames' /\ \A g \in granted' : g[2] \in realm'
  BY DEF GrantInv, UniqueNames, Exists, KeycloakTyped
<1>4. \A j \in Calls : Working(j)' => Working(j) /\ Pair(j)' = Pair(j)
  BY <1>0, <1>1 DEF Working, Pair
<1>5. Alone'
  BY <1>4 DEF GrantInv, Alone
<1>6. ASSUME NEW j \in Calls PROVE CallCarries(call[j])'
  <2>1. CASE j = k
    <3>1. CallCarries(new)'
      BY <1>0 DEF CallCarries, Working
    <3> QED
      BY <1>1, <2>1, <3>1
  <2>2. CASE j # k /\ Working(j)
    <3>1. /\ call'[j] = call[j] /\ CallCarries(call[j]) /\ Pair(j) = <<call[j].holder, call[j].role>>
          /\ call[j].holder \in Holders /\ call[j].role \in Roles /\ call[j].pc # "idle"
      BY <1>1, <2>2, CallIsTyped DEF Working
    <3>2. Pair(j) \notin excused' => Pair(j) # Pair(k)
      BY <2>2 DEF GrantInv, Alone
    <3>3. Pair(j) \notin excused' => Owes(call[j])'
      <4> SUFFICES ASSUME Pair(j) \notin excused' PROVE Owes(call[j])'
        OBVIOUS
      <4>1. /\ Has(call[j].holder, call[j].role)' <=> Has(call[j].holder, call[j].role)
            /\ Given(call[j].holder, call[j].role)' <=> Given(call[j].holder, call[j].role)
        BY <3>1, <3>2 DEF OthersStay
      <4>2. Owes(call[j])
        BY <3>1 DEF CallCarries
      <4> QED
        BY <3>1, <4>1, <4>2 DEF Owes
    <3>4. \A s \in Roles : <<call[j].holder, s>> \notin excused' /\ name'[s] = call[j].name =>
              s = call[j].role
      BY <3>1 DEF CallCarries
    <3> QED
      BY <3>1, <3>3, <3>4 DEF CallCarries
  <2>3. CASE j # k /\ ~Working(j)
    BY <1>1, <2>3 DEF CallCarries, Working
  <2> QED
    BY <2>1, <2>2, <2>3
<1>7. ASSUME NEW g \in Holders, NEW s \in Roles, <<g, s>> \notin excused', Quiet(g, s)'
      PROVE  Agree(g, s)'
  <2>1. CASE <<g, s>> = Pair(k)
    <3>1. g = h /\ s = r
      BY <1>0, <2>1
    <3>2. new.pc = "idle"
      BY <1>0, <1>1, <1>7, <2>1 DEF Quiet, CallAt, Pair
    <3> QED
      BY <1>7, <3>1, <3>2
  <2>2. CASE <<g, s>> # Pair(k)
    <3>1. Quiet(g, s)
      BY <1>1, <1>7, <2>2 DEF Quiet, CallAt, Pair
    <3>2. Agree(g, s)
      BY <1>7, <3>1 DEF GrantInv, KeycloakAgrees, Agree, Has, Given
    <3> QED
      BY <1>7, <2>2, <3>2 DEF OthersStay, Agree
  <2> QED
    BY <2>1, <2>2
<1>8. KeycloakAgrees'
  BY <1>7 DEF KeycloakAgrees, Agree, Has, Given
<1> QED
  BY <1>2, <1>3, <1>5, <1>6, <1>8 DEF GrantInv

\* A step that tells Keycloak nothing, or only makes a realm role.
LEMMA TableOfCall ==
  ASSUME GrantInv, NEW k \in Calls, Working(k), UNCHANGED <<name, granted>>,
         realm' \subseteq RealmNames, realm \subseteq realm',
         \A p : p # Pair(k) => (p \in holds' <=> p \in holds)
  PROVE  OthersStay(k) /\ KeycloakTyped /\ \A h, r : Given(h, r)' <=> Given(h, r)
<1>1. granted \subseteq Holders \X realm
  BY DEF GrantInv, GrantTypeOK
<1> QED
  BY <1>1 DEF OthersStay, KeycloakTyped, Has, Given, Exists

\* A step that grants or revokes what the search finds.
LEMMA KeycloakOfCall ==
  ASSUME GrantInv, NEW k \in Calls, Working(k), UNCHANGED <<name, holds, realm>>,
         NEW m \in GetRealmRoles(call[k].name), excused \subseteq excused',
         Mistaken(call[k].holder, call[k].name, m) \subseteq excused',
         \A g : g # <<call[k].holder, m>> => (g \in granted' <=> g \in granted)
  PROVE  /\ OthersStay(k) /\ KeycloakTyped
         /\ \A h, r : h = call[k].holder /\ r = call[k].role /\ <<h, r>> \notin excused' =>
                m = call[k].name /\ (Given(h, r)' <=> <<h, m>> \in granted') /\ (Has(h, r)' <=> Has(h, r))
<1>0. /\ call[k].holder \in Holders /\ call[k].role \in Roles /\ call[k].name \in Names
      /\ Pair(k) = <<call[k].holder, call[k].role>> /\ CallCarries(call[k]) /\ call[k].pc # "idle"
  BY CallIsTyped DEF Working
<1>1. m \in realm /\ granted \subseteq Holders \X realm /\ realm \subseteq RealmNames
  BY DEF GrantInv, GrantTypeOK, GetRealmRoles
<1>2. KeycloakTyped
  <2>1. ASSUME NEW g \in granted' PROVE g \in Holders \X realm
    BY <1>0, <1>1, <2>1
  <2> QED
    BY <1>1, <2>1 DEF KeycloakTyped
<1>3. ASSUME NEW h \in Holders, NEW r \in Roles, <<h, r>> \notin excused', <<h, r>> # Pair(k)
      PROVE  Given(h, r)' <=> Given(h, r)
  <2>1. CASE h = call[k].holder /\ name[r] = m
    <3>1. m = call[k].name
      BY <1>3, <2>1 DEF Mistaken
    <3>2. r = call[k].role
      BY <1>0, <1>3, <2>1, <3>1 DEF CallCarries
    <3> QED
      BY <1>0, <1>3, <2>1, <3>2
  <2>2. CASE h # call[k].holder \/ name[r] # m
    BY <2>2 DEF Given, Exists
  <2> QED
    BY <2>1, <2>2
<1>4. OthersStay(k)
  BY <1>3 DEF OthersStay, Has
<1>5. ASSUME NEW h, NEW r, h = call[k].holder, r = call[k].role, <<h, r>> \notin excused'
      PROVE  m = call[k].name /\ (Given(h, r)' <=> <<h, m>> \in granted') /\ (Has(h, r)' <=> Has(h, r))
  <2>1. name[r] = call[k].name /\ r \in Roles
    BY <1>0, <1>5 DEF CallCarries, Owes
  <2>2. m = call[k].name
    BY <1>5, <2>1 DEF Mistaken
  <2>3. Exists(r)
    BY <1>0, <2>1, NoneNowhere DEF Exists
  <2> QED
    BY <2>1, <2>2, <2>3 DEF Given, Exists, Has
<1> QED
  BY <1>2, <1>4, <1>5

LEMMA CallGoesOn ==
  ASSUME GrantInv, NEW k \in Calls, Working(k), NEW pc, CallGoto(k, pc), UNCHANGED name,
         pc \in {"ensure", "grant", "undo", "revoke", "redo"},
         excused \subseteq excused', excused' \subseteq Holders \X Roles,
         OthersStay(k), KeycloakTyped,
         pc \in {"ensure", "grant", "undo"} => call[k].op \in {"assign", "sync"},
         NEW h, NEW r, h = call[k].holder, r = call[k].role,
         <<h, r>> \notin excused' =>
             /\ pc \in {"ensure", "grant", "undo"} => Has(h, r)' /\ ~Given(h, r)'
             /\ pc \in {"revoke", "redo"} => ~Has(h, r)' /\ (Given(h, r)' <=> Had(call[k]))
  PROVE  GrantInv'
<1>0. /\ call[k] \in CallType /\ Pair(k) = <<h, r>>
      /\ Pair(k) \notin excused => Owes(call[k])
  BY CallIsTyped
<1>1. PICK new : new = [call[k] EXCEPT !.pc = pc]
  OBVIOUS
<1>2. /\ new \in CallType /\ new.pc = pc /\ new.holder = h /\ new.role = r /\ new.op = call[k].op
      /\ new.name = call[k].name /\ new.had = call[k].had
      /\ call' = [call EXCEPT ![k] = new]
  BY <1>0, <1>1 DEF CallType, CallSteps, CallGoto, GrantInv, GrantTypeOK
<1>3. ASSUME <<h, r>> \notin excused' PROVE Owes(new)'
  <2>1. call[k].name = name[r] /\ call[k].op # "sync"
    BY <1>0, <1>3 DEF Owes
  <2>2. Had(new) <=> Had(call[k])
    BY <1>2 DEF Had
  <2> QED
    BY <1>2, <1>3, <2>1, <2>2 DEF Owes
<1> QED
  BY <1>0, <1>2, <1>3, CallMoves

LEMMA CallIsDone ==
  ASSUME GrantInv, NEW k \in Calls, Working(k), CallEnds(k), UNCHANGED name,
         excused \subseteq excused', excused' \subseteq Holders \X Roles,
         OthersStay(k), KeycloakTyped,
         NEW h, NEW r, h = call[k].holder, r = call[k].role,
         <<h, r>> \notin excused' => Agree(h, r)'
  PROVE  GrantInv'
<1>1. NoCall \in CallType /\ NoCall.pc = "idle"
  BY DEF NoCall, CallType, CallSteps
<1>2. call' = [call EXCEPT ![k] = NoCall]
  BY DEF CallEnds
<1> QED
  BY <1>1, <1>2, CallMoves

(***************************************************************************)
(* The steps of a call.                                                    *)
(***************************************************************************)
LEMMA WriteRowKeeps ==
  ASSUME GrantInv, NEW k \in Calls, WriteRow(k)
  PROVE  GrantInv'
<1> DEFINE pc == IF call[k].holder \in Users THEN "ensure" ELSE "grant"
<1>1. Working(k) /\ call[k].pc = "row" /\ CallGoto(k, pc)
        /\ Pair(k) \notin holds /\ holds' = holds \cup {Pair(k)}
        /\ UNCHANGED <<name, granted, realm, excused>>
  BY DEF WriteRow, CallAt, Working
<1>2. PICK h, r : h = call[k].holder /\ r = call[k].role
  OBVIOUS
<1>3. /\ Pair(k) = <<h, r>> /\ (<<h, r>> \notin excused => Owes(call[k]))
      /\ call[k].op \in {"assign", "sync"}
  BY <1>1, <1>2, CallIsTyped DEF CallCarries
<1>4. OthersStay(k) /\ KeycloakTyped /\ (Given(h, r)' <=> Given(h, r))
        /\ excused' = excused /\ excused \subseteq Holders \X Roles
  BY <1>1, TableOfCall DEF GrantInv, GrantTypeOK
<1>5. <<h, r>> \notin excused' => Has(h, r)' /\ ~Given(h, r)'
  BY <1>1, <1>2, <1>3, <1>4 DEF Owes, Has
<1>6. pc \in {"ensure", "grant"}
  OBVIOUS
<1> HIDE DEF pc
<1> QED
  BY <1>1, <1>2, <1>3, <1>4, <1>5, <1>6, CallGoesOn

LEMMA EnsureRealmKeeps ==
  ASSUME GrantInv, NEW k \in Calls, CreateRealmRoleAndWait(k)
  PROVE  GrantInv'
<1>1. Working(k) /\ call[k].pc = "ensure" /\ CallGoto(k, "grant")
        /\ UNCHANGED <<name, holds, granted, excused>> /\ realm' \subseteq realm \cup {call[k].name}
        /\ realm \subseteq realm'
  BY DEF CreateRealmRoleAndWait, CallAt, Working, roleVars
<1>2. PICK h, r : h = call[k].holder /\ r = call[k].role
  OBVIOUS
<1>3. /\ Pair(k) = <<h, r>> /\ (<<h, r>> \notin excused => Owes(call[k])) /\ call[k].name \in Names
      /\ call[k].op \in {"assign", "sync"}
  BY <1>1, <1>2, CallIsTyped DEF CallCarries
<1>4. OthersStay(k) /\ KeycloakTyped /\ (Given(h, r)' <=> Given(h, r))
        /\ excused' = excused /\ excused \subseteq Holders \X Roles
  BY <1>1, <1>3, ContainingAssumption, TableOfCall DEF GrantInv, GrantTypeOK
<1>5. <<h, r>> \notin excused' => Has(h, r)' /\ ~Given(h, r)'
  BY <1>1, <1>2, <1>3, <1>4 DEF Owes, Has
<1> QED
  BY <1>1, <1>2, <1>3, <1>4, <1>5, CallGoesOn

\* Granting: an unexcused pair is given its role by its own name.
LEMMA GrantKeeps ==
  ASSUME GrantInv, NEW k \in Calls, AssignRealmRoleToUser(k) \/ AddRealmRoleToGroup(k)
  PROVE  GrantInv'
<1>1. PICK m \in GetRealmRoles(call[k].name) :
        /\ granted' = granted \cup {<<call[k].holder, m>>}
        /\ excused' = excused \cup Mistaken(call[k].holder, call[k].name, m)
  BY DEF AssignRealmRoleToUser, AddRealmRoleToGroup, Grant, Excuse
<1>2. Working(k) /\ call[k].pc = "grant" /\ CallEnds(k) /\ UNCHANGED <<name, holds, realm>>
  BY DEF AssignRealmRoleToUser, AddRealmRoleToGroup, Grant, CallAt, Working, roleVars
<1>3. PICK h, r : h = call[k].holder /\ r = call[k].role
  OBVIOUS
<1>4. Pair(k) = <<h, r>> /\ (<<h, r>> \notin excused => Owes(call[k])) /\ h \in Holders
  BY <1>2, <1>3, CallIsTyped
<1>5. excused \subseteq excused' /\ excused' \subseteq Holders \X Roles
  BY <1>1, <1>3, <1>4 DEF GrantInv, GrantTypeOK, Mistaken
<1>6. /\ OthersStay(k) /\ KeycloakTyped
      /\ <<h, r>> \notin excused' =>
            (Given(h, r)' <=> <<h, m>> \in granted') /\ (Has(h, r)' <=> Has(h, r))
  BY <1>1, <1>2, <1>3, <1>5, KeycloakOfCall
<1>7. <<h, r>> \notin excused' => Agree(h, r)'
  BY <1>1, <1>2, <1>3, <1>4, <1>5, <1>6 DEF Agree, Owes
<1> QED
  BY <1>2, <1>3, <1>5, <1>6, <1>7, CallIsDone

LEMMA AssignRefusedKeeps ==
  ASSUME GrantInv, NEW k \in Calls, AssignRefused(k)
  PROVE  GrantInv'
<1>1. Working(k) /\ call[k].pc \in {"ensure", "grant"}
        /\ UNCHANGED <<name, holds, granted, realm, excused>>
  BY DEF AssignRefused, CallAt, Working, roleVars
<1>2. PICK h, r : h = call[k].holder /\ r = call[k].role
  OBVIOUS
<1>3. /\ Pair(k) = <<h, r>> /\ (<<h, r>> \notin excused => Owes(call[k]))
      /\ call[k].op \in {"assign", "sync"}
  BY <1>1, <1>2, CallIsTyped DEF CallCarries
<1>4. OthersStay(k) /\ KeycloakTyped /\ (Given(h, r)' <=> Given(h, r))
        /\ excused' = excused /\ excused \subseteq Holders \X Roles
  BY <1>1, TableOfCall DEF GrantInv, GrantTypeOK
<1>5. <<h, r>> \notin excused' => Has(h, r)' /\ ~Given(h, r)' /\ call[k].op # "sync"
  BY <1>1, <1>2, <1>3, <1>4 DEF Owes, Has
<1>6. CASE CallGoto(k, "undo")
  BY <1>1, <1>2, <1>3, <1>4, <1>5, <1>6, CallGoesOn
<1>7. CASE CallEnds(k) /\ call[k].op # "assign"
  BY <1>1, <1>2, <1>3, <1>4, <1>5, <1>7, CallIsDone
<1> QED
  BY <1>6, <1>7 DEF AssignRefused

LEMMA AssignUnansweredKeeps ==
  ASSUME GrantInv, NEW k \in Calls, AssignUnanswered(k)
  PROVE  GrantInv'
<1>1. PICK m \in GetRealmRoles(call[k].name) :
        /\ granted' = granted \cup {<<call[k].holder, m>>}
        /\ excused' = excused \cup {Pair(k)} \cup Mistaken(call[k].holder, call[k].name, m)
  BY DEF AssignUnanswered, Excuse
<1>2. Working(k) /\ call[k].pc = "grant" /\ UNCHANGED <<name, holds, realm>>
  BY DEF AssignUnanswered, CallAt, Working, roleVars
<1>3. PICK h, r : h = call[k].holder /\ r = call[k].role
  OBVIOUS
<1>4. Pair(k) = <<h, r>> /\ h \in Holders /\ r \in Roles /\ call[k].op \in {"assign", "sync"}
  BY <1>2, <1>3, CallIsTyped DEF CallCarries
<1>5. excused \subseteq excused' /\ excused' \subseteq Holders \X Roles /\ <<h, r>> \in excused'
  BY <1>1, <1>3, <1>4 DEF GrantInv, GrantTypeOK, Mistaken
<1>6. OthersStay(k) /\ KeycloakTyped
  BY <1>1, <1>2, <1>3, <1>5, KeycloakOfCall
<1>7. CASE CallGoto(k, "undo")
  BY <1>2, <1>3, <1>4, <1>5, <1>6, <1>7, CallGoesOn
<1>8. CASE CallEnds(k)
  BY <1>2, <1>3, <1>5, <1>6, <1>8, CallIsDone
<1> QED
  BY <1>7, <1>8 DEF AssignUnanswered

LEMMA UndoRowKeeps ==
  ASSUME GrantInv, NEW k \in Calls, UndoRow(k)
  PROVE  GrantInv'
<1>1. Working(k) /\ call[k].pc = "undo" /\ CallEnds(k) /\ holds' = holds \ {Pair(k)}
        /\ UNCHANGED <<name, granted, realm, excused>>
  BY DEF UndoRow, CallAt, Working
<1>2. PICK h, r : h = call[k].holder /\ r = call[k].role
  OBVIOUS
<1>3. Pair(k) = <<h, r>> /\ (<<h, r>> \notin excused => Owes(call[k]))
  BY <1>1, <1>2, CallIsTyped
<1>4. OthersStay(k) /\ KeycloakTyped /\ (Given(h, r)' <=> Given(h, r))
        /\ excused' = excused /\ excused \subseteq Holders \X Roles
  BY <1>1, TableOfCall DEF GrantInv, GrantTypeOK
<1>5. <<h, r>> \notin excused' => Agree(h, r)'
  BY <1>1, <1>2, <1>3, <1>4 DEF Owes, Has, Agree
<1> QED
  BY <1>1, <1>2, <1>4, <1>5, CallIsDone

LEMMA DeleteRowKeeps ==
  ASSUME GrantInv, NEW k \in Calls, DeleteRow(k)
  PROVE  GrantInv'
<1>1. Working(k) /\ call[k].pc = "delRow" /\ CallGoto(k, "revoke") /\ holds' = holds \ {Pair(k)}
        /\ UNCHANGED <<name, granted, realm, excused>>
  BY DEF DeleteRow, CallAt, Working
<1>2. PICK h, r : h = call[k].holder /\ r = call[k].role
  OBVIOUS
<1>3. Pair(k) = <<h, r>> /\ (<<h, r>> \notin excused => Owes(call[k]))
  BY <1>1, <1>2, CallIsTyped
<1>4. OthersStay(k) /\ KeycloakTyped /\ (Given(h, r)' <=> Given(h, r))
        /\ excused' = excused /\ excused \subseteq Holders \X Roles
  BY <1>1, TableOfCall DEF GrantInv, GrantTypeOK
<1>5. <<h, r>> \notin excused' => ~Has(h, r)' /\ (Given(h, r)' <=> Had(call[k]))
  BY <1>1, <1>2, <1>3, <1>4 DEF Owes, Has
<1> QED
  BY <1>1, <1>2, <1>4, <1>5, CallGoesOn

LEMMA RevokeKeeps ==
  ASSUME GrantInv, NEW k \in Calls, RemoveRealmRoleFromUser(k) \/ RemoveRealmRoleFromGroup(k)
  PROVE  GrantInv'
<1>1. Working(k) /\ call[k].pc = "revoke" /\ CallEnds(k) /\ UNCHANGED <<name, holds, realm>>
  BY DEF RemoveRealmRoleFromUser, RemoveRealmRoleFromGroup, Revoke, CallAt, Working, roleVars
<1>2. PICK h, r : h = call[k].holder /\ r = call[k].role
  OBVIOUS
<1>3. /\ Pair(k) = <<h, r>> /\ (<<h, r>> \notin excused => Owes(call[k])) /\ h \in Holders
      /\ call[k].name \in Names
  BY <1>1, <1>2, CallIsTyped
<1>4. CASE GetRealmRoles(call[k].name) = {} /\ UNCHANGED <<granted, excused>>
  <2>1. call[k].name \notin realm
    BY <1>3, <1>4, ContainingAssumption DEF GetRealmRoles
  <2>2. OthersStay(k) /\ KeycloakTyped /\ (Given(h, r)' <=> Given(h, r))
          /\ excused' = excused /\ excused \subseteq Holders \X Roles
    BY <1>1, <1>4, TableOfCall DEF GrantInv, GrantTypeOK
  <2>3. ~(<<h, call[k].name>> \in granted)
    BY <2>1 DEF GrantInv, GrantTypeOK
  <2>4. <<h, r>> \notin excused' => Agree(h, r)'
    <3>1. <<h, r>> \notin excused' => ~Given(h, r) /\ ~Has(h, r)
      BY <1>1, <1>2, <1>3, <2>2, <2>3 DEF Owes, Given
    <3> QED
      BY <1>1, <2>2, <3>1 DEF Has, Agree
  <2> QED
    BY <1>1, <1>2, <2>2, <2>4, CallIsDone
<1>5. ASSUME NEW m \in GetRealmRoles(call[k].name),
             granted' = granted \ {<<call[k].holder, m>>},
             excused' = excused \cup Mistaken(call[k].holder, call[k].name, m)
      PROVE  GrantInv'
  <2>1. excused \subseteq excused' /\ excused' \subseteq Holders \X Roles
    BY <1>2, <1>3, <1>5 DEF GrantInv, GrantTypeOK, Mistaken
  <2>2. /\ OthersStay(k) /\ KeycloakTyped
        /\ <<h, r>> \notin excused' =>
              (Given(h, r)' <=> <<h, m>> \in granted') /\ (Has(h, r)' <=> Has(h, r))
    BY <1>1, <1>2, <1>5, <2>1, KeycloakOfCall
  <2>3. <<h, r>> \notin excused' => Agree(h, r)'
    BY <1>1, <1>2, <1>3, <1>5, <2>1, <2>2 DEF Agree, Owes
  <2> QED
    BY <1>1, <1>2, <2>1, <2>2, <2>3, CallIsDone
<1> QED
  BY <1>4, <1>5 DEF RemoveRealmRoleFromUser, RemoveRealmRoleFromGroup, Revoke, Excuse

LEMMA RemoveRefusedKeeps ==
  ASSUME GrantInv, NEW k \in Calls, RemoveRefused(k)
  PROVE  GrantInv'
<1>1. Working(k) /\ call[k].pc = "revoke" /\ UNCHANGED <<name, holds, granted, realm>>
  BY DEF RemoveRefused, CallAt, Working, roleVars
<1>2. PICK h, r : h = call[k].holder /\ r = call[k].role
  OBVIOUS
<1>3. Pair(k) = <<h, r>> /\ (<<h, r>> \notin excused => Owes(call[k])) /\ Pair(k) \in Holders \X Roles
  BY <1>1, <1>2, CallIsTyped
<1>4. OthersStay(k) /\ KeycloakTyped /\ (Given(h, r)' <=> Given(h, r)) /\ excused \subseteq Holders \X Roles
  BY <1>1, TableOfCall DEF GrantInv, GrantTypeOK
<1>5. CASE CallGoto(k, "redo") /\ UNCHANGED excused
  <2>1. <<h, r>> \notin excused' => ~Has(h, r)' /\ (Given(h, r)' <=> Had(call[k]))
    BY <1>1, <1>2, <1>3, <1>4, <1>5 DEF Owes, Has
  <2> QED
    BY <1>1, <1>2, <1>4, <1>5, <2>1, CallGoesOn
<1>6. CASE CallEnds(k) /\ Excuse({Pair(k)})
  <2>1. excused \subseteq excused' /\ excused' \subseteq Holders \X Roles /\ <<h, r>> \in excused'
    BY <1>3, <1>4, <1>6 DEF Excuse
  <2> QED
    BY <1>1, <1>2, <1>4, <1>6, <2>1, CallIsDone
<1> QED
  BY <1>5, <1>6 DEF RemoveRefused

LEMMA RemoveUnansweredKeeps ==
  ASSUME GrantInv, NEW k \in Calls, RemoveUnanswered(k)
  PROVE  GrantInv'
<1>1. PICK m \in GetRealmRoles(call[k].name) :
        /\ granted' = granted \ {<<call[k].holder, m>>}
        /\ excused' = excused \cup {Pair(k)} \cup Mistaken(call[k].holder, call[k].name, m)
  BY DEF RemoveUnanswered, Excuse
<1>2. Working(k) /\ call[k].pc = "revoke" /\ UNCHANGED <<name, holds, realm>>
  BY DEF RemoveUnanswered, CallAt, Working, roleVars
<1>3. PICK h, r : h = call[k].holder /\ r = call[k].role
  OBVIOUS
<1>4. Pair(k) = <<h, r>> /\ h \in Holders /\ r \in Roles
  BY <1>2, <1>3, CallIsTyped
<1>5. excused \subseteq excused' /\ excused' \subseteq Holders \X Roles /\ <<h, r>> \in excused'
  BY <1>1, <1>3, <1>4 DEF GrantInv, GrantTypeOK, Mistaken
<1>6. OthersStay(k) /\ KeycloakTyped
  BY <1>1, <1>2, <1>3, <1>5, KeycloakOfCall
<1>7. CASE CallGoto(k, "redo")
  BY <1>2, <1>3, <1>5, <1>6, <1>7, CallGoesOn
<1>8. CASE CallEnds(k)
  BY <1>2, <1>3, <1>5, <1>6, <1>8, CallIsDone
<1> QED
  BY <1>7, <1>8 DEF RemoveUnanswered

LEMMA RedoRowKeeps ==
  ASSUME GrantInv, NEW k \in Calls, RedoRow(k)
  PROVE  GrantInv'
<1>1. Working(k) /\ call[k].pc = "redo" /\ CallEnds(k)
        /\ UNCHANGED <<name, granted, realm>> /\ \A p : p # Pair(k) => (p \in holds' <=> p \in holds)
  BY DEF RedoRow, CallAt, Working
<1>2. PICK h, r : h = call[k].holder /\ r = call[k].role
  OBVIOUS
<1>3. /\ Pair(k) = <<h, r>> /\ (<<h, r>> \notin excused => Owes(call[k]))
      /\ Pair(k) \in Holders \X Roles /\ call[k] \in CallType
  BY <1>1, <1>2, CallIsTyped
<1>4. OthersStay(k) /\ KeycloakTyped /\ (Given(h, r)' <=> Given(h, r)) /\ excused \subseteq Holders \X Roles
  BY <1>1, TableOfCall DEF GrantInv, GrantTypeOK
<1>5. /\ excused \subseteq excused' /\ excused' \subseteq excused \cup {Pair(k)}
      /\ Pair(k) \notin excused' => Pair(k) \in holds' /\ Had(call[k])
  BY <1>3 DEF RedoRow, Excuse, CallType, Had
<1>6. <<h, r>> \notin excused' => Agree(h, r)'
  BY <1>1, <1>2, <1>3, <1>4, <1>5 DEF Owes, Has, Agree
<1>7. excused' \subseteq Holders \X Roles
  BY <1>3, <1>4, <1>5
<1> QED
  BY <1>1, <1>2, <1>4, <1>5, <1>6, <1>7, CallIsDone

LEMMA CallDiesKeeps ==
  ASSUME GrantInv, NEW k \in Calls, CallDies(k)
  PROVE  GrantInv'
<1>1. Working(k) /\ CallEnds(k) /\ UNCHANGED <<name, holds, granted, realm>>
        /\ excused' = excused \cup (IF call[k].pc \in {"row", "delRow"} THEN {} ELSE {Pair(k)})
  BY DEF CallDies, CallAt, Working, Excuse, roleVars
<1>2. PICK h, r : h = call[k].holder /\ r = call[k].role
  OBVIOUS
<1>3. /\ Pair(k) = <<h, r>> /\ (<<h, r>> \notin excused => Owes(call[k]))
      /\ Pair(k) \in Holders \X Roles
  BY <1>1, <1>2, CallIsTyped
<1>4. OthersStay(k) /\ KeycloakTyped /\ (Given(h, r)' <=> Given(h, r)) /\ excused \subseteq Holders \X Roles
  BY <1>1, TableOfCall DEF GrantInv, GrantTypeOK
<1>5. excused \subseteq excused' /\ excused' \subseteq Holders \X Roles
  BY <1>1, <1>3, <1>4
<1>6. <<h, r>> \notin excused' => Agree(h, r)'
  BY <1>1, <1>2, <1>3, <1>4 DEF Owes, Has, Agree
<1> QED
  BY <1>1, <1>2, <1>4, <1>5, <1>6, CallIsDone

(***************************************************************************)
(* A call begins.  On an unexcused pair it is alone, so that the two sides *)
(* agreed; a sync has seen them disagree.                                  *)
(***************************************************************************)
LEMMA CallBeginsKeeps ==
  ASSUME GrantInv, NEW k \in Calls, NEW op \in {"assign", "sync", "remove"},
         NEW pc \in {"row", "ensure", "delRow"}, NEW h \in Holders, NEW r \in Roles,
         Exists(r), name[r] \in Names, CallBegins(k, op, pc, h, r),
         UNCHANGED <<name, holds, realm, granted>>,
         pc \in {"row", "ensure"} => op \in {"assign", "sync"},
         op = "sync" => Has(h, r) /\ ~Given(h, r), pc = "ensure" => op = "sync"
  PROVE  GrantInv'
<1>1. PICK had \in BOOLEAN : had = (<<h, r>> \in holds)
  <2>1. CASE <<h, r>> \in holds
    <3>1. TRUE = (<<h, r>> \in holds)
      BY <2>1
    <3> QED
      BY <3>1, Zenon
  <2>2. CASE <<h, r>> \notin holds
    <3>1. FALSE = (<<h, r>> \in holds)
      BY <2>2
    <3> QED
      BY <3>1, Zenon
  <2> QED
    BY <2>1, <2>2
<1>2. had \in BOOLEAN /\ (had = TRUE <=> Has(h, r))
  <2>1. CASE <<h, r>> \in holds
    <3>1. (<<h, r>> \in holds) = TRUE
      BY <2>1
    <3> QED
      BY <1>1, <2>1, <3>1 DEF Has
  <2>2. CASE <<h, r>> \notin holds
    <3>1. (<<h, r>> \in holds) = FALSE
      BY <2>2
    <3> QED
      BY <1>1, <2>2, <3>1 DEF Has
  <2> QED
    BY <2>1, <2>2
<1>3. PICK new : new = [op |-> op, pc |-> pc, holder |-> h, role |-> r, name |-> name[r],
                        had |-> had]
  OBVIOUS
<1>4. call' = [call EXCEPT ![k] = new] /\ call[k].pc = "idle"
        /\ excused' = excused \cup (IF OthersOn(k, <<h, r>>) THEN {<<h, r>>} ELSE {})
  BY <1>1, <1>3 DEF CallBegins, CallAt, Excuse
<1>5. /\ new \in CallType /\ new.pc = pc /\ new.holder = h /\ new.role = r /\ new.op = op
      /\ new.name = name[r] /\ new.had = had
  BY <1>2, <1>3 DEF CallType, CallSteps
<1> HIDE <1>1, <1>3
<1>6. Had(new) <=> Has(h, r)
  BY <1>2, <1>5 DEF Had
<1>7. call' \in [Calls -> CallType] /\ \A j \in Calls : call'[j] = IF j = k THEN new ELSE call[j]
  BY <1>4, <1>5 DEF GrantInv, GrantTypeOK
<1>8. \A g, s : (Has(g, s)' <=> Has(g, s)) /\ (Given(g, s)' <=> Given(g, s))
  BY DEF Has, Given, Exists
<1>9. excused \subseteq excused' /\ excused' \subseteq Holders \X Roles
  BY <1>4 DEF GrantInv, GrantTypeOK
<1>10. ASSUME <<h, r>> \notin excused' PROVE Has(h, r) <=> Given(h, r)
  <2>1. ~OthersOn(k, <<h, r>>)
    BY <1>4, <1>10
  <2>2. Quiet(h, r)
    BY <1>4, <2>1 DEF OthersOn, Quiet, CallAt
  <2> QED
    BY <1>9, <1>10, <2>2 DEF GrantInv, KeycloakAgrees, Has, Given
<1>11. <<h, r>> \notin excused' => Owes(new)'
  <2> SUFFICES ASSUME <<h, r>> \notin excused' PROVE Owes(new)'
    OBVIOUS
  <2>1. op # "sync" /\ pc \in {"row", "delRow"}
    BY <1>10
  <2>2. (Has(h, r)' <=> Given(h, r)') /\ (Had(new) <=> Has(h, r)')
    BY <1>6, <1>8, <1>10
  <2> QED
    BY <1>5, <2>1, <2>2 DEF Owes
<1>12. ASSUME NEW j \in Calls PROVE CallCarries(call[j])'
  <2>1. CASE j = k
    <3>1. \A s \in Roles : name'[s] = name[r] => s = r
      BY DEF GrantInv, UniqueNames
    <3>2. CallCarries(new)'
      BY <1>5, <1>11, <3>1 DEF CallCarries
    <3> QED
      BY <1>7, <2>1, <3>2
  <2>2. CASE j # k
    <3>1. call'[j] = call[j] /\ CallCarries(call[j])
      BY <1>7, <2>2 DEF GrantInv
    <3>2. Owes(call[j]) => Owes(call[j])'
      <4> SUFFICES ASSUME Owes(call[j]) PROVE Owes(call[j])'
        OBVIOUS
      <4>1. /\ Has(call[j].holder, call[j].role)' <=> Has(call[j].holder, call[j].role)
            /\ Given(call[j].holder, call[j].role)' <=> Given(call[j].holder, call[j].role)
        BY <3>1 DEF Has, Given, Exists
      <4> QED
        BY <3>1, <4>1 DEF Owes
    <3> QED
      BY <1>9, <3>1, <3>2 DEF CallCarries
  <2> QED
    BY <2>1, <2>2
<1>13. Alone'
  <2> SUFFICES ASSUME NEW i \in Calls, NEW j \in Calls, Working(i)', Working(j)', i # j,
                      Pair(i)' = Pair(j)'
               PROVE  Pair(i)' \in excused'
    BY DEF Alone
  <2>1. CASE i # k /\ j # k
    BY <1>7, <1>9, <2>1 DEF GrantInv, Alone, Working, Pair
  <2>2. CASE i = k \/ j = k
    <3>1. Pair(k)' = <<h, r>> /\ Pair(i)' = <<h, r>>
      BY <1>5, <1>7, <2>2 DEF Pair
    <3>2. OthersOn(k, <<h, r>>)
      BY <1>7, <2>2, <3>1 DEF OthersOn, CallAt, Pair, Working
    <3> QED
      BY <1>4, <3>1, <3>2
  <2> QED
    BY <2>1, <2>2
<1>14. KeycloakAgrees'
  <2> SUFFICES ASSUME NEW g \in Holders, NEW s \in Roles, <<g, s>> \notin excused', Quiet(g, s)'
               PROVE  Agree(g, s)'
    BY DEF KeycloakAgrees, Agree, Has, Given
  <2>1. Quiet(g, s)
    BY <1>4, <1>7 DEF Quiet, CallAt, Pair
  <2> QED
    BY <1>8, <1>9, <2>1 DEF GrantInv, KeycloakAgrees, Agree, Has, Given
<1>15. GrantTypeOK' /\ UniqueNames' /\ \A g \in granted' : g[2] \in realm'
  BY <1>7, <1>9 DEF GrantInv, GrantTypeOK, UniqueNames, Exists
<1> QED
  BY <1>12, <1>13, <1>14, <1>15 DEF GrantInv

LEMMA RequestsKeep ==
  ASSUME GrantInv, TypeOK, NEW k \in Calls, UserCall(k) \/ GroupAssign(k) \/ GroupRemove(k)
  PROVE  GrantInv'
<1> USE DEF Holders, roleVars
<1>0. \A r \in Roles : Exists(r) => name[r] \in Names
  BY DEF TypeOK, Exists
<1>1. ASSUME NEW u \in Users, NEW r \in Roles, AssignPlatformRole(k, u, r) PROVE GrantInv'
  <2>1. Exists(r) /\ HasType(r, "platform") /\ u \in Holders
    BY <1>1 DEF AssignPlatformRole, FindRoleByRoleID
  <2>2. CASE IsAssignedPlatformRole(u, r)
    <3>1. CallBegins(k, "sync", "ensure", u, r) /\ UNCHANGED <<name, holds, realm, granted>>
            /\ Has(u, r) /\ ~Given(u, r)
      BY <1>1, <2>2 DEF AssignPlatformRole, IsAssignedPlatformRole, Has, Given,
                        IsRealmRoleAssignedToUser
    <3> QED
      BY <1>0, <2>1, <3>1, CallBeginsKeeps
  <2>3. CASE ~IsAssignedPlatformRole(u, r)
    <3>1. CallBegins(k, "assign", "row", u, r) /\ UNCHANGED <<name, holds, realm, granted>>
      BY <1>1, <2>3 DEF AssignPlatformRole
    <3> QED
      BY <1>0, <2>1, <3>1, CallBeginsKeeps
  <2> QED
    BY <2>2, <2>3
<1>2. ASSUME NEW u \in Users, NEW r \in Roles, RemovePlatformRole(k, u, r) PROVE GrantInv'
  <2>1. Exists(r) /\ u \in Holders /\ CallBegins(k, "remove", "delRow", u, r)
          /\ UNCHANGED <<name, holds, realm, granted>>
    BY <1>2 DEF RemovePlatformRole, FindRoleByRoleID
  <2> QED
    BY <1>0, <2>1, CallBeginsKeeps
<1>3. ASSUME NEW g \in Groups, NEW r \in Roles, AssignGroupPlatformRole(k, g, r) PROVE GrantInv'
  <2>1. Exists(r) /\ g \in Holders /\ CallBegins(k, "assign", "row", g, r)
          /\ UNCHANGED <<name, holds, realm, granted>>
    BY <1>3 DEF AssignGroupPlatformRole, FindRoleByRoleID
  <2> QED
    BY <1>0, <2>1, CallBeginsKeeps
<1>4. ASSUME NEW g \in Groups, NEW r \in Roles, RemoveGroupPlatformRole(k, g, r) PROVE GrantInv'
  <2>1. Exists(r) /\ g \in Holders /\ CallBegins(k, "remove", "delRow", g, r)
          /\ UNCHANGED <<name, holds, realm, granted>>
    BY <1>4 DEF RemoveGroupPlatformRole
  <2> QED
    BY <1>0, <2>1, CallBeginsKeeps
<1> QED
  BY <1>1, <1>2, <1>3, <1>4 DEF UserCall, GroupAssign, GroupRemove

(***************************************************************************)
(* The handlers of RoleMaster: a name is written when nobody else has it.  *)
(***************************************************************************)
LEMMA NamesChange ==
  ASSUME IInv, RoleNext
  PROVE  \/ UNCHANGED name
         \/ \E r \in Roles : name' = [name EXCEPT ![r] = None]
         \/ \E r \in Roles, n \in Names :
              name' = [name EXCEPT ![r] = n] /\ FindRoleByRoleName(n) \subseteq {r}
<1> USE DEF catalogue
<1>1. ASSUME NEW q \in Requests, CreateStep(q), name' # name
      PROVE  \E r \in Roles, n \in Names :
               name' = [name EXCEPT ![r] = n] /\ FindRoleByRoleName(n) \subseteq {r}
  <2>1. CreateRoleWithAllDependencies(q)
    BY <1>1 DEF CreateStep, CreateRole, CreatePlatformRole, CreateWorkspaceRole,
                CreateCspRoleMaster, CreateRoleOfType, EnsureCspRole
  <2>2. req[q].name \in Names
    BY <2>1 DEF IInv, Carries, CreateRoleWithAllDependencies, At
  <2>3. PICK r \in NamedOrNew(req[q].name) : name' = [name EXCEPT ![r] = req[q].name]
    BY <2>1 DEF CreateRoleWithAllDependencies
  <2>4. CASE FindRoleByRoleName(req[q].name) # {}
    <3>1. r \in Roles /\ name[r] = req[q].name
      BY <2>4 DEF NamedOrNew, FindRoleByRoleName
    <3>2. name' = name
      BY <2>3, <3>1 DEF IInv, TablesOK
    <3> QED
      BY <1>1, <3>2
  <2>5. CASE FindRoleByRoleName(req[q].name) = {}
    BY <2>2, <2>3, <2>5 DEF NamedOrNew
  <2> QED
    BY <2>4, <2>5
<1>2. ASSUME NEW q \in Requests, UpdateStep(q), name' # name
      PROVE  \E r \in Roles, n \in Names :
               name' = [name EXCEPT ![r] = n] /\ FindRoleByRoleName(n) \subseteq {r}
  <2>1. UpdateRoleWithSubs(q)
    BY <1>2 DEF UpdateStep, UpdateRole, UpdatePlatformRole, UpdateWorkspaceRole,
                UpdateCspRoleMaster, UpdateRoleOfType, ClearMenus, SetMenus, ClearCsp
  <2>2. req[q].name \in Names /\ req[q].role \in Roles
    BY <2>1 DEF IInv, Carries, UpdateRoleWithSubs, At, WithRole
  <2> QED
    BY <2>1, <2>2 DEF UpdateRoleWithSubs
<1>3. ASSUME NEW q \in Requests, DeleteStep(q), name' # name
      PROVE  \E r \in Roles : name' = [name EXCEPT ![r] = None]
  <2>1. DeleteRoleMaster(q)
    BY <1>3 DEF DeleteStep, DeleteRole, DropMenus, DropCsp, DeleteRoleSubs, DeletePlatformRole,
                DeleteWorkspaceRole, DeleteCspRoleMaster, DeleteRoleOfType, NoMappingListed, DropSub
  <2>2. req[q].role \in Roles
    BY <2>1 DEF IInv, Carries, DeleteRoleMaster, At, WithRole, Deleting
  <2> QED
    BY <2>1, <2>2 DEF DeleteRoleMaster
<1>4. ASSUME NEW q \in Requests, MappingStep(q) \/ HoldingStep(q) \/ Abort(q) PROVE UNCHANGED name
  BY <1>4 DEF MappingStep, AddCspRoleMappings, CreateRoleSub, CreateRoleCspRoleMapping,
              DeleteCspRole, CutMappings, DropCspRole, HoldingStep, AssignRole,
              AssignGroupWorkspace, InsertHolding, UpdateGroupWorkspaceRole, ChangeRow, Abort
<1>5. CASE SingleStep
  BY <1>5 DEF SingleStep, RemoveCspRoleMappings, CreateCspRole, RemoveRole, RemoveGroupWorkspaceRole
<1> QED
  BY <1>1, <1>2, <1>3, <1>4, <1>5 DEF RoleNext

LEMMA NamesStayUnique ==
  ASSUME IInv, UniqueNames, RoleNext
  PROVE  UniqueNames'
<1>0. name \in [Roles -> Names \cup {None}] /\ None \notin Names
  BY NoneNowhere DEF IInv, TablesOK
<1>1. CASE UNCHANGED name
  BY <1>1 DEF UniqueNames, Exists
<1>2. ASSUME NEW r \in Roles, name' = [name EXCEPT ![r] = None] PROVE UniqueNames'
  BY <1>0, <1>2 DEF UniqueNames, Exists
<1>3. ASSUME NEW r \in Roles, NEW n \in Names, name' = [name EXCEPT ![r] = n],
             FindRoleByRoleName(n) \subseteq {r}
      PROVE  UniqueNames'
  BY <1>0, <1>3 DEF UniqueNames, Exists, FindRoleByRoleName
<1> QED
  BY <1>1, <1>2, <1>3, NamesChange

LEMMA TablesKeep ==
  ASSUME GrantInv, IInv, IInv', TablesOnly
  PROVE  GrantInv'
<1>1. UniqueNames' /\ RoleNext /\ UNCHANGED <<realm, granted, call>>
  BY NamesStayUnique DEF GrantInv, TablesOnly
<1>2. /\ excused \subseteq excused'
      /\ \A h \in Holders, r \in Roles : <<h, r>> \notin excused' =>
            name'[r] = name[r] /\ (Has(h, r)' <=> Has(h, r)) /\ (Given(h, r)' <=> Given(h, r))
  BY DEF TablesOnly, Excuse, Has, Given, Exists
<1>3. excused' \subseteq Holders \X Roles
  <2>1. holds \subseteq Holders \X Roles /\ holds' \subseteq Holders \X Roles
    BY DEF IInv, TablesOK
  <2> QED
    BY <2>1 DEF TablesOnly, Excuse, GrantInv, GrantTypeOK
<1>4. ASSUME NEW j \in Calls PROVE CallCarries(call[j])'
  <2>1. CallCarries(call[j]) /\ call'[j] = call[j]
    BY <1>1 DEF GrantInv
  <2>2. CASE call[j].pc = "idle"
    BY <2>1, <2>2 DEF CallCarries
  <2>3. CASE call[j].pc # "idle"
    <3>1. call[j].holder \in Holders /\ call[j].role \in Roles
      BY <2>1, <2>3 DEF CallCarries
    <3>2. <<call[j].holder, call[j].role>> \notin excused' => Owes(call[j])'
      <4> SUFFICES ASSUME <<call[j].holder, call[j].role>> \notin excused' PROVE Owes(call[j])'
        OBVIOUS
      <4>1. Owes(call[j])
        BY <1>2, <2>1, <2>3 DEF CallCarries
      <4>2. /\ name'[call[j].role] = name[call[j].role]
            /\ Has(call[j].holder, call[j].role)' <=> Has(call[j].holder, call[j].role)
            /\ Given(call[j].holder, call[j].role)' <=> Given(call[j].holder, call[j].role)
        BY <1>1, <1>2, <2>1, <3>1
      <4> QED
        BY <1>1, <4>1, <4>2 DEF Owes
    <3>3. \A r \in Roles : <<call[j].holder, r>> \notin excused' /\ name'[r] = call[j].name =>
              r = call[j].role
      BY <1>2, <2>1, <2>3, <3>1 DEF CallCarries
    <3> QED
      BY <2>1, <3>2, <3>3 DEF CallCarries
  <2> QED
    BY <2>2, <2>3
<1>5. Alone'
  BY <1>1, <1>2 DEF GrantInv, Alone, Working, Pair
<1>6. KeycloakAgrees'
  BY <1>1, <1>2 DEF GrantInv, KeycloakAgrees, Quiet, CallAt, Pair, Has, Given
<1>7. GrantTypeOK' /\ \A g \in granted' : g[2] \in realm'
  BY <1>1, <1>3 DEF GrantInv, GrantTypeOK
<1> QED
  BY <1>1, <1>4, <1>5, <1>6, <1>7 DEF GrantInv

(***************************************************************************)
(* The invariant of RoleMaster, with calls that write rows beside.         *)
(***************************************************************************)
LEMMA RowsOfCalls ==
  ASSUME IInv, UNCHANGED <<name, marked, subs, mappings, members, drawn, req, history>>,
         \A p \in holds' \ holds : p \in Holders \X Roles /\ FindRoleByRoleID(p[2], "platform")
  PROVE  IInv'
<1>1. UNCHANGED <<name, marked, subs, menus, cspRoles, csp, members, drawn, req, stripped,
                  unmarked, late>>
  BY DEF mappings, history
<1>2. Lasting
  BY <1>1 DEF Lasting
<1>3. \A p \in Requests : Carries(p)'
  BY <1>1, <1>2, OthersCarry
<1>4. TablesOK' /\ ReqOK' /\ MarkInv' /\ DanglingMappingsAreLate'
  BY <1>1 DEF IInv, TablesOK, ReqOK, MarkInv, Exists, DanglingMappingsAreLate
<1>7. \A h \in Holders, r \in Roles :
        <<h, r>> \in holds' => <<h, r>> \in holds \/ (Exists(r) /\ HasType(r, "platform"))
  <2> SUFFICES ASSUME NEW h \in Holders, NEW r \in Roles, <<h, r>> \in holds' \ holds
               PROVE  Exists(r) /\ HasType(r, "platform")
    OBVIOUS
  <2>1. FindRoleByRoleID(<<h, r>>[2], "platform")
    OBVIOUS
  <2> QED
    BY <2>1 DEF FindRoleByRoleID
<1>5. RowsHaveRoles'
  BY <1>1, <1>7 DEF IInv, RowsHaveRoles, Exists, ReferredTo, TypesOf, HasType
<1>6. HoldingsAreTyped'
  BY <1>1, <1>7 DEF IInv, HoldingsAreTyped, HasType
<1> QED
  BY <1>3, <1>4, <1>5, <1>6 DEF IInv

LEMMA TablesInGrants == IInv /\ GrantInv /\ [GrantNext]_allVars => IInv'
<1> SUFFICES ASSUME IInv, GrantInv, [GrantNext]_allVars PROVE IInv'
  OBVIOUS
<1>1. CASE UNCHANGED roleVars
  BY <1>1, NextIInv
<1>2. CASE TablesOnly
  BY <1>2, NextIInv DEF TablesOnly
<1>3. ASSUME NEW k \in Calls, WriteRow(k) \/ UndoRow(k) \/ DeleteRow(k) \/ RedoRow(k) PROVE IInv'
  <2>1. Working(k)
    BY <1>3 DEF WriteRow, UndoRow, DeleteRow, RedoRow, CallAt, Working
  <2>2. Pair(k) \in Holders \X Roles /\ Pair(k)[2] = call[k].role
    BY <2>1, CallIsTyped DEF Pair
  <2>3. UNCHANGED <<name, marked, subs, mappings, members, drawn, req, history>>
    BY <1>3 DEF WriteRow, UndoRow, DeleteRow, RedoRow
  <2>4. \A p \in holds' \ holds : p = Pair(k) /\ FindRoleByRoleID(call[k].role, "platform")
    BY <1>3 DEF WriteRow, UndoRow, DeleteRow, RedoRow
  <2> QED
    BY <2>2, <2>3, <2>4, RowsOfCalls
<1>4. ASSUME NEW k \in Calls, UserCall(k) \/ GroupAssign(k) \/ GroupRemove(k) \/ CallDies(k)
      PROVE  UNCHANGED roleVars
  BY <1>4 DEF UserCall, GroupAssign, GroupRemove, CallDies, AssignPlatformRole,
              RemovePlatformRole, AssignGroupPlatformRole, RemoveGroupPlatformRole
<1>5. ASSUME NEW k \in Calls, CallStep(k) PROVE IInv'
  <2>1. \/ WriteRow(k) \/ UndoRow(k) \/ DeleteRow(k) \/ RedoRow(k)
        \/ UNCHANGED roleVars
    BY <1>5 DEF CallStep, CreateRealmRoleAndWait, AssignRealmRoleToUser, AddRealmRoleToGroup,
                Grant, AssignRefused, AssignUnanswered, RemoveRealmRoleFromUser,
                RemoveRealmRoleFromGroup, Revoke, RemoveRefused, RemoveUnanswered
  <2> QED
    BY <1>1, <1>3, <2>1
<1>6. CASE UNCHANGED allVars
  BY <1>1, <1>6 DEF allVars, roleVars
<1> QED
  BY <1>1, <1>2, <1>4, <1>5, <1>6 DEF GrantNext

LEMMA GrantInvStep == IInv /\ GrantInv /\ [GrantNext]_allVars => GrantInv'
<1> SUFFICES ASSUME IInv, GrantInv, [GrantNext]_allVars PROVE GrantInv'
  OBVIOUS
<1>1. IInv' /\ TypeOK
  BY TablesInGrants DEF IInv, TablesOK, ReqOK, TypeOK
<1>2. ASSUME NEW k \in Calls, CallStep(k) \/ CallDies(k) PROVE GrantInv'
  BY <1>2, WriteRowKeeps, EnsureRealmKeeps, GrantKeeps, AssignRefusedKeeps, AssignUnansweredKeeps,
     UndoRowKeeps, DeleteRowKeeps, RevokeKeeps, RemoveRefusedKeeps, RemoveUnansweredKeeps,
     RedoRowKeeps, CallDiesKeeps DEF CallStep
<1>3. CASE UNCHANGED allVars
  BY <1>3 DEF allVars, GrantInv, GrantTypeOK, UniqueNames, Exists, CallCarries, Owes, Has, Given,
              Alone, Working, Pair, KeycloakAgrees, Quiet, CallAt
<1> QED
  BY <1>1, <1>2, <1>3, RequestsKeep, TablesKeep DEF GrantNext

LEMMA GrantInitially == GrantInit => IInv /\ GrantInv
<1> SUFFICES ASSUME GrantInit PROVE IInv /\ GrantInv
  OBVIOUS
<1>1. IInv
  BY InitIInv DEF GrantInit
<1>2. name = InitialName /\ holds = {} /\ granted = {} /\ excused = {}
        /\ call = [k \in Calls |-> NoCall]
  BY DEF GrantInit, RoleInit
<1>3. UniqueNames
  BY <1>2, RoleAssumption DEF UniqueNames, Exists
<1>4. realm \subseteq RealmNames
  BY <1>2, RoleAssumption, ContainingAssumption DEF GrantInit, Exists
<1>5. NoCall \in CallType /\ NoCall.pc = "idle"
  BY DEF NoCall, CallType, CallSteps
<1>6. GrantTypeOK
  BY <1>2, <1>4, <1>5 DEF GrantTypeOK
<1> QED
  BY <1>1, <1>2, <1>3, <1>5, <1>6 DEF GrantInv, CallCarries, Alone, Working, KeycloakAgrees

LEMMA GrantInvariant == GrantSpec => [](IInv /\ GrantInv)
<1>1. IInv /\ GrantInv /\ [GrantNext]_allVars => (IInv /\ GrantInv)'
  BY TablesInGrants, GrantInvStep
<1> QED
  BY <1>1, GrantInitially, PTL DEF GrantSpec

\* The realm, the grants and the calls keep their types.
THEOREM GrantsKeepTypes == GrantSpec => []GrantTypeOK
<1>1. GrantInv => GrantTypeOK
  BY DEF GrantInv
<1> QED
  BY <1>1, GrantInvariant, PTL

(***************************************************************************)
(* For any holders, roles and overlapping calls and requests: where no     *)
(* call is under way, the table and Keycloak agree on who has a role, but  *)
(* for the pairs that are excused by name.                                 *)
(***************************************************************************)
THEOREM TableAndKeycloakAgree == GrantSpec => []KeycloakAgrees
<1>1. GrantInv => KeycloakAgrees
  BY DEF GrantInv
<1> QED
  BY <1>1, GrantInvariant, PTL

==============================================================================
