------------------------------ MODULE RoleMaster ------------------------------
(***************************************************************************)
(* The roles: mcmp_role_masters with the types of each role                *)
(* (mcmp_role_subs), what a role is mapped to (menus and CSP roles) and    *)
(* who holds it.  The handlers of role_handler.go read, decide and write   *)
(* in separate statements and transactions; a handler that does so is a    *)
(* request with a program counter.  Abort stands for every error that ends *)
(* a request, a transaction rolled back, and the death of the process.     *)
(*                                                                         *)
(* Rows of mcmp_role_subs and mcmp_role_menu_mappings may be duplicated;   *)
(* every statement reads and deletes them by value, so they are sets here. *)
(***************************************************************************)
EXTENDS Naturals, FiniteSets

CONSTANTS
    Roles,        \* ids of role masters
    Names,        \* names of roles
    InitialName,  \* the name of each role there at first, None for a free id
    Predefined,   \* the roles the installation marks as predefined
    InitialSubs,  \* the types of the roles there at first
    Menus, CspRoles,
    Users, Groups,
    AskTypes,     \* bound: the sets of types a request may ask for
    Requests,     \* bound: the requests that may be in progress at once
    Ops,          \* bound: the operations requests may ask for
    None

Types == {"platform", "workspace", "csp"}
Holders == Users \cup Groups
AllOps == {"create", "createTyped", "update", "updateTyped", "delete", "deleteTyped",
           "deleteCsp", "createCsp", "map", "unmap", "assign", "unassign", "change"}

ASSUME RoleAssumption ==
    /\ InitialName \in [Roles -> Names \cup {None}]
    /\ \A r, s \in Roles : r # s /\ InitialName[r] # None => InitialName[r] # InitialName[s]
    /\ Predefined \subseteq {r \in Roles : InitialName[r] # None}
    /\ InitialSubs \subseteq {r \in Roles : InitialName[r] # None} \X Types
ASSUME AskAssumption == AskTypes \subseteq SUBSET Types /\ Ops \subseteq AllOps
ASSUME NoneNowhere == None \notin Roles \cup Names \cup CspRoles \cup Users \cup Groups

VARIABLES
    name,       \* the name of a role master, None without a row
    marked,     \* the roles whose row says predefined
    subs,       \* mcmp_role_subs
    menus,      \* mcmp_role_menu_mappings
    cspRoles,   \* mcmp_role_csp_roles
    csp,        \* mcmp_role_csp_role_mappings
    holds,      \* mcmp_user_platform_roles and mcmp_group_platform_roles
    members,    \* mcmp_user_workspace_roles and mcmp_group_workspace_roles
    drawn,      \* the ids the sequences have handed out
    req,        \* the requests in progress
    stripped,   \* history: the types a role was deprived of
    unmarked,   \* history: the predefined roles an update has saved
    late        \* history: mappings to a CSP role being deleted, or gone

catalogue == <<name, marked, subs>>
mappings == <<menus, cspRoles, csp>>
holdings == <<holds, members>>
history == <<stripped, unmarked, late>>
roleVars == <<name, marked, subs, menus, cspRoles, csp, holds, members, drawn, req,
              stripped, unmarked, late>>

Steps == {"idle", "ensureCsp", "insert", "save", "clearMenus", "setMenus", "clearCsp",
          "mapCsp", "addSub", "dropMenus", "dropCsp", "dropSubs", "dropMaster",
          "listMappings", "dropSub", "cutMappings", "dropCspRole", "insertRow", "changeRow"}
RequestType == [op : AllOps \cup {"none"}, pc : Steps, role : Roles \cup {None},
                name : Names \cup {None}, types : SUBSET Types, menus : SUBSET Menus,
                csp : CspRoles \cup {None}, holder : Holders \cup {None}]

TypeOK ==
    /\ name \in [Roles -> Names \cup {None}]
    /\ marked \subseteq Roles
    /\ subs \subseteq Roles \X Types
    /\ menus \subseteq Roles \X Menus
    /\ cspRoles \subseteq CspRoles
    /\ csp \subseteq Roles \X CspRoles
    /\ holds \subseteq Holders \X Roles /\ members \subseteq Holders \X Roles
    /\ drawn \subseteq Roles \cup CspRoles
    /\ req \in [Requests -> RequestType]
    /\ stripped \subseteq Roles \X Types
    /\ unmarked \subseteq Roles
    /\ late \subseteq Roles \X CspRoles

Exists(r) == name[r] # None
HasType(r, t) == <<r, t>> \in subs
TypesOf(r) == {t \in Types : HasType(r, t)}

\* A role looked up with a type is only found when it has it.
FindRoleByRoleID(r, t) == Exists(r) /\ HasType(r, t)
FindRoleByRoleName(n) == {r \in Roles : name[r] = n}

\* The listing starts from the role and its types, mapped or not.
FindRoleMasterMappings(r, t) == {s \in Roles : s = r /\ FindRoleByRoleID(s, t)}

Idle == [op |-> "none", pc |-> "idle", role |-> None, name |-> None, types |-> {},
         menus |-> {}, csp |-> None, holder |-> None]
Free(q, op) == req[q].pc = "idle" /\ op \in Ops
At(q, pc) == req[q].pc = pc
Begin(q, r) == req' = [req EXCEPT ![q] = r]
Goto(q, pc) == req' = [req EXCEPT ![q].pc = pc]
Finish(q) == req' = [req EXCEPT ![q] = Idle]

Strip(r, types) == stripped' = stripped \cup {<<r, t>> : t \in types \cap TypesOf(r)}

(***************************************************************************)
(* Mapping a CSP role.  The primary key is the whole row; the column of    *)
(* the CSP role refers to nothing.                                         *)
(***************************************************************************)
BeingDeleted(c) == \E q \in Requests : At(q, "dropCspRole") /\ req[q].csp = c
\* Mutant: the two ids change places.
AddSwapped(r, c) ==
    /\ csp' = csp \cup {<<c, r>>}
    /\ UNCHANGED late

AddMapping(r, c) ==
    /\ <<r, c>> \notin csp
    /\ csp' = csp \cup {<<r, c>>}
    /\ late' = IF c \notin cspRoles \/ BeingDeleted(c) THEN late \cup {<<r, c>>} ELSE late

(***************************************************************************)
(* Creating a role.  Its CSP roles are created first, at the provider and  *)
(* outside of the transaction; a name that is taken is not refused, the    *)
(* types and mappings are added to the role that has it.                   *)
(***************************************************************************)
CreateRole(q, n, types, ms, c) ==
    /\ Free(q, "create")
    /\ Begin(q, [Idle EXCEPT !.op = "create", !.name = n, !.types = types, !.menus = ms,
                             !.csp = c, !.pc = IF c = None THEN "insert" ELSE "ensureCsp"])
    /\ UNCHANGED <<catalogue, mappings, holdings, drawn, history>>

\* One type, and none at all when the request lists no types.
CreateRoleOfType(q, n, t) ==
    /\ Free(q, "createTyped")
    /\ Begin(q, [Idle EXCEPT !.op = "createTyped", !.name = n, !.types = t, !.pc = "insert"])
    /\ UNCHANGED <<catalogue, mappings, holdings, drawn, history>>

CreatePlatformRole(q, n) == \E t \in SUBSET {"platform"} : CreateRoleOfType(q, n, t)
CreateWorkspaceRole(q, n) == \E t \in SUBSET {"workspace"} : CreateRoleOfType(q, n, t)
CreateCspRoleMaster(q, n) == \E t \in SUBSET {"csp"} : CreateRoleOfType(q, n, t)

EnsureCspRole(q) ==
    /\ At(q, "ensureCsp")
    /\ req[q].csp \in cspRoles \/ req[q].csp \notin drawn
    /\ cspRoles' = cspRoles \cup {req[q].csp}
    /\ drawn' = drawn \cup {req[q].csp}
    /\ Goto(q, IF req[q].op = "create" THEN "insert" ELSE "mapCsp")
    /\ UNCHANGED <<catalogue, menus, csp, holdings, history>>

\* The role the name gives: the one that has it, else a new row.
NamedOrNew(n) ==
    IF FindRoleByRoleName(n) # {} THEN FindRoleByRoleName(n)
    ELSE {r \in Roles : ~Exists(r) /\ r \notin drawn}

CreateRoleWithAllDependencies(q) ==
    /\ At(q, "insert")
    /\ \E r \in NamedOrNew(req[q].name) :
         /\ name' = [name EXCEPT ![r] = req[q].name]
         /\ subs' = subs \cup ({r} \X req[q].types)
         /\ menus' = IF "platform" \in req[q].types THEN menus \cup ({r} \X req[q].menus) ELSE menus
         /\ IF req[q].csp = None THEN UNCHANGED <<csp, late>> ELSE AddMapping(r, req[q].csp)
         /\ drawn' = drawn \cup {r}
    /\ Finish(q)
    /\ UNCHANGED <<marked, cspRoles, holdings, stripped, unmarked>>

(***************************************************************************)
(* Updating one.  The general update checks nothing; the ones of a type    *)
(* find the role by it.  Save writes every column, so the predefined mark  *)
(* is cleared, and inserts the row when there is none; the types are       *)
(* replaced in the same transaction.  Menus and CSP roles follow in        *)
(* statements of their own, and only when the request lists some.          *)
(***************************************************************************)
UpdateRole(q, r, n, types, ms, c) ==
    /\ Free(q, "update")
    /\ Begin(q, [op |-> "update", pc |-> "save", role |-> r, name |-> n, types |-> types,
                 menus |-> ms, csp |-> c, holder |-> None])
    /\ UNCHANGED <<catalogue, mappings, holdings, drawn, history>>

UpdateRoleOfType(q, r, t, n, types) ==
    /\ Free(q, "updateTyped")
    /\ FindRoleByRoleID(r, t)
    /\ Begin(q, [Idle EXCEPT !.op = "updateTyped", !.pc = "save", !.role = r, !.name = n,
                             !.types = types])
    /\ UNCHANGED <<catalogue, mappings, holdings, drawn, history>>

UpdatePlatformRole(q, r, n, types) == UpdateRoleOfType(q, r, "platform", n, types)
UpdateWorkspaceRole(q, r, n, types) == UpdateRoleOfType(q, r, "workspace", n, types)
UpdateCspRoleMaster(q, r, n, types) == UpdateRoleOfType(q, r, "csp", n, types)

AfterSave(ask) ==
    IF ask.menus # {} THEN "clearMenus" ELSE IF ask.csp # None THEN "clearCsp" ELSE "idle"
AfterMenus(ask) == IF ask.csp # None THEN "clearCsp" ELSE "idle"
Proceed(q, pc) == IF pc = "idle" THEN Finish(q) ELSE Goto(q, pc)

UpdateRoleWithSubs(q) ==
    LET ask == req[q] IN
    /\ At(q, "save")
    /\ FindRoleByRoleName(ask.name) \subseteq {ask.role}
    /\ name' = [name EXCEPT ![ask.role] = ask.name]
    /\ marked' = marked \ {ask.role}
    /\ unmarked' = unmarked \cup ({ask.role} \cap Predefined)
    /\ subs' = {s \in subs : s[1] # ask.role} \cup ({ask.role} \X ask.types)
    /\ Strip(ask.role, Types \ ask.types)
    /\ drawn' = drawn \cup {ask.role}
    /\ Proceed(q, AfterSave(ask))
    /\ UNCHANGED <<mappings, holdings, late>>

ClearMenus(q) ==
    /\ At(q, "clearMenus")
    /\ menus' = {m \in menus : m[1] # req[q].role}
    /\ Goto(q, "setMenus")
    /\ UNCHANGED <<catalogue, cspRoles, csp, holdings, drawn, history>>

SetMenus(q) ==
    /\ At(q, "setMenus")
    /\ menus' = menus \cup ({req[q].role} \X req[q].menus)
    /\ Proceed(q, AfterMenus(req[q]))
    /\ UNCHANGED <<catalogue, cspRoles, csp, holdings, drawn, history>>

ClearCsp(q) ==
    /\ At(q, "clearCsp")
    /\ csp' = {m \in csp : m[1] # req[q].role}
    /\ Goto(q, "ensureCsp")
    /\ UNCHANGED <<catalogue, menus, cspRoles, holdings, drawn, history>>

CreateRoleCspRoleMapping(q) ==
    /\ At(q, "mapCsp")
    /\ Exists(req[q].role)
    /\ AddMapping(req[q].role, req[q].csp)
    /\ Finish(q)
    /\ UNCHANGED <<catalogue, menus, cspRoles, holdings, drawn, stripped, unmarked>>

(***************************************************************************)
(* Mapping a CSP role by hand: the role becomes one of the CSP type first. *)
(***************************************************************************)
AddCspRoleMappings(q, r, c) ==
    /\ Free(q, "map")
    /\ c \in cspRoles
    /\ Begin(q, [Idle EXCEPT !.op = "map", !.role = r, !.csp = c,
                     !.pc = IF Exists(r) /\ HasType(r, "csp") THEN "mapCsp" ELSE "addSub"])
    /\ UNCHANGED <<catalogue, mappings, holdings, drawn, history>>

CreateRoleSub(q) ==
    /\ At(q, "addSub")
    /\ Exists(req[q].role) /\ ~HasType(req[q].role, "csp")
    /\ subs' = subs \cup {<<req[q].role, "csp">>}
    /\ Goto(q, "mapCsp")
    /\ UNCHANGED <<name, marked, mappings, holdings, drawn, history>>

RemoveCspRoleMappings(r, c) ==
    /\ "unmap" \in Ops
    /\ csp' = csp \ {<<r, c>>}
    /\ UNCHANGED <<catalogue, menus, cspRoles, holdings, drawn, req, history>>

(***************************************************************************)
(* Deleting a role.  The request may name a type, and then only that one   *)
(* is seen; that users hold the role is not looked at.  Menus, CSP         *)
(* mappings, types and master go one after the other; an error of the      *)
(* first two is logged and passed over.  Foreign keys keep a master that   *)
(* anything refers to, when its types are gone already.                    *)
(***************************************************************************)
\* Mutant: the mark is not looked at.
DeleteAnyRole(q, r, t) ==
    /\ Free(q, "delete")
    /\ Exists(r) /\ (t # None => HasType(r, t))
    /\ Begin(q, [Idle EXCEPT !.op = "delete", !.pc = "dropMenus", !.role = r,
                             !.types = TypesOf(r) \cap (IF t = None THEN Types ELSE {t})])
    /\ UNCHANGED <<catalogue, mappings, holdings, drawn, history>>

DeleteRole(q, r, t) ==
    /\ Free(q, "delete")
    /\ Exists(r) /\ (t # None => HasType(r, t))
    /\ r \notin marked
    /\ Begin(q, [Idle EXCEPT !.op = "delete", !.pc = "dropMenus", !.role = r,
                             !.types = TypesOf(r) \cap (IF t = None THEN Types ELSE {t})])
    /\ UNCHANGED <<catalogue, mappings, holdings, drawn, history>>

DropMenus(q) ==
    /\ At(q, "dropMenus")
    /\ \/ "platform" \in req[q].types /\ menus' = {m \in menus : m[1] # req[q].role}
       \/ UNCHANGED menus
    /\ Goto(q, "dropCsp")
    /\ UNCHANGED <<catalogue, cspRoles, csp, holdings, drawn, history>>

DropCsp(q) ==
    /\ At(q, "dropCsp")
    /\ \/ "csp" \in req[q].types /\ csp' = {m \in csp : m[1] # req[q].role}
       \/ UNCHANGED csp
    /\ Goto(q, "dropSubs")
    /\ UNCHANGED <<catalogue, menus, cspRoles, holdings, drawn, history>>

DeleteRoleSubs(q) ==
    /\ At(q, "dropSubs")
    /\ subs' = {s \in subs : s[1] # req[q].role}
    /\ Strip(req[q].role, Types)
    /\ Goto(q, "dropMaster")
    /\ UNCHANGED <<name, marked, mappings, holdings, drawn, unmarked, late>>

\* What a foreign key ties to the master.
ReferredTo(r) == \/ TypesOf(r) # {}
                 \/ \E c \in CspRoles : <<r, c>> \in csp
                 \/ \E h \in Holders : <<h, r>> \in holds \cup members

DeleteRoleMaster(q) ==
    /\ At(q, "dropMaster")
    /\ ~ReferredTo(req[q].role)
    /\ name' = [name EXCEPT ![req[q].role] = None]
    /\ marked' = marked \ {req[q].role}
    /\ Finish(q)
    /\ UNCHANGED <<subs, mappings, holdings, drawn, history>>

\* Deleting it "as" one type drops that type and leaves the master.
DeleteRoleOfType(q, r, t, pc) ==
    /\ Free(q, "deleteTyped")
    /\ FindRoleByRoleID(r, t)
    /\ r \notin marked
    /\ Begin(q, [Idle EXCEPT !.op = "deleteTyped", !.pc = pc, !.role = r, !.types = {t}])
    /\ UNCHANGED <<catalogue, mappings, holdings, drawn, history>>

DeletePlatformRole(q, r) == DeleteRoleOfType(q, r, "platform", "dropSub")
DeleteWorkspaceRole(q, r) == DeleteRoleOfType(q, r, "workspace", "dropSub")
DeleteCspRoleMaster(q, r) == DeleteRoleOfType(q, r, "csp", "listMappings")

\* A role of the CSP type is in the listing, mapped to a CSP role or not.
NoMappingListed(q) ==
    /\ At(q, "listMappings")
    /\ FindRoleMasterMappings(req[q].role, "csp") = {}
    /\ Goto(q, "dropSub")
    /\ UNCHANGED <<catalogue, mappings, holdings, drawn, history>>

DropSub(q) ==
    /\ At(q, "dropSub")
    /\ subs' = subs \ ({req[q].role} \X req[q].types)
    /\ Strip(req[q].role, req[q].types)
    /\ Finish(q)
    /\ UNCHANGED <<name, marked, mappings, holdings, drawn, unmarked, late>>

(***************************************************************************)
(* Deleting a CSP role: its mappings first, then the row.                  *)
(***************************************************************************)
CreateCspRole(c) ==
    /\ "createCsp" \in Ops
    /\ c \notin drawn
    /\ cspRoles' = cspRoles \cup {c}
    /\ drawn' = drawn \cup {c}
    /\ UNCHANGED <<catalogue, menus, csp, holdings, req, history>>

DeleteCspRole(q, c) ==
    /\ Free(q, "deleteCsp")
    /\ c \in cspRoles
    /\ Begin(q, [Idle EXCEPT !.op = "deleteCsp", !.pc = "cutMappings", !.csp = c])
    /\ UNCHANGED <<catalogue, mappings, holdings, drawn, history>>

\* Mutant: the mappings are left to the database.
CutNoMappings(q) ==
    /\ At(q, "cutMappings")
    /\ Goto(q, "dropCspRole")
    /\ UNCHANGED <<catalogue, menus, cspRoles, csp, holdings, drawn, history>>

CutMappings(q) ==
    /\ At(q, "cutMappings")
    /\ csp' = {m \in csp : m[2] # req[q].csp}
    /\ Goto(q, "dropCspRole")
    /\ UNCHANGED <<catalogue, menus, cspRoles, holdings, drawn, history>>

DropCspRole(q) ==
    /\ At(q, "dropCspRole")
    /\ cspRoles' = cspRoles \ {req[q].csp}
    /\ Finish(q)
    /\ UNCHANGED <<catalogue, menus, csp, holdings, drawn, history>>

(***************************************************************************)
(* Who holds a role.  The type is checked when the request arrives, the    *)
(* row written later; a group has one role in a workspace.                 *)
(***************************************************************************)
\* Mutant: any role is assigned as any type.
AssignRoleOfAnyType(q, h, r, t) ==
    /\ Free(q, "assign")
    /\ Exists(r)
    /\ Begin(q, [Idle EXCEPT !.op = "assign", !.pc = "insertRow", !.role = r, !.types = {t},
                             !.holder = h])
    /\ UNCHANGED <<catalogue, mappings, holdings, drawn, history>>

AssignRole(q, h, r, t) ==
    /\ Free(q, "assign")
    /\ FindRoleByRoleID(r, t)
    /\ Begin(q, [Idle EXCEPT !.op = "assign", !.pc = "insertRow", !.role = r, !.types = {t},
                             !.holder = h])
    /\ UNCHANGED <<catalogue, mappings, holdings, drawn, history>>

AssignGroupWorkspace(q, g, r) == AssignRole(q, g, r, "workspace")

InsertHolding(q) ==
    LET row == <<req[q].holder, req[q].role>> IN
    /\ At(q, "insertRow")
    /\ Exists(req[q].role)
    /\ \/ /\ req[q].types = {"platform"} /\ row \notin holds
          /\ holds' = holds \cup {row} /\ UNCHANGED members
       \/ /\ req[q].types = {"workspace"} /\ row \notin members
          /\ req[q].holder \in Groups => ~ \E r \in Roles : <<req[q].holder, r>> \in members
          /\ members' = members \cup {row} /\ UNCHANGED holds
    /\ Finish(q)
    /\ UNCHANGED <<catalogue, mappings, drawn, history>>

RemoveRole(h, r, t) ==
    /\ "unassign" \in Ops
    /\ IF t = "platform"
       THEN holds' = holds \ {<<h, r>>} /\ UNCHANGED members
       ELSE members' = members \ {<<h, r>>} /\ UNCHANGED holds
    /\ UNCHANGED <<catalogue, mappings, drawn, req, history>>

RemoveGroupWorkspaceRole(g, r) == RemoveRole(g, r, "workspace")

UpdateGroupWorkspaceRole(q, g, r) ==
    /\ Free(q, "change")
    /\ FindRoleByRoleID(r, "workspace")
    /\ Begin(q, [Idle EXCEPT !.op = "change", !.pc = "changeRow", !.role = r, !.holder = g])
    /\ UNCHANGED <<catalogue, mappings, holdings, drawn, history>>

ChangeRow(q) ==
    LET held == {m \in members : m[1] = req[q].holder} IN
    /\ At(q, "changeRow")
    /\ Exists(req[q].role) /\ held # {}
    /\ members' = (members \ held) \cup {<<req[q].holder, req[q].role>>}
    /\ Finish(q)
    /\ UNCHANGED <<catalogue, mappings, holds, drawn, history>>

Abort(q) ==
    /\ req[q].pc # "idle"
    /\ Finish(q)
    /\ UNCHANGED <<catalogue, mappings, holdings, drawn, history>>

RoleInit ==
    /\ name = InitialName /\ marked = Predefined /\ subs = InitialSubs
    /\ menus = {} /\ cspRoles = {} /\ csp = {}
    /\ holds = {} /\ members = {}
    /\ drawn = {r \in Roles : InitialName[r] # None}
    /\ req = [q \in Requests |-> Idle]
    /\ stripped = {} /\ unmarked = {} /\ late = {}

CreateStep(q) ==
    \/ \E n \in Names, types \in AskTypes, ms \in SUBSET Menus, c \in CspRoles \cup {None} :
         CreateRole(q, n, types, ms, c)
    \/ \E n \in Names : CreatePlatformRole(q, n) \/ CreateWorkspaceRole(q, n) \/ CreateCspRoleMaster(q, n)
    \/ EnsureCspRole(q) \/ CreateRoleWithAllDependencies(q)

UpdateStep(q) ==
    \/ \E r \in Roles, n \in Names, types \in AskTypes :
         \/ \E ms \in SUBSET Menus, c \in CspRoles \cup {None} : UpdateRole(q, r, n, types, ms, c)
         \/ UpdatePlatformRole(q, r, n, types) \/ UpdateWorkspaceRole(q, r, n, types)
         \/ UpdateCspRoleMaster(q, r, n, types)
    \/ UpdateRoleWithSubs(q) \/ ClearMenus(q) \/ SetMenus(q) \/ ClearCsp(q)

MappingStep(q) ==
    \/ \E r \in Roles, c \in CspRoles : AddCspRoleMappings(q, r, c)
    \/ CreateRoleSub(q) \/ CreateRoleCspRoleMapping(q)
    \/ \E c \in CspRoles : DeleteCspRole(q, c)
    \/ CutMappings(q) \/ DropCspRole(q)

DeleteStep(q) ==
    \/ \E r \in Roles, t \in Types \cup {None} : DeleteRole(q, r, t)
    \/ DropMenus(q) \/ DropCsp(q) \/ DeleteRoleSubs(q) \/ DeleteRoleMaster(q)
    \/ \E r \in Roles : DeletePlatformRole(q, r) \/ DeleteWorkspaceRole(q, r) \/ DeleteCspRoleMaster(q, r)
    \/ NoMappingListed(q) \/ DropSub(q)

HoldingStep(q) ==
    \/ \E u \in Users, r \in Roles, t \in {"platform", "workspace"} : AssignRole(q, u, r, t)
    \/ \E g \in Groups, r \in Roles : AssignGroupWorkspace(q, g, r)
    \/ InsertHolding(q)
    \/ \E g \in Groups, r \in Roles : UpdateGroupWorkspaceRole(q, g, r)
    \/ ChangeRow(q)

SingleStep ==
    \/ \E r \in Roles, c \in CspRoles : RemoveCspRoleMappings(r, c)
    \/ \E c \in CspRoles : CreateCspRole(c)
    \/ \E u \in Users, r \in Roles, t \in {"platform", "workspace"} : RemoveRole(u, r, t)
    \/ \E g \in Groups, r \in Roles : RemoveGroupWorkspaceRole(g, r)

RoleNext ==
    \/ \E q \in Requests : \/ CreateStep(q) \/ UpdateStep(q) \/ MappingStep(q)
                           \/ DeleteStep(q) \/ HoldingStep(q) \/ Abort(q)
    \/ SingleStep

RoleSpec == RoleInit /\ [][RoleNext]_roleVars

----------------------------------------------------------------------------
(***************************************************************************)
(* Whatever refers to a role refers to one that is there: a deletion that  *)
(* meets an assignment, a mapping or a revival never leaves a row without  *)
(* its master.  (Menu mappings have no foreign key and are left out.)      *)
(***************************************************************************)
RowsHaveRoles == \A r \in Roles : ~Exists(r) => ~ReferredTo(r)

(***************************************************************************)
(* A predefined role disappears only after an update of it, which clears   *)
(* the mark the deletion looks at; no other sequence of calls deletes it.  *)
(***************************************************************************)
PredefinedStays == \A r \in Predefined : Exists(r) \/ r \in unmarked

(***************************************************************************)
(* Who holds a role as a role of the platform or of a workspace holds one  *)
(* of that type, unless the type was taken from it by an update or by a    *)
(* deletion, one that failed at the master included: nothing looks at the  *)
(* holders then.                                                           *)
(***************************************************************************)
HoldingsAreTyped ==
    \A h \in Holders, r \in Roles :
        /\ <<h, r>> \in holds => <<r, "platform">> \in subs \cup stripped
        /\ <<h, r>> \in members => <<r, "workspace">> \in subs \cup stripped

(***************************************************************************)
(* A mapping to a CSP role that is gone is one that was written while that *)
(* CSP role was being deleted or after it: DeleteCspRole cuts every other. *)
(***************************************************************************)
DanglingMappingsAreLate == \A m \in csp : m[2] \in cspRoles \/ m \in late
=============================================================================
