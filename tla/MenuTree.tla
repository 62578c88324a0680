------------------------------- MODULE MenuTree -------------------------------
(***************************************************************************)
(* The menus of the console: mcmp_menus, a tree by parent_id, and          *)
(* mcmp_role_menu_mappings, which role of the platform sees which menu.    *)
(* Single menus are written by the handlers of menu_handler.go, all of     *)
(* them by menu.yaml; the mappings by permission.yaml, by hand, and by the *)
(* backup and restore of admin_handler.go.  What takes several statements  *)
(* is a job with a program counter.                                        *)
(*                                                                         *)
(* Neither table has a foreign key.  Equal mappings are not told apart:    *)
(* every statement reads and deletes them by value.                        *)
(***************************************************************************)
EXTENDS Naturals, FiniteSets

CONSTANTS
    MenuIds,
    Home,           \* the menu "home", which the file updates but never creates
    MenuRoles,      \* roles of the platform
    MenuAdmin,      \* the role "admin"
    SeedParent,     \* menu.yaml: the parent of each menu of the file
    SeedMapped,     \* permission.yaml: the menus of each role of the file
    MenuJobs        \* bound: the jobs that may be in progress at once

ASSUME MenuAssumption ==
    /\ IsFiniteSet(MenuIds) /\ Home \in MenuIds
    /\ MenuAdmin \in MenuRoles
    /\ "none" \notin MenuIds \cup MenuRoles
    /\ DOMAIN SeedParent \subseteq MenuIds
    /\ SeedParent \in [DOMAIN SeedParent -> MenuIds \cup {"none"}]
    /\ DOMAIN SeedMapped \subseteq MenuRoles
    /\ SeedMapped \in [DOMAIN SeedMapped -> SUBSET MenuIds]

VARIABLES
    menuRows,     \* the menus there are
    menuParent,   \* parent_id, "none" at the top; it may be a menu that is not there
    menuPerms,    \* mcmp_mciam_permissions: the menus that may be viewed by permission
    menuMaps,     \* mcmp_role_menu_mappings
    roleRows,     \* the roles there are
    backup,       \* the document of the last backup, in the administrator's hands
    job,          \* the jobs in progress
    looseMenus    \* history: the menus written below a parent that was not there

menuVars == <<menuRows, menuParent, menuPerms, menuMaps, roleRows, backup, job, looseMenus>>
menuTree == <<menuRows, menuParent, menuPerms, looseMenus>>

Pairs == MenuRoles \X MenuIds
PairsOf(want) == {p \in Pairs : p[2] \in want[p[1]]}
NoMenus == [r \in MenuRoles |-> {}]
Seeded == [r \in MenuRoles |-> IF r \in DOMAIN SeedMapped THEN SeedMapped[r] ELSE {}]
NoJob == [op |-> "none", pc |-> "idle", todo |-> {}, role |-> "none", want |-> NoMenus,
          have |-> {}, listed |-> {}, touched |-> {}]
JobType ==
    [op : {"none", "backup", "seed", "add", "replace"},
     pc : {"idle", "export", "scan", "fill", "find", "clear", "put", "read", "extend"},
     todo : SUBSET MenuRoles, role : MenuRoles \cup {"none"},
     want : [MenuRoles -> SUBSET MenuIds], have : SUBSET Pairs,
     listed : SUBSET MenuRoles, touched : SUBSET MenuRoles]

MenuTypeOK ==
    /\ menuRows \subseteq MenuIds /\ menuPerms \subseteq MenuIds /\ looseMenus \subseteq MenuIds
    /\ menuParent \in [MenuIds -> MenuIds \cup {"none"}]
    /\ menuMaps \subseteq Pairs
    /\ roleRows \subseteq MenuRoles
    /\ backup \in [want : [MenuRoles -> SUBSET MenuIds], listed : SUBSET MenuRoles]
    /\ job \in [MenuJobs -> JobType]

MenusOf(r) == {m \in MenuIds : <<r, m>> \in menuMaps}

(***************************************************************************)
(* The menus below one: what the recursive query of the deletion collects. *)
(* It goes by UNION ALL, so on a cycle it does not end.                    *)
(***************************************************************************)
ChildrenOf(S) == {m \in menuRows : menuParent[m] \in S}
Collected(m) ==
    LET level[n \in 0..Cardinality(MenuIds)] == IF n = 0 THEN {m} ELSE ChildrenOf(level[n - 1])
    IN  [rows |-> UNION {level[n] : n \in DOMAIN level},
         ends |-> level[Cardinality(MenuIds)] = {}]

(***************************************************************************)
(* Writing menus.  No parent is looked up: not when a menu is created, not *)
(* when it is moved, not when it comes with a file.                        *)
(***************************************************************************)
Write(written, parents) ==
    /\ menuRows' = menuRows \cup written
    /\ menuParent' = [m \in MenuIds |-> IF m \in written THEN parents[m] ELSE menuParent[m]]
    /\ looseMenus' = (looseMenus \ written)
                  \cup {m \in written : parents[m] \notin menuRows \cup written \cup {"none"}}

CreateMenu(m, p, roles) ==
    /\ m \notin menuRows
    /\ MenuAdmin \in roleRows /\ roles \subseteq roleRows
    /\ Write({m}, [n \in {m} |-> p])
    /\ menuMaps' = menuMaps \cup (({MenuAdmin} \cup roles) \X {m})
    /\ job' = [j \in MenuJobs |-> [job[j] EXCEPT !.touched = @ \cup {MenuAdmin} \cup roles]]
    /\ UNCHANGED <<menuPerms, roleRows, backup>>

\* An empty parent means no change, so nothing is moved to the top.
UpdateMenu(m, p) ==
    /\ m \in menuRows
    /\ Write({m}, [n \in {m} |-> p])
    /\ UNCHANGED <<menuPerms, menuMaps, roleRows, backup, job>>

UpsertMenus(written) ==
    /\ Write(written, SeedParent)
    /\ menuPerms' = menuPerms \cup written
    /\ UNCHANGED <<menuMaps, roleRows, backup, job>>

LoadAndRegisterMenusFromYAML == UpsertMenus(DOMAIN SeedParent \ {Home})
RegisterMenusFromContent == UpsertMenus(DOMAIN SeedParent)

Remove(gone) ==
    /\ menuRows' = menuRows \ gone
    /\ menuParent' = [m \in MenuIds |-> IF m \in gone THEN "none" ELSE menuParent[m]]
    /\ looseMenus' = looseMenus \ gone

\* Mutant: the row goes, the menus below it stay (menu_repository.go:141).
DeleteMenuAlone(m) ==
    /\ m \in menuRows /\ Collected(m).ends
    /\ Remove({m})
    /\ UNCHANGED <<menuPerms, menuMaps, roleRows, backup, job>>

\* The mappings and the permission of what is deleted stay.
DeleteMenuWithChildren(m) ==
    /\ m \in menuRows /\ Collected(m).ends
    /\ Remove(Collected(m).rows)
    /\ UNCHANGED <<menuPerms, menuMaps, roleRows, backup, job>>

(***************************************************************************)
(* Writing mappings, each action one statement.  A job notes the roles     *)
(* somebody else has written for since it started.                         *)
(***************************************************************************)
Touch(mine, roles) ==
    [j \in MenuJobs |-> IF j \in mine THEN job[j]
                        ELSE [job[j] EXCEPT !.touched = @ \cup roles]]

\* Mutant: the two ids change places.
CreateSwapped(r, ms) ==
    /\ menuMaps' = menuMaps \cup (ms \X {r})
    /\ job' = Touch({}, {r})
    /\ UNCHANGED <<menuTree, roleRows, backup>>

CreateMenusRolesMapping(r, ms) ==
    /\ menuMaps' = menuMaps \cup ({r} \X ms)
    /\ job' = Touch({}, {r})
    /\ UNCHANGED <<menuTree, roleRows, backup>>

DeleteRoleMenuMappingByRoleAndMenu(r, m) ==
    /\ <<r, m>> \in menuMaps
    /\ menuMaps' = menuMaps \ {<<r, m>>}
    /\ job' = Touch({}, {r})
    /\ UNCHANGED <<menuTree, roleRows, backup>>

\* A role is deleted; RoleMaster says when its mappings stay.
RoleGoes(r) ==
    /\ roleRows' = roleRows \ {r}
    /\ menuMaps' \in {menuMaps, {p \in menuMaps : p[1] # r}}
    /\ job' = Touch({}, {r})
    /\ UNCHANGED <<menuTree, backup>>

JobAt(j, pc) == job[j].pc = pc
Step(j, changed) == job' = [Touch({j}, {}) EXCEPT ![j] = changed]
Ends(j) == Step(j, NoJob)

\* A statement of job j that writes for role r.
Mapped(j, r, maps, changed) ==
    /\ menuMaps' = maps
    /\ job' = [Touch({j}, {r}) EXCEPT ![j] = changed]
    /\ UNCHANGED <<menuTree, roleRows, backup>>

(***************************************************************************)
(* The backup, of all roles or of those asked for: they are looked up,     *)
(* then the mappings of each are read.                                     *)
(***************************************************************************)
BackupRolePermissions(j, asked) ==
    /\ JobAt(j, "idle") /\ asked \subseteq roleRows /\ asked # {}
    /\ Step(j, [NoJob EXCEPT !.op = "backup", !.pc = "export", !.todo = asked,
                             !.listed = asked])
    /\ UNCHANGED <<menuTree, menuMaps, roleRows, backup>>

ExportRole(j) ==
    /\ JobAt(j, "export")
    /\ \E r \in job[j].todo :
         LET want == [job[j].want EXCEPT ![r] = MenusOf(r)] IN
         IF job[j].todo = {r}
         THEN backup' = [want |-> want, listed |-> job[j].listed] /\ Ends(j)
         ELSE /\ Step(j, [job[j] EXCEPT !.todo = @ \ {r}, !.want = want])
              /\ UNCHANGED backup
    /\ UNCHANGED <<menuTree, menuMaps, roleRows>>

(***************************************************************************)
(* The seed: every role of the file is there, or it ends; what is mapped   *)
(* is read for all of them, then what is missing is inserted one by one.   *)
(***************************************************************************)
ApplyRoleMenuPermissionSeed(j) ==
    /\ JobAt(j, "idle") /\ DOMAIN SeedMapped \subseteq roleRows /\ DOMAIN SeedMapped # {}
    /\ Step(j, [NoJob EXCEPT !.op = "seed", !.pc = "scan", !.todo = DOMAIN SeedMapped,
                             !.want = Seeded, !.listed = DOMAIN SeedMapped])
    /\ UNCHANGED <<menuTree, menuMaps, roleRows, backup>>

ScanRole(j) ==
    /\ JobAt(j, "scan")
    /\ \E r \in job[j].todo :
         Step(j, [job[j] EXCEPT !.have = @ \cup ({r} \X MenusOf(r)), !.todo = @ \ {r},
                                !.pc = IF job[j].todo = {r} THEN "fill" ELSE "scan"])
    /\ UNCHANGED <<menuTree, menuMaps, roleRows, backup>>

Missing(j) == PairsOf(job[j].want) \ job[j].have
FillMapping(j) ==
    /\ JobAt(j, "fill")
    /\ \E p \in Missing(j) :
         Mapped(j, p[1], menuMaps \cup {p}, [job[j] EXCEPT !.have = @ \cup {p}])

SeedEnds(j) ==
    /\ JobAt(j, "fill") /\ Missing(j) = {}
    /\ Ends(j)
    /\ UNCHANGED <<menuTree, menuMaps, roleRows, backup>>

(***************************************************************************)
(* The restore goes role by role and is not a transaction.  To replace is  *)
(* to delete all mappings of the role and to insert those of the document; *)
(* to add is to insert what is missing.                                    *)
(***************************************************************************)
RestoreRolePermissions(j, mode) ==
    /\ JobAt(j, "idle") /\ backup.listed # {}
    /\ Step(j, [NoJob EXCEPT !.op = mode, !.pc = "find", !.todo = backup.listed,
                             !.want = backup.want, !.listed = backup.listed])
    /\ UNCHANGED <<menuTree, menuMaps, roleRows, backup>>

FindRole(j) ==
    /\ JobAt(j, "find")
    /\ \E r \in job[j].todo \cap roleRows :
         Step(j, [job[j] EXCEPT !.role = r, !.todo = @ \ {r},
                                !.pc = IF job[j].op = "replace" THEN "clear" ELSE "read"])
    /\ UNCHANGED <<menuTree, menuMaps, roleRows, backup>>

\* Mutant: what the role has beyond the document stays.
ClearNothing(j) ==
    /\ JobAt(j, "clear")
    /\ Mapped(j, job[j].role, menuMaps, [job[j] EXCEPT !.pc = "put"])

ClearRole(j) ==
    /\ JobAt(j, "clear")
    /\ Mapped(j, job[j].role, {p \in menuMaps : p[1] # job[j].role},
              [job[j] EXCEPT !.pc = "put"])

ReplaceRoleMenuMappings(j) ==
    /\ JobAt(j, "put")
    /\ Mapped(j, job[j].role, menuMaps \cup ({job[j].role} \X job[j].want[job[j].role]),
              [job[j] EXCEPT !.pc = "find"])

ReadRole(j) ==
    /\ JobAt(j, "read")
    /\ Step(j, [job[j] EXCEPT !.have = {job[j].role} \X MenusOf(job[j].role), !.pc = "extend"])
    /\ UNCHANGED <<menuTree, menuMaps, roleRows, backup>>

AddMissingRoleMenuMappings(j) ==
    LET missing == {p \in Missing(j) : p[1] = job[j].role} IN
    /\ JobAt(j, "extend")
    /\ \/ \E p \in missing :
            Mapped(j, p[1], menuMaps \cup {p}, [job[j] EXCEPT !.have = @ \cup {p}])
       \/ /\ missing = {}
          /\ Step(j, [job[j] EXCEPT !.pc = "find"])
          /\ UNCHANGED <<menuTree, menuMaps, roleRows, backup>>

RestoreEnds(j) ==
    /\ JobAt(j, "find") /\ job[j].todo = {}
    /\ Ends(j)
    /\ UNCHANGED <<menuTree, menuMaps, roleRows, backup>>

\* A statement fails, a role of the document is not there, or the process dies.
JobStops(j) ==
    /\ ~JobAt(j, "idle")
    /\ Ends(j)
    /\ UNCHANGED <<menuTree, menuMaps, roleRows, backup>>

(***************************************************************************)
(* What a user is shown.  An empty list of ids is no condition at all: a   *)
(* query for no menu gives every menu, and one for no role every mapping.  *)
(***************************************************************************)
GetMenus(ids) == IF ids = {} THEN menuRows ELSE menuRows \cap ids
FindMappedMenuIDs(roles) ==
    {m \in MenuIds : \E r \in IF roles = {} THEN MenuRoles ELSE roles : <<r, m>> \in menuMaps}
MenuList(roles) ==
    LET menus == GetMenus(FindMappedMenuIDs(roles))
    IN  menus \cup GetMenus({menuParent[m] : m \in menus})

\* The roles of a token that no table has give the menus of "admin".
ListUserMenu(token) ==
    LET known == token \cap roleRows
    IN  IF known = {} /\ token # {} /\ MenuAdmin \in roleRows
        THEN MenuList({MenuAdmin}) ELSE MenuList(known)

MenuInit ==
    /\ menuRows = {Home} /\ menuParent = [m \in MenuIds |-> "none"] /\ menuPerms = {}
    /\ menuMaps = {<<MenuAdmin, Home>>}
    /\ roleRows = MenuRoles
    /\ backup = [want |-> NoMenus, listed |-> {}]
    /\ job = [j \in MenuJobs |-> NoJob]
    /\ looseMenus = {}

WriteStep ==
    \/ \E m \in MenuIds, p \in MenuIds \cup {"none"}, roles \in SUBSET MenuRoles :
         CreateMenu(m, p, roles)
    \/ \E m, p \in MenuIds : UpdateMenu(m, p)
    \/ LoadAndRegisterMenusFromYAML \/ RegisterMenusFromContent
    \/ \E m \in MenuIds : DeleteMenuWithChildren(m)
    \/ \E r \in MenuRoles, ms \in SUBSET MenuIds : CreateMenusRolesMapping(r, ms)
    \/ \E r \in MenuRoles, m \in MenuIds : DeleteRoleMenuMappingByRoleAndMenu(r, m)
    \/ \E r \in MenuRoles : RoleGoes(r)

JobStep(j) ==
    \/ \E asked \in SUBSET MenuRoles : BackupRolePermissions(j, asked)
    \/ ExportRole(j)
    \/ ApplyRoleMenuPermissionSeed(j) \/ ScanRole(j) \/ FillMapping(j) \/ SeedEnds(j)
    \/ \E mode \in {"add", "replace"} : RestoreRolePermissions(j, mode)
    \/ FindRole(j) \/ ClearRole(j) \/ ReplaceRoleMenuMappings(j)
    \/ ReadRole(j) \/ AddMissingRoleMenuMappings(j) \/ RestoreEnds(j) \/ JobStops(j)

MenuNext == WriteStep \/ \E j \in MenuJobs : JobStep(j)
MenuSpec == MenuInit /\ [][MenuNext]_menuVars

----------------------------------------------------------------------------
(***************************************************************************)
(* A deletion takes everything below with it: a menu whose parent is not   *)
(* there was written below a parent that was not there.                    *)
(***************************************************************************)
DeletionTakesSubtree ==
    \A m \in menuRows \ looseMenus : menuParent[m] \in menuRows \cup {"none"}

(***************************************************************************)
(* A seed or a restore that ends without an error has done what its        *)
(* document says for every role that nobody else wrote for meanwhile: a    *)
(* replaced role has exactly those menus, the others have them all.        *)
(***************************************************************************)
DoneAsWritten(j) ==
    \A r \in job[j].listed \ job[j].touched :
        /\ job[j].want[r] \subseteq MenusOf(r)
        /\ job[j].op = "replace" => MenusOf(r) = job[j].want[r]
RestoresWhatItSays ==
    \A j \in MenuJobs :
        \/ JobAt(j, "fill") /\ Missing(j) = {}
        \/ JobAt(j, "find") /\ job[j].todo = {}
        => DoneAsWritten(j)

(***************************************************************************)
(* What menu_handler.go says of the list it gives a user: the menus        *)
(* accessible to his roles, that is those mapped to one of them and their  *)
(* parents.                                                                *)
(***************************************************************************)
ShowsAccessible ==
    \A roles \in SUBSET MenuRoles :
        ListUserMenu(roles) \subseteq
            UNION {MenusOf(r) : r \in roles}
              \cup {menuParent[m] : m \in UNION {MenusOf(r) : r \in roles}}
=============================================================================
