--------------------------- MODULE CatalogueProofs ---------------------------
(***************************************************************************)
(* Menus, the registry of actions and the rows that are saved whole; and the*)
(* types of everything the administrators edit besides roles.              *)
(***************************************************************************)
EXTENDS MCCatalogue, CloudProofs, FiniteSetTheorems, WellFoundedInduction, TLAPS

------------------------------------------------------------------------------
(***************************************************************************)
(* A deletion takes the subtree, and a seed or a restore does what its     *)
(* document says.                                                          *)
(***************************************************************************)
(***************************************************************************)
(* The recursive query.  Its levels are defined one by the other, so that  *)
(* there is such a function at all is by the least number without one.     *)
(***************************************************************************)
MenuLevels(m, n, level) ==
    level = [i \in 0..n |-> IF i = 0 THEN {m} ELSE ChildrenOf(level[i - 1])]

LEMMA LevelsExist ==
  ASSUME NEW m, NEW N \in Nat
  PROVE  \E level : MenuLevels(m, N, level)
<1> DEFINE Without == {n \in Nat : ~ \E level : MenuLevels(m, n, level)}
<1>1. SUFFICES ASSUME Without # {} PROVE FALSE
  OBVIOUS
<1>2. PICK n \in Without : \A k \in Nat : k < n => k \notin Without
  <2>1. Without \in SUBSET Nat
    OBVIOUS
  <2>2. PICK n \in Without : \A k \in Without : n <= k
    BY <1>1, <2>1, LeastOf
  <2>3. ASSUME NEW k \in Nat, k < n PROVE k \notin Without
    BY <2>1, <2>2, <2>3
  <2> QED
    BY <2>2, <2>3
<1>3. CASE n = 0
  <2>1. MenuLevels(m, 0, [i \in 0..0 |-> {m}])
    BY DEF MenuLevels
  <2> QED
    BY <1>2, <1>3, <2>1
<1>4. CASE n # 0
  <2>1. n - 1 \in Nat /\ n - 1 < n /\ n \in Nat
    BY <1>2, <1>4
  <2>2. PICK below : MenuLevels(m, n - 1, below)
    BY <1>2, <2>1
  <2> DEFINE level == [i \in 0..n |-> IF i = n THEN ChildrenOf(below[n - 1]) ELSE below[i]]
  <2>3. \A i \in 0..n - 1 : below[i] = IF i = 0 THEN {m} ELSE ChildrenOf(below[i - 1])
    BY <2>2 DEF MenuLevels
  <2>4. ASSUME NEW i \in 0..n
        PROVE  level[i] = IF i = 0 THEN {m} ELSE ChildrenOf(level[i - 1])
    <3>1. CASE i = n
      <4>1. level[i] = ChildrenOf(below[n - 1]) /\ level[i - 1] = below[n - 1]
        BY <2>1, <3>1
      <4> QED
        BY <1>4, <3>1, <4>1
    <3>2. CASE i # n
      <4>1. i \in 0..n - 1 /\ level[i] = below[i]
        BY <2>1, <3>2
      <4>2. i # 0 => level[i - 1] = below[i - 1]
        BY <2>1, <4>1
      <4> QED
        BY <2>3, <4>1, <4>2
    <3> QED
      BY <3>1, <3>2
  <2>5. level = [i \in 0..n |-> level[i]]
    OBVIOUS
  <2> HIDE DEF level
  <2>6. MenuLevels(m, n, level)
    BY <2>4, <2>5 DEF MenuLevels
  <2> QED
    BY <1>2, <2>6
<1> QED
  BY <1>3, <1>4

\* What a deletion collects when the query ends: the menu, and with a menu all below it.
LEMMA CollectedIsClosed ==
  ASSUME NEW m, Collected(m).ends
  PROVE  ChildrenOf(Collected(m).rows) \subseteq Collected(m).rows
<1> DEFINE N == Cardinality(MenuIds)
           level == CHOOSE f : MenuLevels(m, N, f)
<1>1. N \in Nat
  BY MenuAssumption, FS_CardinalityType
<1>2. MenuLevels(m, N, level)
  BY <1>1, LevelsExist
<1>3. Collected(m) = [rows |-> UNION {level[n] : n \in DOMAIN level}, ends |-> level[N] = {}]
  BY DEF Collected, MenuLevels
<1> HIDE DEF level, N
<1>4. /\ DOMAIN level = 0..N
      /\ \A n \in 0..N : level[n] = IF n = 0 THEN {m} ELSE ChildrenOf(level[n - 1])
  BY <1>2 DEF MenuLevels
<1>5. Collected(m).rows = UNION {level[n] : n \in 0..N} /\ level[N] = {}
  <2>1. Collected(m).rows = UNION {level[n] : n \in DOMAIN level}
    BY <1>3
  <2> DEFINE rows == UNION {level[n] : n \in DOMAIN level}
             ends == (level[N] = {})
  <2>3. Collected(m) = [rows |-> rows, ends |-> ends]
    BY <1>3
  <2> HIDE DEF rows, ends
  <2>4. Collected(m).ends = ends
    BY <2>3
  <2>2. level[N] = {}
    BY <2>4 DEF ends
  <2> QED
    BY <1>4, <2>1, <2>2
<1>6. ASSUME NEW c \in ChildrenOf(Collected(m).rows) PROVE c \in Collected(m).rows
  <2>1. PICK n \in 0..N : menuParent[c] \in level[n] /\ c \in menuRows
    BY <1>5, <1>6 DEF ChildrenOf
  <2>2. n # N /\ n + 1 \in 0..N /\ n + 1 # 0 /\ (n + 1) - 1 = n
    BY <1>1, <1>5, <2>1
  <2>3. level[n + 1] = ChildrenOf(level[n])
    BY <1>4, <2>2
  <2>4. c \in level[n + 1]
    BY <2>1, <2>3 DEF ChildrenOf
  <2> QED
    BY <1>5, <2>2, <2>4
<1> QED
  BY <1>6

------------------------------------------------------------------------------
(***************************************************************************)
(* Jobs.  What a seed holds for mapped is mapped; a restore has done what  *)
(* the document says for the roles behind it; both but for the roles that  *)
(* others wrote for.                                                       *)
(***************************************************************************)
Restoring == {"find", "clear", "put", "read", "extend"}
HasWhatIsMapped(J) ==
    J.pc \in {"scan", "fill", "extend"} =>
        \A p \in J.have : p[1] \notin J.touched => p \in menuMaps
DoneBehind(J) ==
    J.pc \in Restoring =>
        \A r \in J.listed \ (J.touched \cup J.todo) :
            \/ J.pc # "find" /\ r = J.role
            \/ /\ J.want[r] \subseteq MenusOf(r)
               /\ J.op = "replace" => MenusOf(r) \subseteq J.want[r]
JobSound(J) ==
    /\ HasWhatIsMapped(J) /\ DoneBehind(J)
    /\ J.pc \in {"scan", "fill"} => J.op = "seed"
    /\ J.pc \in Restoring \ {"find"} => J.role \in MenuRoles
    /\ J.pc \in {"read", "extend"} => J.op # "replace"
    /\ J.pc = "put" /\ J.role \notin J.touched => MenusOf(J.role) = {}
JobsSound == \A j \in MenuJobs : JobSound(job[j])
MenuInv == MenuTypeOK /\ JobsSound /\ DeletionTakesSubtree

LEMMA NoJobIsSound == NoJob \in JobType /\ JobSound(NoJob) /\ NoJob.pc = "idle"
  BY DEF NoJob, JobType, NoMenus, JobSound, HasWhatIsMapped, DoneBehind, Restoring

\* A job somebody writes beside, for other roles than those it counts on.
LEMMA TouchedStaysSound ==
  ASSUME MenuInv, NEW j \in MenuJobs, NEW roles \in SUBSET MenuRoles,
         job'[j] = [job[j] EXCEPT !.touched = @ \cup roles],
         \A p \in Pairs : p[1] \notin roles => (p \in menuMaps' <=> p \in menuMaps)
  PROVE  job'[j] \in JobType /\ JobSound(job[j])'
<1> DEFINE J == job[j]
           K == job'[j]
<1>0. J \in JobType /\ JobSound(J) /\ menuMaps \subseteq Pairs
  BY DEF MenuInv, MenuTypeOK, JobsSound
<1>1. /\ K \in JobType /\ K.touched = J.touched \cup roles
      /\ K.pc = J.pc /\ K.have = J.have /\ K.listed = J.listed /\ K.todo = J.todo
      /\ K.role = J.role /\ K.want = J.want /\ K.op = J.op
  BY <1>0 DEF JobType
<1>2. J.have \subseteq Pairs /\ J.listed \subseteq MenuRoles
  BY <1>0 DEF JobType
<1>3. \A r \in MenuRoles \ roles : {m \in MenuIds : <<r, m>> \in menuMaps'} = MenusOf(r)
  BY DEF MenusOf, Pairs
<1>4. HasWhatIsMapped(J)'
  BY <1>0, <1>1, <1>2 DEF JobSound, HasWhatIsMapped
<1>5. DoneBehind(J)'
  BY <1>0, <1>1, <1>2, <1>3 DEF JobSound, DoneBehind, MenusOf
<1>6. (J.pc = "put" /\ J.role \notin J.touched => MenusOf(J.role) = {})'
  BY <1>0, <1>1, <1>3 DEF JobSound, Restoring, MenusOf
<1> QED
  BY <1>0, <1>1, <1>4, <1>5, <1>6 DEF JobSound

------------------------------------------------------------------------------
(***************************************************************************)
(* The tree of the menus.                                                  *)
(***************************************************************************)
TreeTyped ==
    /\ menuRows \subseteq MenuIds /\ looseMenus \subseteq MenuIds
    /\ menuParent \in [MenuIds -> MenuIds \cup {"none"}]
TreeKept == TreeTyped' /\ DeletionTakesSubtree'

LEMMA WriteKeepsTree ==
  ASSUME MenuInv, NEW written \in SUBSET MenuIds, NEW parents,
         \A m \in written : parents[m] \in MenuIds \cup {"none"}, Write(written, parents)
  PROVE  TreeKept
<1>1. TreeTyped /\ DeletionTakesSubtree
  BY DEF MenuInv, MenuTypeOK, TreeTyped
<1>2. TreeTyped'
  BY <1>1 DEF Write, TreeTyped
<1>3. ASSUME NEW m \in menuRows', m \notin looseMenus'
      PROVE  menuParent'[m] \in menuRows' \cup {"none"}
  <2>1. m \in MenuIds
    BY <1>2, <1>3 DEF TreeTyped
  <2>2. CASE m \in written
    BY <1>3, <2>1, <2>2 DEF Write
  <2>3. CASE m \notin written
    BY <1>1, <1>3, <2>1, <2>3 DEF Write, DeletionTakesSubtree
  <2> QED
    BY <2>2, <2>3
<1> QED
  BY <1>2, <1>3 DEF DeletionTakesSubtree, TreeKept

LEMMA RemoveKeepsTree ==
  ASSUME MenuInv, NEW gone, ChildrenOf(gone) \subseteq gone, Remove(gone)
  PROVE  TreeKept
<1>1. TreeTyped /\ DeletionTakesSubtree
  BY DEF MenuInv, MenuTypeOK, TreeTyped
<1>2. TreeTyped'
  BY <1>1 DEF Remove, TreeTyped
<1>3. ASSUME NEW m \in menuRows', m \notin looseMenus'
      PROVE  menuParent'[m] \in menuRows' \cup {"none"}
  <2>1. m \in menuRows /\ m \notin gone /\ m \notin looseMenus /\ m \in MenuIds
    BY <1>1, <1>3 DEF Remove, TreeTyped
  <2>2. menuParent'[m] = menuParent[m] /\ menuParent[m] \in menuRows \cup {"none"}
    BY <1>1, <2>1 DEF Remove, DeletionTakesSubtree
  <2>3. menuParent[m] \notin gone
    BY <2>1 DEF ChildrenOf
  <2> QED
    BY <2>2, <2>3 DEF Remove
<1> QED
  BY <1>2, <1>3 DEF DeletionTakesSubtree, TreeKept

LEMMA TreeStays ==
  ASSUME MenuInv, UNCHANGED menuTree
  PROVE  TreeKept /\ menuPerms' \subseteq MenuIds
  BY DEF MenuInv, MenuTypeOK, TreeKept, TreeTyped, menuTree, DeletionTakesSubtree

(***************************************************************************)
(* What a step does to the jobs: nothing but the notes of others' writing, *)
(* and to one of them its own step.                                        *)
(***************************************************************************)
LEMMA JobsAreTouched ==
  ASSUME MenuInv, NEW roles \in SUBSET MenuRoles,
         job' = [j \in MenuJobs |-> [job[j] EXCEPT !.touched = @ \cup roles]],
         \A p \in Pairs : p[1] \notin roles => (p \in menuMaps' <=> p \in menuMaps)
  PROVE  job' \in [MenuJobs -> JobType] /\ JobsSound'
<1>1. ASSUME NEW j \in MenuJobs PROVE job'[j] \in JobType /\ JobSound(job[j])'
  BY TouchedStaysSound
<1> QED
  BY <1>1 DEF JobsSound

LEMMA OneJobMoves ==
  ASSUME MenuInv, NEW j \in MenuJobs, NEW new \in JobType, NEW roles \in SUBSET MenuRoles,
         job' = [Touch({j}, roles) EXCEPT ![j] = new],
         \A p \in Pairs : p[1] \notin roles => (p \in menuMaps' <=> p \in menuMaps),
         JobSound(job[j])'
  PROVE  job' \in [MenuJobs -> JobType] /\ JobsSound'
<1>1. ASSUME NEW i \in MenuJobs, i # j PROVE job'[i] \in JobType /\ JobSound(job[i])'
  <2>1. job'[i] = [job[i] EXCEPT !.touched = @ \cup roles]
    BY <1>1 DEF Touch
  <2> QED
    BY <2>1, TouchedStaysSound
<1>2. job'[j] = new /\ DOMAIN job' = MenuJobs /\ job' = [i \in MenuJobs |-> job'[i]]
  BY DEF Touch
<1> QED
  BY <1>1, <1>2 DEF JobsSound

\* A job's step that writes no mapping.
LEMMA JobSteps ==
  ASSUME MenuInv, NEW j \in MenuJobs, NEW new \in JobType, Step(j, new),
         UNCHANGED <<menuTree, menuMaps, roleRows>>,
         backup' \in [want : [MenuRoles -> SUBSET MenuIds], listed : SUBSET MenuRoles],
         JobSound(job[j])'
  PROVE  MenuInv'
<1>1. job' \in [MenuJobs -> JobType] /\ JobsSound'
  BY OneJobMoves DEF Step
<1> QED
  BY <1>1, TreeStays DEF MenuInv, MenuTypeOK, TreeKept, TreeTyped

LEMMA JobWrites ==
  ASSUME MenuInv, NEW j \in MenuJobs, NEW new \in JobType, NEW r \in MenuRoles,
         NEW maps \in SUBSET Pairs, Mapped(j, r, maps, new),
         \A p \in Pairs : p[1] # r => (p \in maps <=> p \in menuMaps),
         JobSound(job[j])'
  PROVE  MenuInv'
<1> DEFINE roles == {r}
<1>0. /\ roles \in SUBSET MenuRoles /\ menuMaps' = maps
      /\ job' = [Touch({j}, roles) EXCEPT ![j] = new]
      /\ \A p \in Pairs : p[1] \notin roles => (p \in menuMaps' <=> p \in menuMaps)
  BY DEF Mapped
<1> HIDE DEF roles
<1>1. job' \in [MenuJobs -> JobType] /\ JobsSound'
  BY <1>0, OneJobMoves
<1> QED
  BY <1>1, TreeStays DEF MenuInv, MenuTypeOK, TreeKept, TreeTyped, Mapped

LEMMA MenuInitially == MenuInit => MenuInv
<1> SUFFICES ASSUME MenuInit PROVE MenuInv
  OBVIOUS
<1>1. job \in [MenuJobs -> JobType] /\ JobsSound
  BY NoJobIsSound DEF MenuInit, JobsSound
<1>2. MenuTypeOK
  BY <1>1, MenuAssumption DEF MenuInit, MenuTypeOK, Pairs, NoMenus
<1>3. DeletionTakesSubtree
  BY MenuAssumption DEF MenuInit, DeletionTakesSubtree
<1> QED
  BY <1>1, <1>2, <1>3 DEF MenuInv

(***************************************************************************)
(* Single menus and mappings.                                              *)
(***************************************************************************)
LEMMA WritingKeepsMenus ==
  ASSUME MenuInv, WriteStep
  PROVE  MenuInv'
<1> USE DEF MenuInv, MenuTypeOK
<1>1. ASSUME NEW m \in MenuIds, NEW p \in MenuIds \cup {"none"}, NEW roles \in SUBSET MenuRoles,
             CreateMenu(m, p, roles)
      PROVE  MenuInv'
  <2> DEFINE all == {MenuAdmin} \cup roles
  <2>1. all \in SUBSET MenuRoles
    BY MenuAssumption
  <2>2. /\ job' = [j \in MenuJobs |-> [job[j] EXCEPT !.touched = @ \cup all]]
        /\ menuMaps' = menuMaps \cup (all \X {m}) /\ UNCHANGED <<menuPerms, roleRows, backup>>
    BY <1>1 DEF CreateMenu
  <2>3. /\ \A q \in Pairs : q[1] \notin all => (q \in menuMaps' <=> q \in menuMaps)
        /\ menuMaps' \subseteq Pairs
    BY <2>1, <2>2 DEF Pairs
  <2>4. TreeKept
    <3>1. {m} \in SUBSET MenuIds /\ Write({m}, [n \in {m} |-> p])
          /\ \A n \in {m} : [k \in {m} |-> p][n] \in MenuIds \cup {"none"}
      BY <1>1 DEF CreateMenu
    <3> HIDE DEF MenuInv, MenuTypeOK
    <3> QED
      BY <3>1, WriteKeepsTree
  <2>5. job' \in [MenuJobs -> JobType] /\ JobsSound'
    BY <2>1, <2>2, <2>3, JobsAreTouched
  <2> QED
    BY <2>2, <2>3, <2>4, <2>5 DEF TreeKept, TreeTyped
<1>2. ASSUME NEW written \in SUBSET MenuIds, NEW parents,
             \A m \in written : parents[m] \in MenuIds \cup {"none"}, Write(written, parents),
             menuPerms' \subseteq MenuIds, UNCHANGED <<menuMaps, roleRows, backup, job>>
      PROVE  MenuInv'
  <2>1. TreeKept
    BY <1>2, WriteKeepsTree
  <2>2. JobsSound'
    BY <1>2 DEF JobsSound, JobSound, HasWhatIsMapped, DoneBehind, MenusOf
  <2> QED
    BY <1>2, <2>1, <2>2 DEF TreeKept, TreeTyped
<1>3. ASSUME NEW m \in MenuIds, NEW p \in MenuIds, UpdateMenu(m, p) PROVE MenuInv'
  <2>1. {m} \in SUBSET MenuIds /\ Write({m}, [n \in {m} |-> p])
        /\ \A n \in {m} : [k \in {m} |-> p][n] \in MenuIds \cup {"none"}
        /\ menuPerms' \subseteq MenuIds /\ UNCHANGED <<menuMaps, roleRows, backup, job>>
    BY <1>3 DEF UpdateMenu
  <2> QED
    BY <2>1, <1>2
<1>4. ASSUME NEW written \in SUBSET DOMAIN SeedParent, UpsertMenus(written) PROVE MenuInv'
  <2>1. written \in SUBSET MenuIds /\ \A m \in written : SeedParent[m] \in MenuIds \cup {"none"}
    BY MenuAssumption
  <2>2. /\ Write(written, SeedParent) /\ UNCHANGED <<menuMaps, roleRows, backup, job>>
        /\ menuPerms' \subseteq MenuIds
    BY <1>4, <2>1 DEF UpsertMenus
  <2> QED
    BY <2>1, <2>2, <1>2
<1>5. ASSUME NEW m \in MenuIds, DeleteMenuWithChildren(m) PROVE MenuInv'
  <2>1. TreeKept
    BY <1>5, CollectedIsClosed, RemoveKeepsTree DEF DeleteMenuWithChildren
  <2>2. UNCHANGED <<menuPerms, menuMaps, roleRows, backup, job>>
    BY <1>5 DEF DeleteMenuWithChildren
  <2>3. JobsSound'
    BY <2>2 DEF JobsSound, JobSound, HasWhatIsMapped, DoneBehind, MenusOf
  <2> QED
    BY <2>1, <2>2, <2>3 DEF TreeKept, TreeTyped
<1>6. ASSUME NEW r \in MenuRoles, job' = Touch({}, {r}), menuMaps' \subseteq Pairs,
             \A p \in Pairs : p[1] # r => (p \in menuMaps' <=> p \in menuMaps),
             roleRows' \subseteq MenuRoles, UNCHANGED <<menuTree, backup>>
      PROVE  MenuInv'
  <2> DEFINE roles == {r}
  <2>1. /\ roles \in SUBSET MenuRoles
        /\ job' = [j \in MenuJobs |-> [job[j] EXCEPT !.touched = @ \cup roles]]
        /\ \A p \in Pairs : p[1] \notin roles => (p \in menuMaps' <=> p \in menuMaps)
    BY <1>6 DEF Touch
  <2>2. job' \in [MenuJobs -> JobType] /\ JobsSound'
    <3> HIDE DEF roles, MenuInv, MenuTypeOK
    <3> QED
      BY <2>1, JobsAreTouched
  <2> QED
    BY <1>6, <2>2, TreeStays DEF TreeKept, TreeTyped
<1>7. ASSUME NEW r \in MenuRoles, NEW ms \in SUBSET MenuIds, CreateMenusRolesMapping(r, ms)
      PROVE  MenuInv'
  BY <1>6, <1>7 DEF CreateMenusRolesMapping, Pairs
<1>8. ASSUME NEW r \in MenuRoles, NEW m \in MenuIds, DeleteRoleMenuMappingByRoleAndMenu(r, m)
      PROVE  MenuInv'
  BY <1>6, <1>8 DEF DeleteRoleMenuMappingByRoleAndMenu, Pairs
<1>9. ASSUME NEW r \in MenuRoles, RoleGoes(r) PROVE MenuInv'
  BY <1>6, <1>9 DEF RoleGoes, Pairs
<1> QED
  <2>1. CASE LoadAndRegisterMenusFromYAML \/ RegisterMenusFromContent
    BY <2>1, <1>4 DEF LoadAndRegisterMenusFromYAML, RegisterMenusFromContent
  <2> HIDE DEF MenuInv, MenuTypeOK
  <2> QED
    BY <1>1, <1>3, <1>5, <1>7, <1>8, <1>9, <2>1 DEF WriteStep

(***************************************************************************)
(* The steps of a job.                                                     *)
(***************************************************************************)
LEMMA JobIsSound ==
  ASSUME MenuInv, NEW j \in MenuJobs
  PROVE  job[j] \in JobType /\ JobSound(job[j]) /\ menuMaps \subseteq Pairs
  BY DEF MenuInv, MenuTypeOK, JobsSound

LEMMA StepSetsJob ==
  ASSUME NEW j \in MenuJobs, NEW new, NEW r, job' = [Touch({j}, r) EXCEPT ![j] = new]
  PROVE  job'[j] = new
  BY DEF Touch

LEMMA JobEnds ==
  ASSUME MenuInv, NEW j \in MenuJobs, Ends(j),
         UNCHANGED <<menuTree, menuMaps, roleRows>>,
         backup' \in [want : [MenuRoles -> SUBSET MenuIds], listed : SUBSET MenuRoles]
  PROVE  MenuInv'
<1>1. NoJob \in JobType /\ Step(j, NoJob) /\ job'[j] = NoJob
  BY NoJobIsSound, StepSetsJob DEF Ends, Step
<1>2. JobSound(job[j])'
  BY <1>1 DEF NoJob, JobSound, HasWhatIsMapped, DoneBehind, Restoring
<1> QED
  BY <1>1, <1>2, JobSteps

LEMMA BackupKeepsMenus ==
  ASSUME MenuInv, NEW j \in MenuJobs,
         ExportRole(j) \/ \E asked \in SUBSET MenuRoles : BackupRolePermissions(j, asked)
  PROVE  MenuInv'
<1> DEFINE Document == [want : [MenuRoles -> SUBSET MenuIds], listed : SUBSET MenuRoles]
<1>0. backup \in Document /\ job[j] \in JobType
  BY JobIsSound DEF MenuInv, MenuTypeOK
<1>1. ASSUME NEW asked \in SUBSET MenuRoles, BackupRolePermissions(j, asked) PROVE MenuInv'
  <2> DEFINE new == [NoJob EXCEPT !.op = "backup", !.pc = "export", !.todo = asked,
                                  !.listed = asked]
  <2>1. new \in JobType /\ new.pc = "export"
    BY DEF NoJob, NoMenus, JobType
  <2>2. Step(j, new) /\ UNCHANGED <<menuTree, menuMaps, roleRows, backup>>
    BY <1>1 DEF BackupRolePermissions
  <2> HIDE DEF new
  <2>3. job'[j] = new
    BY <2>2, StepSetsJob DEF Step
  <2>4. JobSound(job[j])'
    BY <2>1, <2>3 DEF JobSound, HasWhatIsMapped, DoneBehind, Restoring
  <2> QED
    BY <1>0, <2>1, <2>2, <2>4, JobSteps
<1>2. ASSUME NEW r \in job[j].todo, JobAt(j, "export"), UNCHANGED <<menuTree, menuMaps, roleRows>>,
             Step(j, [job[j] EXCEPT !.todo = @ \ {r},
                                    !.want = [job[j].want EXCEPT ![r] = MenusOf(r)]]),
             UNCHANGED backup
      PROVE  MenuInv'
  <2> DEFINE new == [job[j] EXCEPT !.todo = @ \ {r},
                                   !.want = [job[j].want EXCEPT ![r] = MenusOf(r)]]
  <2>1. new \in JobType /\ new.pc = "export"
    BY <1>0, <1>2 DEF JobType, JobAt, MenusOf
  <2>2. Step(j, new)
    BY <1>2
  <2> HIDE DEF new
  <2>3. job'[j] = new
    BY <2>2, StepSetsJob DEF Step
  <2>4. JobSound(job[j])'
    BY <2>1, <2>3 DEF JobSound, HasWhatIsMapped, DoneBehind, Restoring
  <2> QED
    BY <1>0, <1>2, <2>1, <2>2, <2>4, JobSteps
<1>3. ASSUME NEW r \in job[j].todo, UNCHANGED <<menuTree, menuMaps, roleRows>>, Ends(j),
             backup' = [want |-> [job[j].want EXCEPT ![r] = MenusOf(r)],
                        listed |-> job[j].listed]
      PROVE  MenuInv'
  <2>1. backup' \in Document
    BY <1>0, <1>3 DEF JobType, MenusOf
  <2> QED
    BY <1>3, <2>1, JobEnds
<1> QED
  BY <1>1, <1>2, <1>3 DEF ExportRole

LEMMA SeedKeepsMenus ==
  ASSUME MenuInv, NEW j \in MenuJobs,
         \/ ApplyRoleMenuPermissionSeed(j) \/ ScanRole(j) \/ FillMapping(j)
  PROVE  MenuInv'
<1> DEFINE Document == [want : [MenuRoles -> SUBSET MenuIds], listed : SUBSET MenuRoles]
<1>0. backup \in Document /\ job[j] \in JobType /\ JobSound(job[j]) /\ menuMaps \subseteq Pairs
  BY JobIsSound DEF MenuInv, MenuTypeOK
<1>1. CASE ApplyRoleMenuPermissionSeed(j)
  <2> DEFINE new == [NoJob EXCEPT !.op = "seed", !.pc = "scan", !.todo = DOMAIN SeedMapped,
                                  !.want = Seeded, !.listed = DOMAIN SeedMapped]
  <2>1. new \in JobType /\ new.pc = "scan" /\ new.have = {} /\ new.op = "seed"
    BY MenuAssumption DEF NoJob, NoMenus, Seeded, JobType
  <2>2. Step(j, new) /\ UNCHANGED <<menuTree, menuMaps, roleRows, backup>>
    BY <1>1 DEF ApplyRoleMenuPermissionSeed
  <2> HIDE DEF new
  <2>3. job'[j] = new
    BY <2>2, StepSetsJob DEF Step
  <2>4. JobSound(job[j])'
    BY <2>1, <2>3 DEF JobSound, HasWhatIsMapped, DoneBehind, Restoring
  <2> QED
    BY <1>0, <2>1, <2>2, <2>4, JobSteps
<1>2. ASSUME NEW r \in job[j].todo, JobAt(j, "scan"),
             Step(j, [job[j] EXCEPT !.have = @ \cup ({r} \X MenusOf(r)), !.todo = @ \ {r},
                                    !.pc = IF job[j].todo = {r} THEN "fill" ELSE "scan"]),
             UNCHANGED <<menuTree, menuMaps, roleRows, backup>>
      PROVE  MenuInv'
  <2> DEFINE new == [job[j] EXCEPT !.have = @ \cup ({r} \X MenusOf(r)), !.todo = @ \ {r},
                                   !.pc = IF job[j].todo = {r} THEN "fill" ELSE "scan"]
  <2>1. /\ new \in JobType /\ new.pc \in {"scan", "fill"} /\ new.op = "seed"
        /\ new.have = job[j].have \cup ({r} \X MenusOf(r)) /\ new.touched = job[j].touched
    <3>1. {r} \X MenusOf(r) \in SUBSET Pairs
      BY <1>0, <1>2 DEF JobType, MenusOf, Pairs
    <3>2. job[j].op = "seed"
      BY <1>0, <1>2 DEF JobSound, JobAt
    <3> QED
      BY <1>0, <3>1, <3>2 DEF JobType
  <2>2. Step(j, new) /\ menuMaps' = menuMaps
    BY <1>2
  <2> HIDE DEF new
  <2>3. job'[j] = new
    BY <2>2, StepSetsJob DEF Step
  <2>4. \A p \in new.have : p[1] \notin new.touched => p \in menuMaps
    BY <1>0, <1>2, <2>1 DEF JobSound, HasWhatIsMapped, JobAt, MenusOf
  <2>5. JobSound(job[j])'
    BY <2>1, <2>2, <2>3, <2>4 DEF JobSound, HasWhatIsMapped, DoneBehind, Restoring
  <2> QED
    BY <1>0, <1>2, <2>1, <2>2, <2>5, JobSteps
<1>3. ASSUME NEW p \in Missing(j), JobAt(j, "fill"),
             Mapped(j, p[1], menuMaps \cup {p}, [job[j] EXCEPT !.have = @ \cup {p}])
      PROVE  MenuInv'
  <2> DEFINE new == [job[j] EXCEPT !.have = @ \cup {p}]
             maps == menuMaps \cup {p}
  <2>1. p \in Pairs /\ p[1] \in MenuRoles
    BY <1>3 DEF Missing, PairsOf, Pairs
  <2>2. /\ new \in JobType /\ new.pc = "fill" /\ new.op = "seed"
        /\ new.have = job[j].have \cup {p} /\ new.touched = job[j].touched
    BY <1>0, <1>3, <2>1 DEF JobType, JobSound, JobAt
  <2>3. /\ maps \in SUBSET Pairs /\ Mapped(j, p[1], maps, new)
        /\ \A q \in Pairs : q[1] # p[1] => (q \in maps <=> q \in menuMaps)
    BY <1>0, <1>3, <2>1
  <2>4. menuMaps' = menuMaps \cup {p}
    BY <1>3 DEF Mapped
  <2> HIDE DEF new
  <2>5. job'[j] = new
    BY <2>3, StepSetsJob DEF Mapped
  <2>6. JobSound(job[j])'
    BY <1>0, <1>3, <2>2, <2>4, <2>5
       DEF JobSound, HasWhatIsMapped, DoneBehind, Restoring, JobAt
  <2> HIDE DEF maps
  <2> QED
    BY <2>1, <2>2, <2>3, <2>6, JobWrites
<1> QED
  BY <1>1, <1>2, <1>3 DEF ScanRole, FillMapping

LEMMA RestoreReadsKeepMenus ==
  ASSUME MenuInv, NEW j \in MenuJobs,
         \/ \E mode \in {"add", "replace"} : RestoreRolePermissions(j, mode)
         \/ FindRole(j) \/ ReadRole(j)
  PROVE  MenuInv'
<1> DEFINE Document == [want : [MenuRoles -> SUBSET MenuIds], listed : SUBSET MenuRoles]
<1>0. backup \in Document /\ job[j] \in JobType /\ JobSound(job[j]) /\ menuMaps \subseteq Pairs
  BY JobIsSound DEF MenuInv, MenuTypeOK
<1>1. ASSUME NEW mode \in {"add", "replace"}, RestoreRolePermissions(j, mode) PROVE MenuInv'
  <2> DEFINE new == [NoJob EXCEPT !.op = mode, !.pc = "find", !.todo = backup.listed,
                                  !.want = backup.want, !.listed = backup.listed]
  <2>1. new \in JobType /\ new.pc = "find" /\ new.listed = new.todo
    BY <1>0 DEF NoJob, NoMenus, JobType
  <2>2. Step(j, new) /\ UNCHANGED <<menuTree, menuMaps, roleRows, backup>>
    BY <1>1 DEF RestoreRolePermissions
  <2> HIDE DEF new
  <2>3. job'[j] = new
    BY <2>2, StepSetsJob DEF Step
  <2>4. JobSound(job[j])'
    BY <2>1, <2>3 DEF JobSound, HasWhatIsMapped, DoneBehind, Restoring
  <2> QED
    BY <1>0, <2>1, <2>2, <2>4, JobSteps
<1>2. ASSUME NEW r \in job[j].todo, JobAt(j, "find"),
             Step(j, [job[j] EXCEPT !.role = r, !.todo = @ \ {r},
                                    !.pc = IF job[j].op = "replace" THEN "clear" ELSE "read"]),
             UNCHANGED <<menuTree, menuMaps, roleRows, backup>>
      PROVE  MenuInv'
  <2> DEFINE new == [job[j] EXCEPT !.role = r, !.todo = @ \ {r},
                                   !.pc = IF job[j].op = "replace" THEN "clear" ELSE "read"]
  <2>1. /\ new \in JobType /\ new.pc = (IF job[j].op = "replace" THEN "clear" ELSE "read")
        /\ new.role = r /\ new.todo = job[j].todo \ {r} /\ r \in MenuRoles
        /\ new.listed = job[j].listed /\ new.touched = job[j].touched
        /\ new.want = job[j].want /\ new.op = job[j].op
    BY <1>0, <1>2 DEF JobType
  <2>2. Step(j, new) /\ UNCHANGED <<menuTree, menuMaps, roleRows, backup>>
    BY <1>2
  <2> HIDE DEF new
  <2>3. job'[j] = new
    BY <2>2, StepSetsJob DEF Step
  <2>4. DoneBehind(job[j])'
    BY <1>0, <1>2, <2>1, <2>2, <2>3 DEF JobSound, DoneBehind, Restoring, JobAt, MenusOf
  <2>5. JobSound(job[j])'
    BY <2>1, <2>3, <2>4 DEF JobSound, HasWhatIsMapped, Restoring
  <2> QED
    BY <1>0, <2>1, <2>2, <2>5, JobSteps
<1>3. CASE ReadRole(j)
  <2> DEFINE new == [job[j] EXCEPT !.have = {job[j].role} \X MenusOf(job[j].role),
                                   !.pc = "extend"]
  <2>0. job[j].pc = "read" /\ job[j].role \in MenuRoles /\ job[j].op # "replace"
    BY <1>0, <1>3 DEF ReadRole, JobAt, JobSound, Restoring
  <2>1. /\ new \in JobType /\ new.pc = "extend"
        /\ new.have = {job[j].role} \X MenusOf(job[j].role)
        /\ new.role = job[j].role /\ new.todo = job[j].todo
        /\ new.listed = job[j].listed /\ new.touched = job[j].touched
        /\ new.want = job[j].want /\ new.op = job[j].op
    <3>1. {job[j].role} \X MenusOf(job[j].role) \in SUBSET Pairs
      BY <2>0 DEF MenusOf, Pairs
    <3> QED
      BY <1>0, <3>1 DEF JobType
  <2>2. Step(j, new) /\ UNCHANGED <<menuTree, menuMaps, roleRows, backup>>
    BY <1>3 DEF ReadRole
  <2> HIDE DEF new
  <2>3. job'[j] = new
    BY <2>2, StepSetsJob DEF Step
  <2>4. DoneBehind(job[j])'
    BY <1>0, <2>0, <2>1, <2>2, <2>3 DEF JobSound, DoneBehind, Restoring, MenusOf
  <2>5. HasWhatIsMapped(job[j])'
    <3>1. \A p \in new.have : p \in menuMaps
      BY <2>1 DEF MenusOf
    <3> QED
      BY <2>2, <2>3, <3>1 DEF HasWhatIsMapped
  <2>6. JobSound(job[j])'
    BY <2>0, <2>1, <2>3, <2>4, <2>5 DEF JobSound, Restoring
  <2> QED
    BY <1>0, <2>1, <2>2, <2>6, JobSteps
<1> QED
  BY <1>1, <1>2, <1>3 DEF FindRole

LEMMA RestoreWritesKeepMenus ==
  ASSUME MenuInv, NEW j \in MenuJobs,
         ClearRole(j) \/ ReplaceRoleMenuMappings(j) \/ AddMissingRoleMenuMappings(j)
  PROVE  MenuInv'
<1> DEFINE Document == [want : [MenuRoles -> SUBSET MenuIds], listed : SUBSET MenuRoles]
<1>0. backup \in Document /\ job[j] \in JobType /\ JobSound(job[j]) /\ menuMaps \subseteq Pairs
  BY JobIsSound DEF MenuInv, MenuTypeOK
<1>1. job[j].pc \in {"clear", "put", "extend"} /\ job[j].role \in MenuRoles
  BY <1>0 DEF ClearRole, ReplaceRoleMenuMappings, AddMissingRoleMenuMappings, JobAt, JobSound,
              Restoring
<1>r. PICK role \in MenuRoles : role = job[j].role
  BY <1>1
<1>2. job[j].listed \subseteq MenuRoles /\ job[j].want \in [MenuRoles -> SUBSET MenuIds]
  BY <1>0 DEF JobType
<1>3. ASSUME \A p \in Pairs : p[1] # role => (p \in menuMaps' <=> p \in menuMaps)
      PROVE  \A r \in job[j].listed \ (job[j].touched \cup job[j].todo) :
                r # role => /\ job[j].want[r] \subseteq MenusOf(r)'
                            /\ job[j].op = "replace" => MenusOf(r)' \subseteq job[j].want[r]
  <2> SUFFICES ASSUME NEW r \in job[j].listed \ (job[j].touched \cup job[j].todo), r # role
               PROVE  /\ job[j].want[r] \subseteq MenusOf(r)'
                      /\ job[j].op = "replace" => MenusOf(r)' \subseteq job[j].want[r]
    OBVIOUS
  <2>1. MenusOf(r)' = MenusOf(r)
    BY <1>2, <1>3 DEF MenusOf, Pairs
  <2>2. /\ job[j].want[r] \subseteq MenusOf(r)
        /\ job[j].op = "replace" => MenusOf(r) \subseteq job[j].want[r]
    BY <1>0, <1>1, <1>r DEF JobSound, DoneBehind, Restoring
  <2> QED
    BY <2>1, <2>2
<1>4. CASE ClearRole(j)
  <2> DEFINE new == [job[j] EXCEPT !.pc = "put"]
             maps == {p \in menuMaps : p[1] # role}
  <2>1. /\ new \in JobType /\ new.pc = "put" /\ new.role = role /\ new.todo = job[j].todo
        /\ new.listed = job[j].listed /\ new.touched = job[j].touched
        /\ new.want = job[j].want /\ new.op = job[j].op
    BY <1>0, <1>r DEF JobType
  <2>2. Mapped(j, role, maps, new) /\ menuMaps' = maps
    BY <1>4, <1>r DEF ClearRole, Mapped
  <2>3. maps \in SUBSET Pairs /\ \A p \in Pairs : p[1] # role => (p \in maps <=> p \in menuMaps)
    BY <1>0
  <2>4. MenusOf(role)' = {}
    BY <2>2 DEF MenusOf
  <2> HIDE DEF new, maps
  <2>5. job'[j] = new
    BY <2>2, StepSetsJob DEF Mapped
  <2>6. DoneBehind(job[j])'
    BY <1>3, <2>1, <2>2, <2>3, <2>5 DEF DoneBehind
  <2>7. JobSound(job[j])'
    BY <1>r, <2>1, <2>4, <2>5, <2>6 DEF JobSound, HasWhatIsMapped, Restoring
  <2> QED
    BY <1>r, <2>1, <2>2, <2>3, <2>7, JobWrites
<1>5. CASE ReplaceRoleMenuMappings(j)
  <2> DEFINE new == [job[j] EXCEPT !.pc = "find"]
             maps == menuMaps \cup ({role} \X job[j].want[role])
  <2>0. job[j].pc = "put"
    BY <1>5 DEF ReplaceRoleMenuMappings, JobAt
  <2>1. /\ new \in JobType /\ new.pc = "find" /\ new.role = role /\ new.todo = job[j].todo
        /\ new.listed = job[j].listed /\ new.touched = job[j].touched
        /\ new.want = job[j].want /\ new.op = job[j].op
    BY <1>0, <1>r DEF JobType
  <2>2. Mapped(j, role, maps, new) /\ menuMaps' = maps
    BY <1>5, <1>r DEF ReplaceRoleMenuMappings, Mapped
  <2>3. maps \in SUBSET Pairs /\ \A p \in Pairs : p[1] # role => (p \in maps <=> p \in menuMaps)
    BY <1>0, <1>1, <1>2 DEF Pairs
  <2>4. role \notin job[j].touched => MenusOf(role)' = job[j].want[role]
    <3>1. role \notin job[j].touched => MenusOf(role) = {}
      BY <1>0, <1>r, <2>0 DEF JobSound
    <3> QED
      BY <1>1, <1>2, <2>2, <3>1 DEF MenusOf
  <2> HIDE DEF new, maps
  <2>5. job'[j] = new
    BY <2>2, StepSetsJob DEF Mapped
  <2>6. DoneBehind(job[j])'
    BY <1>3, <2>1, <2>2, <2>3, <2>4, <2>5 DEF DoneBehind
  <2>7. JobSound(job[j])'
    BY <2>1, <2>5, <2>6 DEF JobSound, HasWhatIsMapped, Restoring
  <2> QED
    BY <1>r, <2>1, <2>2, <2>3, <2>7, JobWrites
<1>6. ASSUME NEW p \in Missing(j), p[1] = role, JobAt(j, "extend"),
             Mapped(j, p[1], menuMaps \cup {p}, [job[j] EXCEPT !.have = @ \cup {p}])
      PROVE  MenuInv'
  <2> DEFINE new == [job[j] EXCEPT !.have = @ \cup {p}]
             maps == menuMaps \cup {p}
  <2>0. p \in Pairs /\ job[j].pc = "extend" /\ job[j].op # "replace"
    BY <1>0, <1>6 DEF Missing, PairsOf, JobAt, JobSound
  <2>1. /\ new \in JobType /\ new.pc = "extend" /\ new.role = role /\ new.todo = job[j].todo
        /\ new.have = job[j].have \cup {p}
        /\ new.listed = job[j].listed /\ new.touched = job[j].touched
        /\ new.want = job[j].want /\ new.op = job[j].op
    BY <1>0, <1>r, <2>0 DEF JobType
  <2>2. Mapped(j, role, maps, new) /\ menuMaps' = maps
    BY <1>6 DEF Mapped
  <2>3. maps \in SUBSET Pairs /\ \A q \in Pairs : q[1] # role => (q \in maps <=> q \in menuMaps)
    BY <1>0, <1>6, <2>0
  <2>4. \A q \in job[j].have \cup {p} : q[1] \notin job[j].touched => q \in maps
    BY <1>0, <2>0 DEF JobSound, HasWhatIsMapped
  <2> HIDE DEF new, maps
  <2>5. job'[j] = new
    BY <2>2, StepSetsJob DEF Mapped
  <2>6. DoneBehind(job[j])'
    BY <1>3, <2>1, <2>2, <2>3, <2>5 DEF DoneBehind
  <2>7. HasWhatIsMapped(job[j])'
    BY <2>1, <2>2, <2>4, <2>5 DEF HasWhatIsMapped
  <2>8. JobSound(job[j])'
    BY <1>r, <2>0, <2>1, <2>5, <2>6, <2>7 DEF JobSound, Restoring
  <2> QED
    BY <1>r, <2>1, <2>2, <2>3, <2>8, JobWrites
<1>7. ASSUME {p \in Missing(j) : p[1] = role} = {}, JobAt(j, "extend"),
             Step(j, [job[j] EXCEPT !.pc = "find"]),
             UNCHANGED <<menuTree, menuMaps, roleRows, backup>>
      PROVE  MenuInv'
  <2> DEFINE new == [job[j] EXCEPT !.pc = "find"]
  <2>0. job[j].pc = "extend" /\ job[j].op # "replace"
    BY <1>0, <1>7 DEF JobAt, JobSound
  <2>1. /\ new \in JobType /\ new.pc = "find" /\ new.todo = job[j].todo
        /\ new.listed = job[j].listed /\ new.touched = job[j].touched
        /\ new.want = job[j].want /\ new.op = job[j].op
    BY <1>0, <1>r DEF JobType
  <2>2. Step(j, new)
    BY <1>7
  <2>3. role \notin job[j].touched => job[j].want[role] \subseteq MenusOf(role)'
    <3>1. ASSUME NEW m \in job[j].want[role], role \notin job[j].touched
          PROVE  m \in MenusOf(role)'
      <4>1. m \in MenuIds /\ <<role, m>> \in PairsOf(job[j].want)
        BY <1>1, <1>2, <3>1 DEF PairsOf, Pairs
      <4>2. <<role, m>> \in job[j].have
        BY <1>7, <4>1 DEF Missing
      <4>3. <<role, m>> \in menuMaps
        BY <1>0, <2>0, <3>1, <4>2 DEF JobSound, HasWhatIsMapped
      <4> QED
        BY <1>7, <4>1, <4>3 DEF MenusOf
    <3> QED
      BY <3>1
  <2> HIDE DEF new
  <2>4. job'[j] = new
    BY <2>2, StepSetsJob DEF Step
  <2>5. DoneBehind(job[j])'
    BY <1>3, <1>7, <1>r, <2>0, <2>1, <2>3, <2>4 DEF DoneBehind
  <2>6. JobSound(job[j])'
    BY <2>1, <2>4, <2>5 DEF JobSound, HasWhatIsMapped, Restoring
  <2> QED
    BY <1>0, <1>7, <2>1, <2>2, <2>6, JobSteps
<1> QED
  BY <1>4, <1>5, <1>6, <1>7, <1>r DEF AddMissingRoleMenuMappings

(***************************************************************************)
(* The invariant and the theorems.                                         *)
(***************************************************************************)
LEMMA MenusAreKept == MenuInv /\ [MenuNext]_menuVars => MenuInv'
<1> SUFFICES ASSUME MenuInv, [MenuNext]_menuVars PROVE MenuInv'
  OBVIOUS
<1>0. backup \in [want : [MenuRoles -> SUBSET MenuIds], listed : SUBSET MenuRoles]
  BY DEF MenuInv, MenuTypeOK
<1>1. ASSUME NEW j \in MenuJobs, SeedEnds(j) \/ RestoreEnds(j) \/ JobStops(j) PROVE MenuInv'
  <2>1. Ends(j) /\ UNCHANGED <<menuTree, menuMaps, roleRows, backup>>
    BY <1>1 DEF SeedEnds, RestoreEnds, JobStops
  <2> QED
    BY <1>0, <2>1, JobEnds
<1>2. ASSUME NEW j \in MenuJobs, JobStep(j) PROVE MenuInv'
  BY <1>1, <1>2, BackupKeepsMenus, SeedKeepsMenus, RestoreReadsKeepMenus, RestoreWritesKeepMenus
     DEF JobStep
<1>3. CASE UNCHANGED menuVars
  <2>1. UNCHANGED <<menuTree, menuMaps, roleRows, backup, job>>
    BY <1>3 DEF menuVars, menuTree
  <2>2. JobsSound'
    BY <2>1 DEF MenuInv, JobsSound, JobSound, HasWhatIsMapped, DoneBehind, MenusOf
  <2> QED
    BY <2>1, <2>2, TreeStays DEF MenuInv, MenuTypeOK, TreeKept, TreeTyped
<1> QED
  BY <1>2, <1>3, WritingKeepsMenus DEF MenuNext

LEMMA MenuInvariant == MenuSpec => []MenuInv
  BY MenuInitially, MenusAreKept, PTL DEF MenuSpec

LEMMA SoundJobsRestore == MenuInv => RestoresWhatItSays
<1> SUFFICES ASSUME MenuInv, NEW j \in MenuJobs,
                    \/ JobAt(j, "fill") /\ Missing(j) = {}
                    \/ JobAt(j, "find") /\ job[j].todo = {},
                    NEW r \in job[j].listed \ job[j].touched
             PROVE  /\ job[j].want[r] \subseteq MenusOf(r)
                    /\ job[j].op = "replace" => MenusOf(r) = job[j].want[r]
  BY DEF RestoresWhatItSays, DoneAsWritten
<1>0. JobSound(job[j]) /\ r \in MenuRoles /\ job[j].want[r] \subseteq MenuIds
  BY JobIsSound DEF JobType
<1>1. CASE JobAt(j, "fill") /\ Missing(j) = {}
  <2>1. \A m \in job[j].want[r] : <<r, m>> \in job[j].have
    BY <1>0, <1>1 DEF Missing, PairsOf, Pairs
  <2>2. job[j].op # "replace"
    BY <1>0, <1>1 DEF JobSound, JobAt
  <2> QED
    BY <1>0, <1>1, <2>1, <2>2 DEF JobSound, HasWhatIsMapped, JobAt, MenusOf
<1>2. CASE JobAt(j, "find") /\ job[j].todo = {}
  <2>1. job[j].pc = "find" /\ r \in job[j].listed \ (job[j].touched \cup job[j].todo)
    BY <1>2 DEF JobAt
  <2>2. /\ job[j].want[r] \subseteq MenusOf(r)
        /\ job[j].op = "replace" => MenusOf(r) \subseteq job[j].want[r]
    BY <1>0, <2>1 DEF JobSound, DoneBehind, Restoring
  <2> QED
    BY <2>2
<1> QED
  BY <1>1, <1>2

\* The tables and the jobs keep their types.
THEOREM MenusKeepTypes == MenuSpec => []MenuTypeOK
<1>1. MenuInv => MenuTypeOK
  BY DEF MenuInv
<1> QED
  BY <1>1, MenuInvariant, PTL

\* However the tree was built: a menu whose parent is not there was written below
\* a parent that was not there, because a deletion takes all the query collects.
THEOREM MenusAreTakenWhole == MenuSpec => []DeletionTakesSubtree
<1>1. MenuInv => DeletionTakesSubtree
  BY DEF MenuInv
<1> QED
  BY <1>1, MenuInvariant, PTL

\* A seed or a restore that ends without an error has done what its document says
\* for every role nobody else wrote for meanwhile.
THEOREM RestoresAreComplete == MenuSpec => []RestoresWhatItSays
  BY MenuInvariant, SoundJobsRestore, PTL

------------------------------------------------------------------------------
(***************************************************************************)
(* The actions of a service and the stamp that tells of them, however many *)
(* files and imports overlap.                                              *)
(***************************************************************************)
ApiCallType ==
    [op : {"none", "file", "import", "activate", "assign"},
     pc : {"idle", "check", "replace", "commit", "raise", "insert"},
     doc : ApiDocs \cup {"none"}, seen : SUBSET ActionIds,
     version : ApiVersions \cup {"none"}, grant : (PermRoles \X Permissions) \cup {<<>>}]
\* Which step a request is at tells what it has by then.
ApiCarries ==
    \A c \in ApiCalls :
        /\ apiCall[c].pc \in {"check", "replace", "commit"} => apiCall[c].doc \in ApiDocs
        /\ apiCall[c].pc = "insert" => apiCall[c].grant \in PermRoles \X Permissions
        /\ apiCall[c].pc = "raise" => apiCall[c].version \in ApiVersions
\* The row of the stamp is locked up to the commit.
OneStampedCommit ==
    \A c, d \in ApiCalls :
        AtApi(c, "commit") /\ AtApi(d, "commit") /\ Stamped(c) /\ Stamped(d) => c = d
\* While nothing overlapped, who is about to commit has deleted all there is.
SeenIsAll ==
    loose # "overlapped" =>
        \A c \in ApiCalls : AtApi(c, "commit") => apiCall[c].seen = actions
ApiTables == ApiTypeOK /\ apiCall \in [ApiCalls -> ApiCallType] /\ ApiCarries
ApiInv == ApiTables /\ OneStampedCommit /\ SeenIsAll /\ OneActionPerName /\ StampTellsActions

LEMMA ApiInitially == ApiInit => ApiInv
<1> SUFFICES ASSUME ApiInit PROVE ApiInv
  OBVIOUS
<1> USE ApiAssumption DEF ApiInit, NoApiCall, AtApi
<1>1. apiCall \in [ApiCalls -> ApiCallType] /\ ApiCarries
  BY DEF ApiCallType, ApiCarries
<1>2. ApiTypeOK
  BY DEF ApiTypeOK, Stamps, ActionIds
<1>3. OneStampedCommit /\ SeenIsAll /\ OneActionPerName /\ StampTellsActions
  BY DEF OneStampedCommit, SeenIsAll, OneActionPerName, StampTellsActions
<1> QED
  BY <1>1, <1>2, <1>3 DEF ApiInv, ApiTables

(***************************************************************************)
(* A request that goes on, beside tables that stay as they are.            *)
(***************************************************************************)
LEMMA ApiCallMoves ==
  ASSUME ApiInv, NEW c \in ApiCalls, NEW changed \in ApiCallType, GoesOn(c, changed),
         changed.pc \in {"check", "replace", "commit"} => changed.doc \in ApiDocs,
         changed.pc = "insert" => changed.grant \in PermRoles \X Permissions,
         changed.pc = "raise" => changed.version \in ApiVersions
  PROVE  /\ apiCall' \in [ApiCalls -> ApiCallType] /\ ApiCarries'
         /\ apiCall'[c] = changed /\ \A d \in ApiCalls \ {c} : apiCall'[d] = apiCall[d]
         /\ \A d \in ApiCalls :
              /\ apiCall'[d].op \in {"none", "file", "import", "activate", "assign"}
              /\ apiCall'[d].pc \in {"idle", "check", "replace", "commit", "raise", "insert"}
              /\ apiCall'[d].doc \in ApiDocs \cup {"none"} /\ apiCall'[d].seen \subseteq ActionIds
<1>1. apiCall' = [apiCall EXCEPT ![c] = changed] /\ apiCall \in [ApiCalls -> ApiCallType]
  BY DEF GoesOn, ApiInv, ApiTables
<1>2. apiCall' \in [ApiCalls -> ApiCallType] /\ apiCall'[c] = changed
      /\ \A d \in ApiCalls \ {c} : apiCall'[d] = apiCall[d]
  BY <1>1
<1>3. ApiCarries'
  BY <1>2 DEF ApiInv, ApiTables, ApiCarries
<1>4. ASSUME NEW d \in ApiCalls
      PROVE /\ apiCall'[d].op \in {"none", "file", "import", "activate", "assign"}
            /\ apiCall'[d].pc \in {"idle", "check", "replace", "commit", "raise", "insert"}
            /\ apiCall'[d].doc \in ApiDocs \cup {"none"} /\ apiCall'[d].seen \subseteq ActionIds
  <2>1. apiCall'[d] \in ApiCallType
    BY <1>2
  <2> QED
    BY <2>1 DEF ApiCallType
<1> QED
  BY <1>2, <1>3, <1>4

\* The step that neither begins a transaction nor ends one.
LEMMA NoTransaction ==
  ASSUME ApiInv, NEW c \in ApiCalls, NEW changed \in ApiCallType, GoesOn(c, changed),
         changed.pc \in {"check", "replace"} => changed.doc \in ApiDocs,
         changed.pc = "insert" => changed.grant \in PermRoles \X Permissions,
         changed.pc = "raise" => changed.version \in ApiVersions,
         changed.pc # "commit",
         ApiTypeOK' \/ UNCHANGED <<apiTable, permTable>>,
         UNCHANGED <<actions, stampOf, loose>>
  PROVE  ApiInv'
<1>1. /\ apiCall' \in [ApiCalls -> ApiCallType] /\ ApiCarries'
      /\ apiCall'[c] = changed /\ \A d \in ApiCalls \ {c} : apiCall'[d] = apiCall[d]
      /\ \A d \in ApiCalls :
           /\ apiCall'[d].op \in {"none", "file", "import", "activate", "assign"}
           /\ apiCall'[d].pc \in {"idle", "check", "replace", "commit", "raise", "insert"}
           /\ apiCall'[d].doc \in ApiDocs \cup {"none"} /\ apiCall'[d].seen \subseteq ActionIds
  BY ApiCallMoves
<1>2. ApiTypeOK'
  BY <1>1 DEF ApiInv, ApiTables, ApiTypeOK, apiTable, permTable
<1>3. \A d \in ApiCalls : AtApi(d, "commit")' => AtApi(d, "commit") /\ apiCall'[d] = apiCall[d]
  BY <1>1 DEF AtApi
<1>4. OneStampedCommit'
  BY <1>3 DEF ApiInv, OneStampedCommit, Stamped
<1>5. SeenIsAll' /\ OneActionPerName' /\ StampTellsActions'
  BY <1>3 DEF ApiInv, SeenIsAll, OneActionPerName, StampTellsActions
<1> QED
  BY <1>1, <1>2, <1>4, <1>5 DEF ApiInv, ApiTables

LEMMA IdleApiCall == NoApiCall \in ApiCallType /\ NoApiCall.pc = "idle"
  BY DEF NoApiCall, ApiCallType

LEMMA BeginningKeepsApi ==
  ASSUME ApiInv, NEW c \in ApiCalls,
         \/ \E d \in ApiFiles : SyncMcmpAPIsFromYAML(c, d)
         \/ \E d \in ApiSpecs, v \in ApiVersions \cup {"none"} : ImportAPIs(c, d, v)
         \/ \E v \in ApiVersions : SetActiveVersion(c, v)
         \/ \E r \in PermRoles, p \in Permissions : AssignMciamPermissionToRole(c, r, p)
  PROVE  ApiInv'
<1>1. ASSUME NEW d \in ApiFiles, SyncMcmpAPIsFromYAML(c, d)
      PROVE  ApiInv'
  <2> DEFINE new == [NoApiCall EXCEPT !.op = "file", !.pc = "check", !.doc = d]
  <2>1. /\ new \in ApiCallType /\ new.pc = "check" /\ new.doc \in ApiDocs
        /\ GoesOn(c, new) /\ UNCHANGED <<apiTable, permTable>>
    BY <1>1 DEF SyncMcmpAPIsFromYAML, NoApiCall, ApiCallType, ApiDocs
  <2> HIDE DEF new
  <2> QED
    BY <2>1, NoTransaction DEF apiTable
<1>2. ASSUME NEW d \in ApiSpecs, NEW v \in ApiVersions \cup {"none"}, ImportAPIs(c, d, v)
      PROVE  ApiInv'
  <2> DEFINE new ==
        [NoApiCall EXCEPT !.op = "import", !.pc = "replace", !.doc = d, !.version = v]
  <2>1. /\ new \in ApiCallType /\ new.pc = "replace" /\ new.doc \in ApiDocs
        /\ GoesOn(c, new) /\ UNCHANGED <<apiTable, permTable>>
    BY <1>2 DEF ImportAPIs, NoApiCall, ApiCallType, ApiDocs
  <2> HIDE DEF new
  <2> QED
    BY <2>1, NoTransaction DEF apiTable
<1>3. ASSUME NEW v \in ApiVersions, SetActiveVersion(c, v)
      PROVE  ApiInv'
  <2> DEFINE new == [NoApiCall EXCEPT !.op = "activate", !.pc = "raise", !.version = v]
  <2>1. /\ new \in ApiCallType /\ new.pc = "raise" /\ new.version \in ApiVersions
        /\ GoesOn(c, new) /\ UNCHANGED <<actions, generation, stampOf, loose, permTable>>
    BY <1>3 DEF SetActiveVersion, NoApiCall, ApiCallType
  <2>2. service' \in [version : ApiVersions \cup {"none"}, active : BOOLEAN]
    BY <1>3 DEF SetActiveVersion, ApiInv, ApiTables, ApiTypeOK
  <2> HIDE DEF new
  <2>3. ApiTypeOK'
    BY <2>1, <2>2, ApiCallMoves DEF ApiInv, ApiTables, ApiTypeOK, permTable
  <2> QED
    BY <2>1, <2>3, NoTransaction
<1>4. ASSUME NEW r \in PermRoles, NEW p \in Permissions, AssignMciamPermissionToRole(c, r, p)
      PROVE  ApiInv'
  <2> DEFINE new == [NoApiCall EXCEPT !.op = "assign", !.pc = "insert", !.grant = <<r, p>>]
  <2>1. /\ new \in ApiCallType /\ new.pc = "insert" /\ new.grant \in PermRoles \X Permissions
        /\ GoesOn(c, new) /\ UNCHANGED <<apiTable, permTable>>
    BY <1>4 DEF AssignMciamPermissionToRole, NoApiCall, ApiCallType
  <2> HIDE DEF new
  <2> QED
    BY <2>1, NoTransaction DEF apiTable
<1> QED
  BY <1>1, <1>2, <1>3, <1>4

LEMMA CheckingKeepsApi ==
  ASSUME ApiInv, NEW c \in ApiCalls, ShouldUpdateService(c) \/ ApiStops(c)
  PROVE  ApiInv'
<1>1. CASE ApiStops(c) \/ (ApiEnds(c) /\ UNCHANGED <<apiTable, permTable>>)
  <2>1. GoesOn(c, NoApiCall) /\ UNCHANGED <<apiTable, permTable>>
    BY <1>1 DEF ApiStops, ApiEnds
  <2> QED
    BY <2>1, IdleApiCall, NoTransaction DEF apiTable
<1>2. CASE /\ GoesOn(c, [apiCall[c] EXCEPT !.pc = "replace"]) /\ AtApi(c, "check")
           /\ UNCHANGED <<apiTable, permTable>>
  <2> DEFINE new == [apiCall[c] EXCEPT !.pc = "replace"]
  <2>1. apiCall[c] \in ApiCallType /\ apiCall[c].doc \in ApiDocs
    BY <1>2 DEF ApiInv, ApiTables, ApiCarries, AtApi
  <2>2. new \in ApiCallType /\ new.pc = "replace" /\ new.doc \in ApiDocs
    BY <2>1 DEF ApiCallType
  <2>3. GoesOn(c, new) /\ UNCHANGED <<apiTable, permTable>>
    BY <1>2
  <2> HIDE DEF new
  <2> QED
    BY <2>2, <2>3, NoTransaction DEF apiTable
<1> QED
  BY <1>1, <1>2 DEF ShouldUpdateService, ApiEnds

LEMMA DeletionKeepsApi ==
  ASSUME ApiInv, NEW c \in ApiCalls, DeleteActionsByServiceName(c)
  PROVE  ApiInv'
<1> DEFINE new == [apiCall[c] EXCEPT !.pc = "commit", !.seen = actions]
<1>1. /\ apiCall[c] \in ApiCallType /\ apiCall[c].doc \in ApiDocs /\ actions \subseteq ActionIds
      /\ GoesOn(c, new) /\ UNCHANGED <<apiTable, permTable>>
  BY DEF DeleteActionsByServiceName, AtApi, ApiInv, ApiTables, ApiCarries, ApiTypeOK
<1>2. /\ new \in ApiCallType /\ new.pc = "commit" /\ new.seen = actions
      /\ new.doc = apiCall[c].doc
  BY <1>1 DEF ApiCallType
<1> HIDE DEF new
<1>3. /\ apiCall' \in [ApiCalls -> ApiCallType] /\ ApiCarries'
      /\ apiCall'[c] = new /\ \A d \in ApiCalls \ {c} : apiCall'[d] = apiCall[d]
      /\ \A d \in ApiCalls :
           /\ apiCall'[d].op \in {"none", "file", "import", "activate", "assign"}
           /\ apiCall'[d].pc \in {"idle", "check", "replace", "commit", "raise", "insert"}
           /\ apiCall'[d].doc \in ApiDocs \cup {"none"} /\ apiCall'[d].seen \subseteq ActionIds
  BY <1>1, <1>2, ApiCallMoves
<1>4. ApiTypeOK'
  BY <1>1, <1>3 DEF ApiInv, ApiTables, ApiTypeOK, apiTable, permTable
<1>5. \A d \in ApiCalls : Stamped(d)' = Stamped(d)
  BY <1>2, <1>3 DEF Stamped
<1>6. ASSUME NEW d \in ApiCalls \ {c}, AtApi(d, "commit")', Stamped(d)', Stamped(c)'
      PROVE  FALSE
  BY <1>3, <1>5, <1>6 DEF AtApi, Locked, DeleteActionsByServiceName
<1>7. OneStampedCommit'
  BY <1>3, <1>5, <1>6 DEF OneStampedCommit, ApiInv, AtApi
<1>8. SeenIsAll' /\ OneActionPerName' /\ StampTellsActions'
  BY <1>1, <1>2, <1>3
     DEF ApiInv, SeenIsAll, OneActionPerName, StampTellsActions, AtApi, apiTable
<1> QED
  BY <1>3, <1>4, <1>7, <1>8 DEF ApiInv, ApiTables

(***************************************************************************)
(* The commit.  Unless it overlaps, nobody else is about to commit, as two *)
(* with stamps would not have been; so it has deleted all there was.       *)
(***************************************************************************)
LEMMA CommitKeepsApi ==
  ASSUME ApiInv, NEW c \in ApiCalls, ReplaceActions(c)
  PROVE  ApiInv'
<1> DEFINE d == apiCall[c].doc
           fresh == {generation + 1} \X ApiActions[d]
<1>1. /\ AtApi(c, "commit") /\ apiCall[c] \in ApiCallType /\ d \in ApiDocs
      /\ generation \in 0..ApiGenerations /\ generation < ApiGenerations
      /\ GoesOn(c, NoApiCall) /\ UNCHANGED permTable
      /\ actions' = (actions \ apiCall[c].seen) \cup fresh
      /\ stampOf' = IF Stamped(c) THEN ApiStamp[d] ELSE stampOf
      /\ loose' = LooseAfter(c) /\ generation' = generation + 1
  BY DEF ReplaceActions, Replace, ApiEnds, AtApi, ApiInv, ApiTables, ApiCarries, ApiTypeOK
<1>2. /\ apiCall' \in [ApiCalls -> ApiCallType] /\ ApiCarries'
      /\ apiCall'[c] = NoApiCall /\ \A e \in ApiCalls \ {c} : apiCall'[e] = apiCall[e]
      /\ \A e \in ApiCalls :
           /\ apiCall'[e].op \in {"none", "file", "import", "activate", "assign"}
           /\ apiCall'[e].pc \in {"idle", "check", "replace", "commit", "raise", "insert"}
           /\ apiCall'[e].doc \in ApiDocs \cup {"none"} /\ apiCall'[e].seen \subseteq ActionIds
  BY <1>1, IdleApiCall, ApiCallMoves
<1>3. fresh \subseteq ActionIds /\ ApiStamp[d] \in Stamps
  <2>1. generation + 1 \in 1..ApiGenerations
    BY <1>1, ApiAssumption
  <2>2. ApiActions[d] \subseteq UNION {ApiActions[e] : e \in ApiDocs}
    BY <1>1
  <2> QED
    BY <1>1, <2>1, <2>2 DEF ActionIds, Stamps
<1>4. ApiTypeOK'
  <2>1. service' \in [version : ApiVersions \cup {"none"}, active : BOOLEAN]
    BY <1>1 DEF ReplaceActions, ApiInv, ApiTables, ApiTypeOK, ApiCallType
  <2>2. loose' \in {"no", "unstamped", "overlapped"}
    BY <1>1 DEF LooseAfter, ApiInv, ApiTables, ApiTypeOK
  <2>3. generation' \in 0..ApiGenerations
    BY <1>1, ApiAssumption
  <2> QED
    BY <1>1, <1>2, <1>3, <2>1, <2>2, <2>3 DEF ApiInv, ApiTables, ApiTypeOK, permTable
<1>5. \A e \in ApiCalls :
         AtApi(e, "commit")' => e # c /\ AtApi(e, "commit") /\ (Stamped(e)' = Stamped(e))
  BY <1>2 DEF AtApi, NoApiCall, Stamped
<1>6. OneStampedCommit'
  BY <1>5 DEF ApiInv, OneStampedCommit
<1>7. Clashes(c) \/ Alone(c)
  <2>1. ASSUME NEW e \in ApiCalls \ {c}, AtApi(e, "commit") PROVE ~(Stamped(c) /\ Stamped(e))
    BY <1>1, <2>1 DEF ApiInv, OneStampedCommit
  <2> QED
    BY <2>1 DEF Clashes, Alone
<1>8. CASE Clashes(c)
  <2>1. ~Alone(c)
    BY <1>8 DEF Clashes, Alone
  <2>2. loose' = "overlapped"
    BY <1>1, <1>8, <2>1 DEF LooseAfter
  <2> QED
    BY <1>2, <1>4, <1>6, <2>2
       DEF ApiInv, ApiTables, SeenIsAll, OneActionPerName, StampTellsActions
<1>9. CASE ~Clashes(c)
  <2>1. Alone(c) /\ \A e \in ApiCalls : ~AtApi(e, "commit")'
    BY <1>5, <1>7, <1>9 DEF Alone
  <2>2. CASE apiCall[c].seen = actions
    <3>1. loose' = (IF Stamped(c) THEN "no" ELSE "unstamped") /\ actions' = fresh
      BY <1>1, <1>9, <2>1, <2>2 DEF LooseAfter
    <3>2. OneActionPerName' /\ {a[2] : a \in actions'} = ApiActions[d]
      <4>1. \A a \in actions' : a = <<generation + 1, a[2]>> /\ a[2] \in ApiActions[d]
        BY <3>1
      <4>2. \A n \in ApiActions[d] : <<generation + 1, n>> \in actions'
        BY <3>1
      <4> QED
        BY <4>1, <4>2 DEF OneActionPerName
    <3>3. StampTellsActions'
      BY <1>1, <3>1, <3>2 DEF StampTellsActions
    <3> QED
      BY <1>2, <1>4, <1>6, <2>1, <3>2, <3>3 DEF ApiInv, ApiTables, SeenIsAll
  <2>3. CASE apiCall[c].seen # actions
    <3>1. loose' = loose /\ loose = "overlapped"
      BY <1>1, <1>9, <2>3 DEF LooseAfter, ApiInv, SeenIsAll
    <3> QED
      BY <1>2, <1>4, <1>6, <3>1
         DEF ApiInv, ApiTables, SeenIsAll, OneActionPerName, StampTellsActions
  <2> QED
    BY <2>2, <2>3
<1> QED
  BY <1>8, <1>9

LEMMA LateStepsKeepApi ==
  ASSUME ApiInv, NEW c \in ApiCalls, RaiseVersion(c) \/ InsertRolePermission(c)
  PROVE  ApiInv'
<1>1. GoesOn(c, NoApiCall) /\ UNCHANGED <<actions, generation, stampOf, loose>>
  BY DEF RaiseVersion, InsertRolePermission, ApiEnds, apiTable
<1>2. \A e \in ApiCalls :
         /\ apiCall'[e].op \in {"none", "file", "import", "activate", "assign"}
         /\ apiCall'[e].pc \in {"idle", "check", "replace", "commit", "raise", "insert"}
         /\ apiCall'[e].doc \in ApiDocs \cup {"none"} /\ apiCall'[e].seen \subseteq ActionIds
  BY <1>1, IdleApiCall, ApiCallMoves
<1>3. CASE RaiseVersion(c)
  <2>1. /\ service' \in [version : ApiVersions \cup {"none"}, active : BOOLEAN]
        /\ UNCHANGED permTable
    BY <1>3 DEF RaiseVersion, ApiInv, ApiTables, ApiTypeOK
  <2>2. ApiTypeOK'
    BY <1>1, <1>2, <2>1 DEF ApiInv, ApiTables, ApiTypeOK, permTable
  <2> QED
    BY <1>1, <2>2, IdleApiCall, NoTransaction
<1>4. CASE InsertRolePermission(c)
  <2>1. permRoles' \subseteq PermRoles \X Permissions
    BY <1>4 DEF InsertRolePermission, AtApi, ApiInv, ApiTables, ApiTypeOK, ApiCarries
  <2>2. ApiTypeOK'
    BY <1>1, <1>2, <1>4, <2>1
       DEF InsertRolePermission, ApiInv, ApiTables, ApiTypeOK, apiTable
  <2> QED
    BY <1>1, <2>2, IdleApiCall, NoTransaction
<1> QED
  BY <1>3, <1>4

\* The rows of services and permissions, by handlers of one statement.
LEMMA PlainRowsKeepApi ==
  ASSUME ApiInv, ApiStep \/ PermStep
  PROVE  ApiInv'
<1>1. UNCHANGED <<apiCall, actions, generation, stampOf, loose>>
  BY DEF ApiStep, PermStep, CreateFrameworkService, UpdateFrameworkService, CreateResourceType,
         DeleteResourceType, CreateMcIamPermission, DeleteMcIamPermission,
         RemoveMciamPermissionFromRole, CreateMapping, DeleteMapping, apiTable
<1>2. ApiTypeOK'
  <2>1. ASSUME ApiStep PROVE ApiTypeOK'
    <3>1. service' \in [version : ApiVersions \cup {"none"}, active : BOOLEAN] /\ UNCHANGED permTable
      BY <2>1 DEF ApiStep, CreateFrameworkService, UpdateFrameworkService, ApiInv, ApiTables, ApiTypeOK
    <3> QED
      BY <1>1, <3>1 DEF ApiInv, ApiTables, ApiTypeOK, permTable
  <2>2. ASSUME PermStep PROVE ApiTypeOK'
    <3> USE DEF ApiInv, ApiTables, ApiTypeOK, apiTable
    <3> DEFINE Typed ==
          /\ perms' \subseteq Permissions /\ types' \subseteq ResourceTypes
          /\ permRoles' \subseteq PermRoles \X Permissions
          /\ permActions' \subseteq Permissions \X ActionIds /\ service' = service
    <3>2. ASSUME NEW t \in ResourceTypes, CreateResourceType(t) \/ DeleteResourceType(t)
          PROVE  Typed
      BY <3>2 DEF CreateResourceType, DeleteResourceType
    <3>3. ASSUME NEW p \in Permissions, CreateMcIamPermission(p) \/ DeleteMcIamPermission(p)
          PROVE  Typed
      BY <3>3 DEF CreateMcIamPermission, DeleteMcIamPermission
    <3>4. ASSUME NEW r \in PermRoles, NEW p \in Permissions, RemoveMciamPermissionFromRole(r, p)
          PROVE  Typed
      BY <3>4 DEF RemoveMciamPermissionFromRole
    <3>5. ASSUME NEW p \in Permissions, NEW a \in ActionIds, CreateMapping(p, a) \/ DeleteMapping(p, a)
          PROVE  Typed
      BY <3>5 DEF CreateMapping, DeleteMapping
    <3>6. actions \subseteq ActionIds
      OBVIOUS
    <3>1. Typed
      BY <2>2, <3>2, <3>3, <3>4, <3>5, <3>6 DEF PermStep
    <3> QED
      BY <1>1, <3>1 DEF ApiInv, ApiTables, ApiTypeOK
  <2> QED
    BY <2>1, <2>2
<1>3. ApiCarries' /\ OneStampedCommit' /\ SeenIsAll' /\ OneActionPerName' /\ StampTellsActions'
  BY <1>1 DEF ApiInv, ApiTables, ApiCarries, OneStampedCommit, SeenIsAll, OneActionPerName,
     StampTellsActions, AtApi, Stamped
<1> QED
  BY <1>1, <1>2, <1>3 DEF ApiInv, ApiTables

LEMMA ApiInvStep == ApiInv /\ [ApiNext]_apiVars => ApiInv'
<1> SUFFICES ASSUME ApiInv, [ApiNext]_apiVars PROVE ApiInv'
  OBVIOUS
<1>1. ASSUME NEW c \in ApiCalls, ApiCallStep(c) PROVE ApiInv'
  BY <1>1, BeginningKeepsApi, CheckingKeepsApi, DeletionKeepsApi, CommitKeepsApi,
     LateStepsKeepApi DEF ApiCallStep
<1>2. ASSUME UNCHANGED apiVars PROVE ApiInv'
  BY <1>2 DEF apiVars, ApiInv, ApiTables, ApiTypeOK, ApiCarries, OneStampedCommit,
     SeenIsAll, OneActionPerName, StampTellsActions, AtApi, Stamped
<1> QED
  BY <1>1, <1>2, PlainRowsKeepApi DEF ApiNext

LEMMA ApiInvariant == ApiSpec => []ApiInv
  BY ApiInitially, ApiInvStep, PTL DEF ApiSpec

\* The tables of services, actions and permissions hold what their columns can,
\* whatever requests of mcmpapi_service.go and permission_service.go overlap.
THEOREM RegistryKeepsTypes == ApiSpec => []ApiTypeOK
<1>1. ApiInv => ApiTypeOK
  BY DEF ApiInv, ApiTables
<1> QED
  BY ApiInvariant, <1>1, PTL

\* A service has each of its actions once, however files and imports overlap
\* (mcmpapi_service.go:163), unless one of them was a file without _meta.
THEOREM ActionsAreUnique == ApiSpec => []OneActionPerName
<1>1. ApiInv => OneActionPerName
  BY DEF ApiInv
<1> QED
  BY ApiInvariant, <1>1, PTL

\* The stamp by which a file is taken or left is that of a document with just the
\* actions in the table, unless one without _meta came later or at the same time.
THEOREM StampIsOfTheActions == ApiSpec => []StampTellsActions
<1>1. ApiInv => StampTellsActions
  BY DEF ApiInv
<1> QED
  BY ApiInvariant, <1>1, PTL

------------------------------------------------------------------------------
(***************************************************************************)
(* Rows that are read, changed and saved whole stay as the answers say,    *)
(* until two requests work on one of them at once.                         *)
(***************************************************************************)
RowCallType ==
    [pc : {"idle", "insert", "checkName", "save", "sync", "erase", "attach"},
     family : Families \cup {{}}, id : RowIds \cup {0}, label : Labels \cup {"none"}, on : Flags,
     seen : RowValues, account : RowValues, role : AttachRoles \cup {0}, arn : Arns \cup {"none"}]
\* What a request has by the step it is at.
RowKnows(call) ==
    /\ call.pc \in {"insert", "sync"} => call.label \in Labels /\ call.id = 0
    /\ call.pc \in {"checkName", "save"} =>
         /\ call.id \in drawnRows /\ call.seen # Gone
         /\ call.id \in Children => call.account # Gone /\ AccountOf[call.id] \in drawnRows
    /\ call.pc = "erase" => call.id \in RowIds
    /\ call.pc = "attach" => call.role \in AttachRoles /\ call.id \in Policies
    /\ call.pc = "idle" => call = NoRowCall
\* A row that one request works on is still what that request read.
RowFresh(call) ==
    call.pc \in {"checkName", "save"} =>
        /\ call.id \notin mingled => call.seen = row[call.id]
        /\ call.id \in Children /\ AccountOf[call.id] \notin mingled => There(AccountOf[call.id])
\* What two requests touch is mingled.
OwnRows ==
    \A c, d \in RowCalls :
        c # d => Touched(rowCall[c]) \cap Touched(rowCall[d]) \subseteq mingled
\* Ids are not handed out twice.
RowsWereDrawn ==
    \A x \in RowIds : x \notin drawnRows => row[x] = Gone
RowCalling == \A c \in RowCalls : RowKnows(rowCall[c]) /\ RowFresh(rowCall[c])
RowTables == RowTypeOK /\ rowCall \in [RowCalls -> RowCallType] /\ RowsWereDrawn
RowInv == RowTables /\ RowCalling /\ OwnRows /\ RowsAsTold

LEMMA RowFields ==
  ASSUME NEW call \in RowCallType
  PROVE  /\ call.pc \in {"idle", "insert", "checkName", "save", "sync", "erase", "attach"}
         /\ call.family \in Families \cup {{}} /\ call.id \in RowIds \cup {0}
         /\ call.label \in Labels \cup {"none"} /\ call.on \in Flags
         /\ call.seen \in RowValues /\ call.account \in RowValues
         /\ call.role \in AttachRoles \cup {0} /\ call.arn \in Arns \cup {"none"}
  BY DEF RowCallType

LEMMA NoRowCallIsTyped ==
  NoRowCall \in RowCallType /\ NoRowCall.pc = "idle" /\ NoRowCall.id = 0
  BY DEF NoRowCall, RowCallType, RowValues, Flags

(***************************************************************************)
(* The families of ids, and what a request touches: rows only.             *)
(***************************************************************************)
LEMMA RowKinds ==
  /\ 0 \notin RowIds /\ Accounts \cap Children = {} /\ AccountOf \in [Children -> Accounts]
  /\ Accounts \subseteq RowIds /\ Children \subseteq RowIds
  /\ \A family \in Families \cup {{}} : family \subseteq RowIds
  BY SavedAssumption DEF RowIds, Children, Families, IdpsOf, PoliciesOf

LEMMA TouchedAreRows ==
  ASSUME NEW call \in RowCallType
  PROVE  /\ Touched(call) \subseteq RowIds
         /\ call.id = 0 \/ call.pc = "attach" => Touched(call) = {}
  BY RowKinds, RowFields DEF Touched

LEMMA RowCallGoes ==
  ASSUME RowInv, NEW c \in RowCalls, NEW new \in RowCallType, RowGoes(c, new)
  PROVE  /\ rowCall' \in [RowCalls -> RowCallType] /\ rowCall'[c] = new
         /\ \A d \in RowCalls \ {c} : rowCall'[d] = rowCall[d]
  BY DEF RowInv, RowTables, RowGoes

LEMMA RowInitially == RowInit => RowInv
<1> SUFFICES ASSUME RowInit PROVE RowInv
  OBVIOUS
<1>1. \A c \in RowCalls : rowCall[c] = NoRowCall
  BY DEF RowInit
<1>2. rowCall \in [RowCalls -> RowCallType]
  BY NoRowCallIsTyped DEF RowInit
<1>3. /\ row \in [RowIds -> RowValues] /\ \A x \in RowIds : row[x] = Gone
      /\ told = row /\ drawnRows = {} /\ attached = {} /\ mingled = {}
  BY DEF RowInit, RowValues
<1>4. RowTypeOK
  BY <1>2, <1>3, RowFields, RowKinds DEF RowTypeOK, There
<1>5. RowCalling /\ OwnRows
  BY <1>1, <1>2, NoRowCallIsTyped, TouchedAreRows DEF RowCalling, RowKnows, RowFresh, OwnRows
<1> QED
  BY <1>2, <1>3, <1>4, <1>5 DEF RowInv, RowTables, RowsWereDrawn, RowsAsTold

(***************************************************************************)
(* A request begins, or goes on: what it shares with others is mingled.    *)
(***************************************************************************)
LEMMA TablesStay ==
  ASSUME RowInv, NEW c \in RowCalls, NEW new \in RowCallType, RowGoes(c, new),
         UNCHANGED <<row, drawnRows, attached, told>>,
         mingled \subseteq mingled', mingled' \subseteq RowIds,
         \A d \in RowCalls \ {c} : Touched(new) \cap Touched(rowCall[d]) \subseteq mingled',
         RowKnows(new),
         new.pc \in {"checkName", "save"} =>
             /\ new.id \notin mingled' => new.seen = row[new.id]
             /\ new.id \in Children /\ AccountOf[new.id] \notin mingled' =>
                  There(AccountOf[new.id])
  PROVE  RowInv'
<1>1. /\ rowCall' \in [RowCalls -> RowCallType] /\ rowCall'[c] = new
      /\ \A d \in RowCalls \ {c} : rowCall'[d] = rowCall[d]
  BY RowCallGoes
<1>2. RowTypeOK'
  BY <1>1, RowFields DEF RowInv, RowTables, RowTypeOK, There
<1>3. RowsWereDrawn' /\ RowsAsTold'
  BY DEF RowInv, RowTables, RowsWereDrawn, RowsAsTold
<1>4. RowCalling'
  <2>1. RowKnows(rowCall[c])' /\ RowFresh(rowCall[c])'
    BY <1>1 DEF RowKnows, RowFresh, There
  <2>2. ASSUME NEW d \in RowCalls \ {c} PROVE RowKnows(rowCall[d])' /\ RowFresh(rowCall[d])'
    <3>1. RowKnows(rowCall[d]) /\ RowFresh(rowCall[d]) /\ rowCall'[d] = rowCall[d]
      BY <1>1 DEF RowInv, RowCalling
    <3> QED
      BY <3>1 DEF RowKnows, RowFresh, There
  <2> QED
    BY <2>1, <2>2 DEF RowCalling
<1>5. OwnRows'
  <2>1. Touched(new) = Touched(rowCall'[c]) /\ Touched(rowCall[c])' = Touched(rowCall'[c])
    BY <1>1 DEF Touched
  <2>2. \A d \in RowCalls \ {c} : Touched(rowCall[d])' = Touched(rowCall[d])
    BY <1>1 DEF Touched
  <2> QED
    BY <2>1, <2>2 DEF OwnRows, RowInv
<1> QED
  BY <1>1, <1>2, <1>3, <1>4, <1>5 DEF RowInv, RowTables

LEMMA TakingKeepsRows ==
  ASSUME RowInv, NEW c \in RowCalls, NEW new \in RowCallType, RowTakes(c, new),
         RowKnows(new),
         new.pc \in {"checkName", "save"} =>
             /\ new.seen = row[new.id]
             /\ new.id \in Children => There(AccountOf[new.id])
  PROVE  RowInv'
<1>1. RowGoes(c, new) /\ UNCHANGED <<row, drawnRows, attached, told>>
  BY DEF RowTakes
<1>2. /\ mingled' = mingled \cup (Touched(new) \cap UNION {Touched(rowCall[d]) : d \in RowCalls})
      /\ mingled \subseteq RowIds
  BY DEF RowTakes, RowInv, RowTables, RowTypeOK
<1>3. mingled \subseteq mingled' /\ mingled' \subseteq RowIds
  BY <1>2, TouchedAreRows
<1>4. \A d \in RowCalls \ {c} : Touched(new) \cap Touched(rowCall[d]) \subseteq mingled'
  BY <1>2
<1> QED
  BY <1>1, <1>3, <1>4, TablesStay

LEMMA StoppingKeepsRows ==
  ASSUME RowInv, NEW c \in RowCalls, RowCallStops(c)
  PROVE  RowInv'
<1>1. RowGoes(c, NoRowCall) /\ UNCHANGED <<row, drawnRows, attached, told, mingled>>
  BY DEF RowCallStops, RowEnds
<1>2. Touched(NoRowCall) = {} /\ RowKnows(NoRowCall) /\ mingled \subseteq RowIds
  BY NoRowCallIsTyped, TouchedAreRows DEF RowKnows, RowInv, RowTables, RowTypeOK
<1> QED
  BY <1>1, <1>2, NoRowCallIsTyped, TablesStay

(***************************************************************************)
(* The last statement of a request: it leaves as they are the rows that    *)
(* others have read and that are not mingled.                              *)
(***************************************************************************)
LEMMA WritingKeepsRows ==
  ASSUME RowInv, NEW c \in RowCalls, RowEnds(c), mingled' = mingled,
         drawnRows \subseteq drawnRows', drawnRows' \subseteq RowIds,
         row' \in [RowIds -> RowValues], told' \in [RowIds -> RowValues],
         attached' \subseteq AttachRoles \X Policies,
         \A x \in Children : There(x)' => There(AccountOf[x])',
         \A pair \in attached' : row'[pair[2]] # Gone,
         RowsWereDrawn', RowsAsTold',
         \A d \in RowCalls \ {c} : \A x \in Touched(rowCall[d]) \ mingled :
             There(x) => row'[x] = row[x]
  PROVE  RowInv'
<1>1. /\ rowCall' \in [RowCalls -> RowCallType] /\ rowCall'[c] = NoRowCall
      /\ \A d \in RowCalls \ {c} : rowCall'[d] = rowCall[d]
  BY NoRowCallIsTyped, RowCallGoes DEF RowEnds
<1>2. RowTypeOK'
  BY <1>1, RowFields DEF RowInv, RowTables, RowTypeOK, There
<1>3. RowCalling'
  <2>1. RowKnows(rowCall[c])' /\ RowFresh(rowCall[c])'
    BY <1>1, NoRowCallIsTyped DEF RowKnows, RowFresh
  <2>2. ASSUME NEW d \in RowCalls \ {c} PROVE RowKnows(rowCall[d])' /\ RowFresh(rowCall[d])'
    <3>1. /\ RowKnows(rowCall[d]) /\ RowFresh(rowCall[d]) /\ rowCall'[d] = rowCall[d]
          /\ rowCall[d] \in RowCallType
      BY <1>1 DEF RowInv, RowTables, RowCalling
    <3>2. RowKnows(rowCall[d])'
      BY <3>1 DEF RowKnows
    <3>3. ASSUME rowCall[d].pc \in {"checkName", "save"}
          PROVE  /\ rowCall[d].id \in Touched(rowCall[d])
                 /\ rowCall[d].id \in Children =>
                       AccountOf[rowCall[d].id] \in Touched(rowCall[d])
      <4>1. rowCall[d].id \in RowIds
        BY <3>1, <3>3 DEF RowKnows, RowInv, RowTables, RowTypeOK
      <4> QED
        BY <3>3, <4>1, RowKinds DEF Touched
    <3>4. RowFresh(rowCall[d])'
      BY <3>1, <3>3 DEF RowKnows, RowFresh, There
    <3> QED
      BY <3>2, <3>4
  <2> QED
    BY <2>1, <2>2 DEF RowCalling
<1>4. OwnRows'
  <2>1. Touched(rowCall[c])' = {}
    BY <1>1, NoRowCallIsTyped, TouchedAreRows DEF Touched
  <2>2. \A d \in RowCalls \ {c} : Touched(rowCall[d])' = Touched(rowCall[d])
    BY <1>1 DEF Touched
  <2> QED
    BY <2>1, <2>2 DEF OwnRows, RowInv
<1> QED
  BY <1>1, <1>2, <1>3, <1>4 DEF RowInv, RowTables

(***************************************************************************)
(* The handlers' checks and reads.                                         *)
(***************************************************************************)
LEMMA CreatingKeepsRows ==
  ASSUME RowInv, NEW c \in RowCalls, NEW family \in Families, NEW label \in Labels,
         CreateRow(c, family, label)
  PROVE  RowInv'
<1> DEFINE new == [NoRowCall EXCEPT !.pc = "insert", !.family = family, !.label = label]
<1>1. new \in RowCallType /\ new.pc = "insert" /\ new.label \in Labels /\ new.id = 0
  BY DEF NoRowCall, RowCallType, RowValues, Flags
<1>2. RowTakes(c, new)
  BY DEF CreateRow, RowBegins
<1> HIDE DEF new
<1>3. RowKnows(new)
  BY <1>1 DEF RowKnows
<1> QED
  BY <1>1, <1>2, <1>3, TakingKeepsRows

\* A row that is there was drawn, and so was its account, which is there too.
LEMMA RowsThere ==
  ASSUME RowTables, NEW x \in RowIds, There(x)
  PROVE  /\ x \in drawnRows /\ row[x] \in RowValues /\ row[x].label \in Labels
         /\ x \in Children => There(AccountOf[x]) /\ AccountOf[x] \in drawnRows \cap RowIds
  BY RowKinds DEF RowTables, RowTypeOK, RowsWereDrawn, There, RowValues

LEMMA EditIsTyped ==
  ASSUME RowTables, NEW x \in RowIds, There(x), NEW label \in Labels \cup {"none"},
         NEW on \in Flags, NEW pc \in {"save", "checkName"}
  PROVE  /\ Edit(x, label, on, pc) \in RowCallType /\ RowKnows(Edit(x, label, on, pc))
         /\ Edit(x, label, on, pc).id = x /\ Edit(x, label, on, pc).seen = row[x]
         /\ x \in Children => There(AccountOf[x])
<1> DEFINE new == Edit(x, label, on, pc)
<1>1. /\ x \in drawnRows /\ row[x] \in RowValues
      /\ x \in Children => There(AccountOf[x]) /\ AccountOf[x] \in drawnRows \cap RowIds
  BY RowsThere
<1>2. \A y \in RowIds : row[y] \in RowValues
  BY DEF RowTables, RowTypeOK
<1> DEFINE account == IF x \in Children THEN row[AccountOf[x]] ELSE Gone
<1>3. new = [pc |-> pc, family |-> {}, id |-> x, label |-> label, on |-> on, seen |-> row[x],
             account |-> account, role |-> 0, arn |-> "none"]
  <2> HIDE DEF account
  <2>1. new = [NoRowCall EXCEPT !.pc = pc, !.id = x, !.label = label, !.on = on, !.seen = row[x],
                                !.account = account]
    BY DEF Edit, account
  <2> HIDE DEF new
  <2> QED
    BY <2>1 DEF NoRowCall
<1>4. account \in RowValues /\ (x \in Children => account = row[AccountOf[x]])
  BY <1>1, <1>2 DEF RowValues
<1>5. new \in RowCallType
  BY <1>1, <1>3, <1>4 DEF RowCallType
<1> HIDE DEF new
<1>6. RowKnows(new)
  <2>1. /\ new.pc \in {"checkName", "save"} /\ new.id = x /\ new.seen = row[x] /\ row[x] # Gone
        /\ x \in Children => new.account # Gone /\ AccountOf[x] \in drawnRows
    BY <1>1, <1>3, <1>4 DEF There
  <2> QED
    BY <1>1, <2>1 DEF RowKnows
<1>7. new.id = x /\ new.seen = row[x]
  BY <1>3
<1> QED
  BY <1>1, <1>5, <1>6, <1>7 DEF new

LEMMA EditingKeepsRows ==
  ASSUME RowInv, NEW c \in RowCalls, NEW x \in RowIds, There(x),
         NEW label \in Labels \cup {"none"}, NEW on \in Flags, NEW pc \in {"save", "checkName"},
         RowTakes(c, Edit(x, label, on, pc))
  PROVE  RowInv'
<1> DEFINE new == Edit(x, label, on, pc)
<1>1. /\ new \in RowCallType /\ RowKnows(new) /\ new.id = x /\ new.seen = row[x]
      /\ x \in Children => There(AccountOf[x])
  BY EditIsTyped DEF RowInv
<1> HIDE DEF new
<1>2. RowTakes(c, new)
  BY DEF new
<1> QED
  BY <1>1, <1>2, TakingKeepsRows

LEMMA UpdatingKeepsRows ==
  ASSUME RowInv, NEW c \in RowCalls, NEW x \in RowIds,
         NEW label \in Labels \cup {"none"}, NEW on \in Flags, UpdateRow(c, x, label, on)
  PROVE  RowInv'
<1>1. PICK pc \in {"save", "checkName"} : RowTakes(c, Edit(x, label, on, pc))
  BY DEF UpdateRow, RowBegins
<1> QED
  BY <1>1, EditingKeepsRows DEF UpdateRow

LEMMA CheckingKeepsRows ==
  ASSUME RowInv, NEW c \in RowCalls, ExistsByName(c)
  PROVE  RowInv'
<1> DEFINE old == rowCall[c]
           new == [old EXCEPT !.pc = "save"]
<1>1. /\ old \in RowCallType /\ old.pc = "checkName" /\ RowKnows(old) /\ RowFresh(old)
      /\ RowGoes(c, new) /\ UNCHANGED <<row, drawnRows, attached, told, mingled>>
      /\ mingled \subseteq RowIds
  BY DEF ExistsByName, RowAt, RowInv, RowTables, RowCalling, RowTypeOK
<1>2. /\ new \in RowCallType /\ new.pc = "save" /\ new.id = old.id /\ new.seen = old.seen
      /\ new.account = old.account
  BY <1>1 DEF RowCallType
<1>3. Touched(new) = Touched(old)
  BY <1>1, <1>2 DEF Touched
<1>4. \A d \in RowCalls \ {c} : Touched(new) \cap Touched(rowCall[d]) \subseteq mingled
  BY <1>3 DEF RowInv, OwnRows
<1> HIDE DEF old, new
<1>5. RowKnows(new)
  BY <1>1, <1>2 DEF RowKnows
<1>6. /\ new.id \notin mingled => new.seen = row[new.id]
      /\ new.id \in Children /\ AccountOf[new.id] \notin mingled => There(AccountOf[new.id])
  BY <1>1, <1>2 DEF RowFresh
<1> QED
  BY <1>1, <1>2, <1>4, <1>5, <1>6, TablesStay

LEMMA DeletingKeepsRows ==
  ASSUME RowInv, NEW c \in RowCalls, NEW x \in RowIds, DeleteRow(c, x)
  PROVE  RowInv'
<1> DEFINE new == [NoRowCall EXCEPT !.pc = "erase", !.id = x]
<1>1. new \in RowCallType /\ new.pc = "erase" /\ new.id \in RowIds
  BY DEF NoRowCall, RowCallType, RowValues, Flags
<1>2. RowTakes(c, new)
  BY DEF DeleteRow, RowBegins
<1> HIDE DEF new
<1>3. RowKnows(new)
  BY <1>1 DEF RowKnows
<1> QED
  BY <1>1, <1>2, <1>3, TakingKeepsRows

LEMMA AttachingKeepsRows ==
  ASSUME RowInv, NEW c \in RowCalls, NEW role \in AttachRoles, NEW p \in Policies,
         AttachPolicyToRole(c, role, p)
  PROVE  RowInv'
<1> DEFINE new == [NoRowCall EXCEPT !.pc = "attach", !.id = p, !.role = role]
<1>1. /\ new \in RowCallType /\ new.pc = "attach" /\ new.id \in Policies
      /\ new.role \in AttachRoles
  BY DEF NoRowCall, RowCallType, RowValues, Flags, RowIds, Children
<1>2. RowTakes(c, new)
  BY DEF AttachPolicyToRole, RowBegins
<1> HIDE DEF new
<1>3. RowKnows(new)
  BY <1>1 DEF RowKnows
<1> QED
  BY <1>1, <1>2, <1>3, TakingKeepsRows

LEMMA SyncingKeepsRows ==
  ASSUME RowInv, NEW c \in RowCalls, NEW a \in Accounts, NEW arn \in Arns, NEW label \in Labels,
         SyncPoliciesFromCloud(c, a, arn, label)
  PROVE  RowInv'
<1> DEFINE new == [NoRowCall EXCEPT !.pc = "sync", !.family = PoliciesOf(a), !.arn = arn,
                                    !.label = label]
<1>1. new \in RowCallType /\ new.pc = "sync" /\ new.label \in Labels /\ new.id = 0
  <2>1. PoliciesOf(a) \in Families
    BY DEF Families
  <2> QED
    BY <2>1 DEF NoRowCall, RowCallType, RowValues, Flags
<1>2. RowTakes(c, new)
  BY DEF SyncPoliciesFromCloud, RowBegins
<1> HIDE DEF new
<1>3. RowKnows(new)
  BY <1>1 DEF RowKnows
<1> QED
  BY <1>1, <1>2, <1>3, TakingKeepsRows

LEMMA FindingKeepsRows ==
  ASSUME RowInv, NEW c \in RowCalls, GetByArn(c)
  PROVE  RowInv'
<1>1. rowCall[c] \in RowCallType /\ rowCall[c].label \in Labels /\ rowCall[c].id = 0
  BY DEF GetByArn, RowAt, RowInv, RowTables, RowCalling, RowKnows
<1>2. ASSUME RowTakes(c, [rowCall[c] EXCEPT !.pc = "insert"]) PROVE RowInv'
  <2> DEFINE new == [rowCall[c] EXCEPT !.pc = "insert"]
  <2>1. new \in RowCallType /\ new.pc = "insert" /\ new.label \in Labels /\ new.id = 0
    BY <1>1 DEF RowCallType
  <2>2. RowTakes(c, new)
    BY <1>2
  <2> HIDE DEF new
  <2>3. RowKnows(new)
    BY <2>1 DEF RowKnows
  <2> QED
    BY <2>1, <2>2, <2>3, TakingKeepsRows
<1>3. ASSUME NEW p \in Policies, There(p), RowTakes(c, Edit(p, rowCall[c].label, "keep", "save"))
      PROVE  RowInv'
  <2>1. p \in RowIds /\ "keep" \in Flags /\ rowCall[c].label \in Labels \cup {"none"}
    BY <1>1 DEF RowIds, Children, Flags
  <2> QED
    BY <1>3, <2>1, EditingKeepsRows
<1> QED
  BY <1>2, <1>3 DEF GetByArn

(***************************************************************************)
(* The statements that write.                                              *)
(***************************************************************************)
LEMMA InsertingKeepsRows ==
  ASSUME RowInv, NEW c \in RowCalls, InsertRow(c)
  PROVE  RowInv'
<1> DEFINE call == rowCall[c]
           value == [label |-> call.label, on |-> TRUE]
<1>1. /\ call \in RowCallType /\ call.pc = "insert" /\ call.label \in Labels
      /\ call.family \subseteq RowIds
      /\ RowEnds(c) /\ attached' = attached /\ mingled' = mingled
  BY RowKinds, RowFields DEF InsertRow, RowAt, RowInv, RowTables, RowCalling, RowKnows
<1>2. PICK x \in RowIds \ drawnRows :
         /\ x \in Children => There(AccountOf[x])
         /\ row' = [row EXCEPT ![x] = value] /\ told' = [told EXCEPT ![x] = row'[x]]
         /\ drawnRows' = drawnRows \cup {x}
  BY <1>1 DEF InsertRow
<1>3. value \in RowValues /\ value # Gone
  BY <1>1, SavedAssumption DEF RowValues, Gone
<1> HIDE DEF call, value
<1>4. /\ row \in [RowIds -> RowValues] /\ told \in [RowIds -> RowValues]
      /\ drawnRows \subseteq RowIds /\ attached \subseteq AttachRoles \X Policies
      /\ row[x] = Gone /\ x \notin drawnRows /\ RowsWereDrawn /\ RowsAsTold
      /\ \A y \in Children : There(y) => There(AccountOf[y])
      /\ \A pair \in attached : There(pair[2])
  BY <1>2 DEF RowInv, RowTables, RowTypeOK, RowsWereDrawn
<1>5. /\ row'[x] = value /\ told'[x] = value
      /\ \A y \in RowIds \ {x} : row'[y] = row[y] /\ told'[y] = told[y]
      /\ row' \in [RowIds -> RowValues] /\ told' \in [RowIds -> RowValues]
  BY <1>2, <1>3, <1>4
<1>6. \A y \in Children : There(y)' => There(AccountOf[y])'
  BY <1>2, <1>3, <1>4, <1>5, RowKinds DEF There
<1>7. \A pair \in attached' : row'[pair[2]] # Gone
  BY <1>1, <1>3, <1>4, <1>5, RowKinds DEF There, Children
<1>8. RowsWereDrawn' /\ RowsAsTold'
  BY <1>1, <1>2, <1>4, <1>5 DEF RowsWereDrawn, RowsAsTold
<1>9. \A d \in RowCalls \ {c} : \A y \in Touched(rowCall[d]) \ mingled :
         There(y) => row'[y] = row[y]
  <2>1. \A d \in RowCalls : Touched(rowCall[d]) \subseteq RowIds
    BY TouchedAreRows DEF RowInv, RowTables
  <2> QED
    BY <1>4, <1>5, <2>1 DEF There
<1>10. drawnRows \subseteq drawnRows' /\ drawnRows' \subseteq RowIds /\ attached' \subseteq AttachRoles \X Policies
  BY <1>1, <1>2, <1>4
<1> QED
  BY <1>1, <1>5, <1>6, <1>7, <1>8, <1>9, <1>10, WritingKeepsRows

\* What a save does to the columns the request names, and to the others.
LEMMA ChangedIsTyped ==
  ASSUME NEW call \in RowCallType, NEW was \in RowValues, was # Gone
  PROVE  Changed(call, was) \in [label : Labels, on : BOOLEAN] /\ Changed(call, was) # Gone
<1>1. was \in [label : Labels, on : BOOLEAN] /\ call.label \in Labels \cup {"none"}
  BY RowFields DEF RowValues
<1> QED
  BY <1>1, SavedAssumption DEF Changed, Named, Switched, Gone

LEMMA SavingKeepsRows ==
  ASSUME RowInv, NEW c \in RowCalls, SaveRow(c)
  PROVE  RowInv'
<1> DEFINE call == rowCall[c]
           x == call.id
           written == Changed(call, call.seen)
           back == IF x \in Children /\ ~There(AccountOf[x]) THEN {AccountOf[x]} ELSE {}
<1>1. /\ call \in RowCallType /\ call.pc = "save" /\ RowKnows(call) /\ RowFresh(call)
      /\ RowEnds(c) /\ drawnRows' = drawnRows /\ attached' = attached /\ mingled' = mingled
      /\ row' = [y \in RowIds |->
                   IF y = x THEN IF There(y) THEN written ELSE Again(written)
                   ELSE IF y \in back THEN Again(call.account) ELSE row[y]]
      /\ told' = IF told[x] = Gone THEN told
                 ELSE [told EXCEPT ![x] =
                         [label |-> Named(call.label, @.label),
                          on |-> IF call.on = "keep" THEN @.on ELSE call.on = "on"]]
  BY DEF SaveRow, RowAt, RowInv, RowTables, RowCalling
<1>2. /\ row \in [RowIds -> RowValues] /\ told \in [RowIds -> RowValues]
      /\ drawnRows \subseteq RowIds /\ attached \subseteq AttachRoles \X Policies
      /\ RowsWereDrawn /\ RowsAsTold
      /\ \A y \in Children : There(y) => There(AccountOf[y])
      /\ \A pair \in attached : There(pair[2])
  BY DEF RowInv, RowTables, RowTypeOK
<1>3. /\ x \in drawnRows /\ x \in RowIds /\ call.seen # Gone /\ call.seen \in RowValues
      /\ x \in Children => /\ call.account # Gone /\ call.account \in RowValues
                           /\ AccountOf[x] \in drawnRows
      /\ x \notin mingled => call.seen = row[x]
      /\ x \in Children /\ AccountOf[x] \notin mingled => There(AccountOf[x])
  BY <1>1, <1>2, RowFields DEF RowKnows, RowFresh
<1>4. /\ written \in [label : Labels, on : BOOLEAN] /\ written # Gone
      /\ Again(written) \in [label : Labels, on : BOOLEAN] /\ Again(written) # Gone
      /\ x \in Children => /\ Again(call.account) \in [label : Labels, on : BOOLEAN]
                           /\ Again(call.account) # Gone
  <2>1. written \in [label : Labels, on : BOOLEAN] /\ written # Gone
    BY <1>1, <1>3, ChangedIsTyped
  <2>2. ASSUME NEW v \in [label : Labels, on : BOOLEAN]
        PROVE  Again(v) \in [label : Labels, on : BOOLEAN] /\ Again(v) # Gone
    BY SavedAssumption DEF Again, Gone
  <2>3. x \in Children => call.account \in [label : Labels, on : BOOLEAN]
    BY <1>3 DEF RowValues
  <2> QED
    BY <2>1, <2>2, <2>3
<1>5. /\ x \notin back /\ back \subseteq RowIds /\ back \cap Children = {} /\ back \subseteq mingled
      /\ \A y \in back : x \in Children /\ y = AccountOf[x] /\ row[y] = Gone
  BY <1>3, RowKinds DEF There
<1>6. /\ row'[x] # Gone /\ row'[x] \in RowValues
      /\ x \notin mingled => row'[x] = written
      /\ \A y \in back : row'[y] # Gone /\ row'[y] \in RowValues
      /\ \A y \in RowIds \ ({x} \cup back) : row'[y] = row[y]
      /\ DOMAIN row' = RowIds /\ row' = [y \in RowIds |-> row'[y]]
  BY <1>1, <1>2, <1>3, <1>4, <1>5 DEF There, RowValues
<1>7. row' \in [RowIds -> RowValues]
  <2>1. \A y \in RowIds : row'[y] \in RowValues
    BY <1>2, <1>6
  <2> QED
    BY <1>6, <2>1
<1>8. /\ \A y \in RowIds \ {x} : told'[y] = told[y]
      /\ told[x] # Gone => told'[x] = Changed(call, told[x])
      /\ told' \in [RowIds -> RowValues]
  <2>1. CASE told[x] = Gone
    BY <1>1, <1>2, <2>1
  <2>2. CASE told[x] # Gone
    <3>1. told[x] \in [label : Labels, on : BOOLEAN]
      BY <1>2, <1>3, <2>2 DEF RowValues
    <3>2. told' = [told EXCEPT ![x] = Changed(call, told[x])]
      BY <1>1, <2>2 DEF Changed, Switched
    <3>3. Changed(call, told[x]) \in RowValues
      BY <1>1, <1>2, <1>3, <2>2, ChangedIsTyped DEF RowValues
    <3> QED
      BY <1>2, <1>3, <2>2, <3>2, <3>3
  <2> QED
    BY <2>1, <2>2
<1> HIDE DEF call, x, written, back
<1>9. \A y \in Children : There(y)' => There(AccountOf[y])'
  <2>1. \A y \in RowIds : There(y) => There(y)'
    BY <1>6 DEF There
  <2>2. x \in Children => There(AccountOf[x]) \/ AccountOf[x] \in back
    BY DEF back
  <2>3. x \in Children => row'[AccountOf[x]] # Gone
    BY <1>6, <2>1, <2>2, RowKinds DEF There
  <2>4. \A y \in Children \ {x} : There(y)' => There(y)
    BY <1>5, <1>6, RowKinds DEF There
  <2> QED
    BY <1>2, <2>1, <2>3, <2>4, RowKinds DEF There
<1>10. \A pair \in attached' : row'[pair[2]] # Gone
  <2>1. \A y \in RowIds : row[y] # Gone => row'[y] # Gone
    BY <1>6
  <2> QED
    BY <1>1, <1>2, <2>1, RowKinds DEF There, Children
<1>11. RowsWereDrawn'
  <2>1. \A y \in back : y \in drawnRows
    BY <1>3, <1>5
  <2> QED
    BY <1>1, <1>2, <1>3, <1>6, <2>1 DEF RowsWereDrawn
<1>12. RowsAsTold'
  <2>1. x \notin mingled => row'[x] = told'[x]
    BY <1>2, <1>3, <1>6, <1>8 DEF RowsAsTold, written
  <2> QED
    BY <1>1, <1>2, <1>5, <1>6, <1>8, <2>1 DEF RowsAsTold
<1>13. \A d \in RowCalls \ {c} : \A y \in Touched(rowCall[d]) \ mingled :
         There(y) => row'[y] = row[y]
  <2>1. Touched(call) = IF x \in Children THEN {x, AccountOf[x]} ELSE {x}
    BY <1>1, <1>3, RowKinds DEF Touched, x
  <2>2. \A d \in RowCalls \ {c} : Touched(call) \cap Touched(rowCall[d]) \subseteq mingled
    BY DEF RowInv, OwnRows, call
  <2>3. \A d \in RowCalls : Touched(rowCall[d]) \subseteq RowIds
    BY TouchedAreRows DEF RowInv, RowTables
  <2> QED
    BY <1>5, <1>6, <2>1, <2>2, <2>3
<1> QED
  BY <1>1, <1>2, <1>7, <1>8, <1>9, <1>10, <1>11, <1>12, <1>13, WritingKeepsRows

LEMMA ErasingKeepsRows ==
  ASSUME RowInv, NEW c \in RowCalls, EraseRow(c)
  PROVE  RowInv'
<1> DEFINE call == rowCall[c]
<1>1. PICK x \in RowIds : x = call.id
  BY DEF EraseRow, RowAt, RowInv, RowCalling, RowKnows
<1>2. /\ call.pc = "erase" /\ There(x) /\ x \notin {0}
      /\ x \in Accounts => \A y \in IdpsOf(x) \cup PoliciesOf(x) : ~There(y)
      /\ row' = [row EXCEPT ![x] = Gone] /\ told' = [told EXCEPT ![x] = Gone]
      /\ attached' = {pair \in attached : pair[2] # x}
      /\ RowEnds(c) /\ drawnRows' = drawnRows /\ mingled' = mingled
  BY <1>1, RowKinds DEF EraseRow, RowAt
<1>3. /\ row \in [RowIds -> RowValues] /\ told \in [RowIds -> RowValues] /\ Gone \in RowValues
      /\ drawnRows \subseteq RowIds /\ attached \subseteq AttachRoles \X Policies
      /\ RowsWereDrawn /\ RowsAsTold
      /\ \A y \in Children : There(y) => There(AccountOf[y])
      /\ \A pair \in attached : There(pair[2])
  BY DEF RowInv, RowTables, RowTypeOK, RowValues
<1>4. /\ row'[x] = Gone /\ told'[x] = Gone
      /\ \A y \in RowIds \ {x} : row'[y] = row[y] /\ told'[y] = told[y]
      /\ row' \in [RowIds -> RowValues] /\ told' \in [RowIds -> RowValues]
  BY <1>2, <1>3
<1>5. \A y \in Children : There(y)' => There(AccountOf[y])'
  <2>1. ASSUME NEW y \in Children, There(y), AccountOf[y] = x PROVE FALSE
    BY <1>2, <2>1, RowKinds DEF Children, IdpsOf, PoliciesOf
  <2> QED
    BY <1>3, <1>4, <2>1, RowKinds DEF There
<1>6. \A pair \in attached' : row'[pair[2]] # Gone
  BY <1>2, <1>3, <1>4, RowKinds DEF There, Children
<1>7. RowsWereDrawn' /\ RowsAsTold'
  BY <1>2, <1>3, <1>4 DEF RowsWereDrawn, RowsAsTold
<1>8. \A d \in RowCalls \ {c} : \A y \in Touched(rowCall[d]) \ mingled :
         There(y) => row'[y] = row[y]
  <2>1. x \in Touched(call)
    BY <1>1, <1>2 DEF Touched
  <2>2. \A d \in RowCalls \ {c} : Touched(call) \cap Touched(rowCall[d]) \subseteq mingled
    BY DEF RowInv, OwnRows
  <2>3. \A d \in RowCalls : Touched(rowCall[d]) \subseteq RowIds
    BY TouchedAreRows DEF RowInv, RowTables
  <2> QED
    BY <1>4, <2>1, <2>2, <2>3
<1>9. attached' \subseteq AttachRoles \X Policies
  BY <1>2, <1>3
<1> QED
  BY <1>2, <1>3, <1>4, <1>5, <1>6, <1>7, <1>8, <1>9, WritingKeepsRows

LEMMA AttachmentsKeepRows ==
  ASSUME RowInv, NEW c \in RowCalls, InsertAttachment(c)
  PROVE  RowInv'
<1>1. /\ rowCall[c].role \in AttachRoles /\ rowCall[c].id \in Policies
      /\ There(rowCall[c].id) /\ RowEnds(c)
      /\ attached' = attached \cup {<<rowCall[c].role, rowCall[c].id>>}
      /\ row' = row /\ drawnRows' = drawnRows /\ told' = told /\ mingled' = mingled
  BY DEF InsertAttachment, RowAt, RowInv, RowCalling, RowKnows
<1>2. RowTypeOK /\ RowsWereDrawn /\ RowsAsTold
  BY DEF RowInv, RowTables
<1>3. attached' \subseteq AttachRoles \X Policies /\ \A pair \in attached' : row'[pair[2]] # Gone
  BY <1>1, <1>2 DEF RowTypeOK, There
<1>4. /\ \A x \in Children : There(x)' => There(AccountOf[x])'
      /\ row' \in [RowIds -> RowValues] /\ told' \in [RowIds -> RowValues] /\ drawnRows' \subseteq RowIds
  BY <1>1, <1>2 DEF RowTypeOK, There
<1>5. RowsWereDrawn' /\ RowsAsTold'
  BY <1>1, <1>2 DEF RowsWereDrawn, RowsAsTold
<1> QED
  BY <1>1, <1>3, <1>4, <1>5, WritingKeepsRows

LEMMA NoRowMoves ==
  ASSUME RowInv, UNCHANGED <<row, drawnRows, rowCall, told, mingled>>, attached' \subseteq attached
  PROVE  RowInv'
<1>1. RowTypeOK'
  BY DEF RowInv, RowTables, RowTypeOK, There
<1>2. RowCalling'
  BY DEF RowInv, RowCalling, RowKnows, RowFresh, There
<1>3. OwnRows' /\ RowsWereDrawn' /\ RowsAsTold'
  BY DEF RowInv, RowTables, OwnRows, Touched, RowsWereDrawn, RowsAsTold
<1> QED
  BY <1>1, <1>2, <1>3 DEF RowInv, RowTables

LEMMA CreateRowStepKeeps ==
  ASSUME RowInv, NEW c \in RowCalls, CreateRowStep(c)
  PROVE  RowInv'
<1>1. Accounts \in Families /\ Companies \in Families
      /\ \A a \in Accounts : IdpsOf(a) \in Families /\ PoliciesOf(a) \in Families
  BY DEF Families
<1>2. CASE InsertRow(c)
  BY <1>2, InsertingKeepsRows
<1>3. CASE \E label \in Labels, family \in Families : CreateRow(c, family, label)
  BY <1>3, CreatingKeepsRows
<1> QED
  BY <1>1, <1>2, <1>3 DEF CreateRowStep, CreateCspAccount, CreateCompany, CreateDefaultCompany,
     CreateCspIdpConfig, CreateCspPolicy

LEMMA ChangeRowStepKeeps ==
  ASSUME RowInv, NEW c \in RowCalls, ChangeRowStep(c)
  PROVE  RowInv'
<1>1. /\ Accounts \subseteq RowIds /\ Idps \subseteq RowIds /\ Policies \subseteq RowIds
      /\ Companies \subseteq RowIds /\ {"on", "off", "keep"} = Flags
  BY DEF RowIds, Children, Flags
<1>2. CASE \E x \in RowIds, label \in Labels \cup {"none"}, on \in Flags :
             UpdateRow(c, x, label, on)
  BY <1>2, UpdatingKeepsRows
<1>3. CASE \E a \in Accounts, arn \in Arns, label \in Labels :
             SyncPoliciesFromCloud(c, a, arn, label)
  BY <1>3, SyncingKeepsRows
<1>4. CASE ExistsByName(c) \/ GetByArn(c) \/ SaveRow(c)
  BY <1>4, CheckingKeepsRows, FindingKeepsRows, SavingKeepsRows
<1>5. CASE \E a \in Accounts :
             \/ \E label \in Labels \cup {"none"}, on \in Flags : UpdateCspAccount(c, a, label, on)
             \/ ActivateCspAccount(c, a) \/ DeactivateCspAccount(c, a)
  BY <1>1, <1>2, <1>5 DEF UpdateCspAccount, ActivateCspAccount, DeactivateCspAccount
<1>6. CASE \E i \in Idps :
             \/ \E label \in Labels \cup {"none"}, on \in Flags : UpdateCspIdpConfig(c, i, label, on)
             \/ ActivateIdpConfig(c, i) \/ DeactivateIdpConfig(c, i)
  BY <1>1, <1>2, <1>6 DEF UpdateCspIdpConfig, ActivateIdpConfig, DeactivateIdpConfig
<1>7. CASE \/ \E p \in Policies, label \in Labels \cup {"none"} : UpdateCspPolicy(c, p, label)
           \/ \E x \in Companies, on \in Flags : UpdateCompany(c, x, on)
  BY <1>1, <1>2, <1>7 DEF UpdateCspPolicy, UpdateCompany
<1> QED
  BY <1>3, <1>4, <1>5, <1>6, <1>7 DEF ChangeRowStep

LEMMA DeleteRowStepKeeps ==
  ASSUME RowInv, NEW c \in RowCalls, DeleteRowStep(c)
  PROVE  RowInv'
<1>1. Accounts \subseteq RowIds /\ Idps \subseteq RowIds /\ Policies \subseteq RowIds
  BY DEF RowIds, Children
<1>2. CASE EraseRow(c) \/ InsertAttachment(c)
  BY <1>2, ErasingKeepsRows, AttachmentsKeepRows
<1>3. CASE \E x \in RowIds : DeleteRow(c, x)
  BY <1>3, DeletingKeepsRows
<1>4. CASE \E role \in AttachRoles, p \in Policies : AttachPolicyToRole(c, role, p)
  BY <1>4, AttachingKeepsRows
<1> QED
  BY <1>1, <1>2, <1>3, <1>4 DEF DeleteRowStep, DeleteCspAccount, DeleteCspIdpConfig,
     DeleteCspPolicy

LEMMA RowInvStep == RowInv /\ [RowNext]_rowVars => RowInv'
<1> SUFFICES ASSUME RowInv, [RowNext]_rowVars PROVE RowInv'
  OBVIOUS
<1>1. ASSUME NEW c \in RowCalls,
             CreateRowStep(c) \/ ChangeRowStep(c) \/ DeleteRowStep(c) \/ RowCallStops(c)
      PROVE  RowInv'
  BY <1>1, CreateRowStepKeeps, ChangeRowStepKeeps, DeleteRowStepKeeps, StoppingKeepsRows
<1>2. ASSUME NEW role \in AttachRoles, NEW p \in Policies, DetachPolicyFromRole(role, p)
      PROVE  RowInv'
  BY <1>2, NoRowMoves DEF DetachPolicyFromRole
<1>3. ASSUME UNCHANGED rowVars PROVE RowInv'
  BY <1>3, NoRowMoves DEF rowVars
<1> QED
  BY <1>1, <1>2, <1>3 DEF RowNext

LEMMA RowInvariant == RowSpec => []RowInv
  BY RowInitially, RowInvStep, PTL DEF RowSpec

\* The rows keep their types and their ends (an IdP configuration or a policy has
\* its account, an attachment its policy), though a save brings deleted rows back.
THEOREM RowsKeepTypes == RowSpec => []RowTypeOK
<1>1. RowInv => RowTypeOK
  BY DEF RowInv, RowTables
<1> QED
  BY RowInvariant, <1>1, PTL

\* A row that no two requests worked on at once is as their answers said: db.Save
\* writes back every column, but those of the very row that was read.
THEOREM RowsStayAsTold == RowSpec => []RowsAsTold
<1>1. RowInv => RowsAsTold
  BY DEF RowInv
<1> QED
  BY RowInvariant, <1>1, PTL

------------------------------------------------------------------------------
(***************************************************************************)
(* All of it beside each other, as the run takes it.                       *)
(***************************************************************************)
CatalogueInv ==
    /\ MenuInv /\ CspInv /\ ApiInv /\ RowInv
    /\ CredInv /\ IssueTypeOK /\ IssueInv

LEMMA CatalogueInitially == CatalogueInit => CatalogueInv
  BY MenuInitially, CspInitially, ApiInitially, RowInitially, CredInitially, IssueInitially
  DEF CatalogueInit, CatalogueInv

LEMMA CatalogueInvStep == CatalogueInv /\ [CatalogueNext]_CatalogueVars => CatalogueInv'
<1> SUFFICES ASSUME CatalogueInv, [CatalogueNext]_CatalogueVars PROVE CatalogueInv'
  OBVIOUS
<1>1. /\ [MenuNext]_menuVars /\ [CspNext]_cspVars /\ [ApiNext]_apiVars
      /\ [RowNext]_rowVars /\ [CredNext]_credVars /\ [IssueNext]_issueVars
  BY DEF CatalogueNext, CatalogueVars
<1>2. MenuInv' /\ CspInv' /\ ApiInv' /\ RowInv'
  BY <1>1, MenusAreKept, CspInvStep, ApiInvStep, RowInvStep DEF CatalogueInv
<1>3. CredInv' /\ IssueTypeOK' /\ IssueInv'
  BY <1>1, CredTypeStep, CredStep, IssueInvStep DEF CatalogueInv, CredInv
<1> QED
  BY <1>2, <1>3 DEF CatalogueInv

\* Every table the administrators edit besides roles keeps its types, however the
\* handlers of menus, CSP roles, actions, permissions, rows and credentials overlap.
THEOREM CatalogueKeepsTypes == CatalogueSpec => []CatalogueTypeOK
<1>1. CatalogueInv => CatalogueTypeOK
  BY DEF CatalogueInv, CatalogueTypeOK, MenuInv, CspInv, ApiInv, ApiTables, RowInv, RowTables,
         CredInv
<1> QED
  BY CatalogueInitially, CatalogueInvStep, <1>1, PTL DEF CatalogueSpec

==============================================================================
