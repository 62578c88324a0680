-------------------------- MODULE WorkspaceProject --------------------------
(***************************************************************************)
(* Workspaces, projects, and which project is in which workspace:          *)
(* service/workspace_service.go and service/project_service.go over the    *)
(* tables mcmp_workspaces, mcmp_projects and mcmp_workspace_projects, and  *)
(* over the namespaces of mc-infra-manager, an external service, of which  *)
(* every project stands for one.                                           *)
(*                                                                         *)
(* The table of links allows a project any number of workspaces; that it   *)
(* has one is left to the handlers, which read, decide and write in        *)
(* separate statements.  A handler is a request with a program counter;    *)
(* Abort stands for an error that ends it, and for the death of the        *)
(* process.                                                                *)
(*                                                                         *)
(* A namespace goes by the name it was created with, and so does its       *)
(* project until it is renamed; mc-infra-manager has each name once.       *)
(***************************************************************************)
EXTENDS Naturals, FiniteSets

CONSTANTS
    Workspaces,  \* ids of mcmp_workspaces, numbers handed out in order
    Projects,    \* ids of mcmp_projects, handed out once
    Namespaces,  \* names of namespaces and of projects
    FirstNames,  \* the workspaces there are at first, and their names
    Requests,    \* bound: the requests that may be in progress at once
    Ops,         \* bound: the operations requests may ask for
    None         \* no id

AllOps == {"createWs", "renameWs", "deleteWs", "create", "rename", "delete",
           "assign", "connect", "release", "sync", "apply", "infra"}

ASSUME WorkspaceAssumption == Workspaces \subseteq Nat \ {0}
ASSUME NoneAssumption == None \notin Workspaces \cup Projects \cup Namespaces
ASSUME OpsAssumption == Ops \subseteq AllOps

VARIABLES
    wname,   \* name of every workspace, "unborn" or "deleted" without a row
    ns,      \* the namespace of every project that has or had a row
    pname,   \* and its name
    rows,    \* the projects that have a row
    links,   \* mcmp_workspace_projects
    infra,   \* the namespaces mc-infra-manager has
    req      \* the requests in progress

vars == <<wname, ns, pname, rows, links, infra, req>>

\* "default" is MC_IAM_MANAGER_DEFAULT_WORKSPACE_NAME.
WorkspaceNames == {"default", "other"}
ASSUME FirstAssumption ==
    FirstNames \in [Workspaces -> WorkspaceNames \cup {"unborn"}]

Steps == {"idle", "insertWs", "deleteWs", "target", "findDefault", "insertDefault",
          "postNs", "insert", "append", "delNs", "deleteRow", "check", "unlink",
          "link", "listLocal", "listAssigned", "nextNs", "appendNs"}

\* name, ws and prj are the name, workspace and project a request works on, todo
\* the projects or namespaces left to it, local and assigned what a
\* synchronisation read of the tables.
RequestType ==
    [op : AllOps \cup {"none"}, pc : Steps,
     name : WorkspaceNames \cup Namespaces \cup {None},
     ws : Workspaces \cup {None}, prj : Projects \cup {None},
     todo : SUBSET (Projects \cup Namespaces),
     local : SUBSET Projects, assigned : SUBSET Projects]

TypeOK ==
    /\ wname \in [Workspaces -> WorkspaceNames \cup {"", "unborn", "deleted"}]
    /\ ns \in [Projects -> Namespaces \cup {None}]
    /\ pname \in [Projects -> Namespaces \cup {None, ""}]
    /\ rows \subseteq Projects
    /\ links \subseteq Projects \X Workspaces
    /\ infra \subseteq Namespaces
    /\ req \in [Requests -> RequestType]

Idle == [op |-> "none", pc |-> "idle", name |-> None, ws |-> None, prj |-> None,
         todo |-> {}, local |-> {}, assigned |-> {}]

Exists(w) == wname[w] \notin {"unborn", "deleted"}
Named(name) == {w \in Workspaces : wname[w] = name}
HomesOf(p) == {w \in Workspaces : <<p, w>> \in links}
Linked == {p \in Projects : HomesOf(p) # {}}

Free(r, op) == req[r].pc = "idle" /\ op \in Ops
At(r, pc) == req[r].pc = pc
Begin(r, request) == req' = [req EXCEPT ![r] = request]
Request(op, pc) == [Idle EXCEPT !.op = op, !.pc = pc]
Goto(r, pc) == req' = [req EXCEPT ![r].pc = pc]
Finish(r) == req' = [req EXCEPT ![r] = Idle]

(***************************************************************************)
(* The statements that write.                                              *)
(***************************************************************************)
\* The name of a workspace is not a unique column.
InsertWorkspace(w, name) ==
    /\ wname[w] = "unborn"
    /\ \A v \in Workspaces : wname[v] = "unborn" => w <= v
    /\ wname' = [wname EXCEPT ![w] = name]

\* Neither are the namespace and the name of a project.
CreateProject(p, n) ==
    /\ ns[p] = None
    /\ ns' = [ns EXCEPT ![p] = n]
    /\ pname' = [pname EXCEPT ![p] = n]
    /\ rows' = rows \cup {p}

\* Association.Append saves the workspace too if it is not there (GORM inserts
\* it with the id alone), so a deleted workspace comes back without a name; a
\* foreign key asks for the project.
AddProjectWorkspaceAssociation(p, w) ==
    /\ p \in rows
    /\ wname' = IF Exists(w) THEN wname ELSE [wname EXCEPT ![w] = ""]
    /\ links' = links \cup {<<p, w>>}

(***************************************************************************)
(* Workspaces.                                                             *)
(***************************************************************************)
CreateWorkspace(r, name) ==
    /\ Free(r, "createWs")
    /\ Named(name) = {}
    /\ Begin(r, [Request("createWs", "insertWs") EXCEPT !.name = name])
    /\ UNCHANGED <<wname, ns, pname, rows, links, infra>>

InsertNewWorkspace(r) ==
    /\ At(r, "insertWs")
    /\ \E w \in Workspaces : InsertWorkspace(w, req[r].name)
    /\ Finish(r)
    /\ UNCHANGED <<ns, pname, rows, links, infra>>

\* UpdateWorkspace looks at no other workspace.
UpdateWorkspace(w, name) ==
    /\ "renameWs" \in Ops
    /\ Exists(w)
    /\ wname' = [wname EXCEPT ![w] = name]
    /\ UNCHANGED <<ns, pname, rows, links, infra, req>>

DeleteWorkspace(r, w) ==
    /\ Free(r, "deleteWs")
    /\ Exists(w)
    /\ \A p \in Projects : <<p, w>> \notin links
    /\ Begin(r, [Request("deleteWs", "deleteWs") EXCEPT !.ws = w])
    /\ UNCHANGED <<wname, ns, pname, rows, links, infra>>

\* Mutant: no foreign key; the check made before is relied on.
DeleteWorkspaceRowUnchecked(r) ==
    /\ At(r, "deleteWs")
    /\ wname' = [wname EXCEPT ![req[r].ws] = "deleted"]
    /\ Finish(r)
    /\ UNCHANGED <<ns, pname, rows, links, infra>>

\* A foreign key refuses to delete a workspace that has a project (or members).
DeleteWorkspaceRow(r) ==
    /\ At(r, "deleteWs")
    /\ Exists(req[r].ws)
    /\ \A p \in Projects : <<p, req[r].ws>> \notin links
    /\ wname' = [wname EXCEPT ![req[r].ws] = "deleted"]
    /\ Finish(r)
    /\ UNCHANGED <<ns, pname, rows, links, infra>>

(***************************************************************************)
(* A project is created: its name is free, its workspace there (the named  *)
(* one, or the default, which is created if need be); then the namespace,  *)
(* the row and the link.  Nothing is undone when a later step fails.       *)
(***************************************************************************)
Create(r, n, w) ==
    /\ Free(r, "create")
    /\ \A p \in rows : pname[p] # n
    /\ Begin(r, [Request("create", IF w = None THEN "findDefault" ELSE "target")
                   EXCEPT !.name = n, !.ws = w])
    /\ UNCHANGED <<wname, ns, pname, rows, links, infra>>

FindTarget(r) ==
    /\ At(r, "target")
    /\ Exists(req[r].ws)
    /\ Goto(r, "postNs")
    /\ UNCHANGED <<wname, ns, pname, rows, links, infra>>

AfterDefault(r) == IF req[r].op = "create" THEN "postNs" ELSE "nextNs"

FindDefault(r) ==
    /\ At(r, "findDefault")
    /\ \/ Named("default") = {} /\ Goto(r, "insertDefault")
       \/ \E w \in Named("default") :
            /\ \A v \in Named("default") : w <= v
            /\ req' = [req EXCEPT ![r].ws = w, ![r].pc = AfterDefault(r)]
    /\ UNCHANGED <<wname, ns, pname, rows, links, infra>>

InsertDefault(r) ==
    /\ At(r, "insertDefault")
    /\ \E w \in Workspaces :
         /\ InsertWorkspace(w, "default")
         /\ req' = [req EXCEPT ![r].ws = w, ![r].pc = AfterDefault(r)]
    /\ UNCHANGED <<ns, pname, rows, links, infra>>

PostNs(r) ==
    /\ At(r, "postNs")
    /\ req[r].name \notin infra
    /\ infra' = infra \cup {req[r].name}
    /\ Goto(r, "insert")
    /\ UNCHANGED <<wname, ns, pname, rows, links>>

InsertProject(r) ==
    /\ At(r, "insert")
    /\ \E p \in Projects :
         /\ CreateProject(p, req[r].name)
         /\ req' = [req EXCEPT ![r].prj = p, ![r].pc = "append"]
    /\ UNCHANGED <<wname, links, infra>>

LinkCreated(r) ==
    /\ At(r, "append")
    /\ AddProjectWorkspaceAssociation(req[r].prj, req[r].ws)
    /\ Finish(r)
    /\ UNCHANGED <<ns, pname, rows, infra>>

\* UpdateProject writes the name of the request, the empty one if it has none,
\* and looks at no other project; the namespace keeps its own.
UpdateProject(p, name) ==
    /\ "rename" \in Ops
    /\ p \in rows
    /\ pname' = [pname EXCEPT ![p] = name]
    /\ UNCHANGED <<wname, ns, rows, links, infra, req>>

(***************************************************************************)
(* A project is deleted: it is in no workspace; first the namespace, which *)
(* may be gone already (404), then the row.                                *)
(***************************************************************************)
DeleteProject(r, p) ==
    /\ Free(r, "delete")
    /\ p \in rows \ Linked
    /\ Begin(r, [Request("delete", "delNs") EXCEPT !.prj = p])
    /\ UNCHANGED <<wname, ns, pname, rows, links, infra>>

\* Mutant: a namespace that is gone is a failure.
DelNsThere(r) ==
    /\ At(r, "delNs")
    /\ ns[req[r].prj] \in infra
    /\ infra' = infra \ {ns[req[r].prj]}
    /\ Goto(r, "deleteRow")
    /\ UNCHANGED <<wname, ns, pname, rows, links>>

DelNs(r) ==
    /\ At(r, "delNs")
    /\ infra' = infra \ {ns[req[r].prj]}
    /\ Goto(r, "deleteRow")
    /\ UNCHANGED <<wname, ns, pname, rows, links>>

\* A foreign key refuses to delete a project that has a workspace.
DeleteProjectRow(r) ==
    /\ At(r, "deleteRow")
    /\ req[r].prj \in rows \ Linked
    /\ rows' = rows \ {req[r].prj}
    /\ pname' = [pname EXCEPT ![req[r].prj] = None]
    /\ Finish(r)
    /\ UNCHANGED <<wname, ns, links, infra>>

(***************************************************************************)
(* Projects are assigned to a workspace, one after the other: the project  *)
(* is looked up (a workspace that is not there passes the check), all its  *)
(* links are deleted, the new one is written.  The two routes differ: that *)
(* of the workspaces goes on to the next project, that of the projects     *)
(* answers an error after the first, whatever became of it.                *)
(***************************************************************************)
AssignOps == {"assign", "connect"}

AddProjectsToWorkspace(r, op, w, todo) ==
    /\ Free(r, op)
    /\ todo # {}
    /\ Begin(r, [Request(op, "check") EXCEPT !.ws = w, !.todo = todo])
    /\ UNCHANGED <<wname, ns, pname, rows, links, infra>>

AddProjectToWorkspace(r) ==
    /\ At(r, "check")
    /\ \E p \in req[r].todo \cap rows :
         req' = [req EXCEPT ![r].prj = p, ![r].todo = @ \ {p}, ![r].pc = "unlink"]
    /\ UNCHANGED <<wname, ns, pname, rows, links, infra>>

\* Mutant: the links to other workspaces are kept.
KeepOtherLinks(r) ==
    /\ At(r, "unlink")
    /\ links' = links \ {<<req[r].prj, req[r].ws>>}
    /\ Goto(r, "link")
    /\ UNCHANGED <<wname, ns, pname, rows, infra>>

DeleteLinks(r) ==
    /\ At(r, "unlink")
    /\ links' = links \ ({req[r].prj} \X Workspaces)
    /\ Goto(r, "link")
    /\ UNCHANGED <<wname, ns, pname, rows, infra>>

SaveLink(r) ==
    /\ At(r, "link")
    /\ req[r].prj \in rows /\ Exists(req[r].ws)
    /\ links' = links \cup {<<req[r].prj, req[r].ws>>}
    /\ IF req[r].op = "assign" /\ req[r].todo # {} THEN Goto(r, "check") ELSE Finish(r)
    /\ UNCHANGED <<wname, ns, pname, rows, infra>>

RemoveProjectFromWorkspace(w, p) ==
    /\ "release" \in Ops
    /\ links' = links \ {<<p, w>>}
    /\ UNCHANGED <<wname, ns, pname, rows, infra, req>>

(***************************************************************************)
(* Synchronisation: the namespaces, the projects and the links are listed; *)
(* then, for each namespace (of those asked for), a project is created if  *)
(* the list has none, and is given a workspace if the list shows none.     *)
(* The lists are not read again; an error skips to the next namespace.     *)
(***************************************************************************)
SyncOps == {"sync", "apply"}

SyncProjectsWithInfraManager(r) ==
    /\ Free(r, "sync")
    /\ infra # {}
    /\ Begin(r, [Request("sync", "listLocal") EXCEPT !.todo = infra])
    /\ UNCHANGED <<wname, ns, pname, rows, links, infra>>

ApplyProjectSyncToWorkspace(r, w, wanted) ==
    /\ Free(r, "apply")
    /\ Exists(w)
    /\ Begin(r, [Request("apply", "listLocal") EXCEPT !.ws = w, !.todo = wanted \cap infra])
    /\ UNCHANGED <<wname, ns, pname, rows, links, infra>>

ListLocal(r) ==
    /\ At(r, "listLocal")
    /\ req' = [req EXCEPT ![r].local = rows, ![r].pc = "listAssigned"]
    /\ UNCHANGED <<wname, ns, pname, rows, links, infra>>

ListAssigned(r) ==
    /\ At(r, "listAssigned")
    /\ req' = [req EXCEPT ![r].assigned = Linked,
                          ![r].pc = IF req[r].op = "sync" THEN "findDefault" ELSE "nextNs"]
    /\ UNCHANGED <<wname, ns, pname, rows, links, infra>>

LocalProjects(r, n) == {p \in req[r].local : ns[p] = n}

\* Mutant: only a project in a workspace counts as there.
CreateUnassigned(r, n) ==
    /\ LocalProjects(r, n) \cap req[r].assigned = {}
    /\ \E p \in Projects :
         /\ CreateProject(p, n)
         /\ req' = [req EXCEPT ![r].prj = p, ![r].todo = @ \ {n}, ![r].pc = "appendNs"]
    /\ UNCHANGED <<wname, links, infra>>

CreateMissing(r, n) ==
    /\ LocalProjects(r, n) = {}
    /\ \E p \in Projects :
         /\ CreateProject(p, n)
         /\ req' = [req EXCEPT ![r].prj = p, ![r].todo = @ \ {n}, ![r].pc = "appendNs"]
    /\ UNCHANGED <<wname, links, infra>>

\* Mutant: a project that is there is left alone.
LeaveExisting(r, n) ==
    /\ LocalProjects(r, n) # {}
    /\ req' = [req EXCEPT ![r].todo = @ \ {n}]
    /\ UNCHANGED <<wname, ns, pname, rows, links, infra>>

TakeExisting(r, n) ==
    /\ \E p \in LocalProjects(r, n) :
         req' = [req EXCEPT ![r].prj = p, ![r].todo = @ \ {n},
                            ![r].pc = IF p \in req[r].assigned THEN "nextNs" ELSE "appendNs"]
    /\ UNCHANGED <<wname, ns, pname, rows, links, infra>>

CreateMissingFails(r, n) ==
    /\ LocalProjects(r, n) = {}
    /\ req' = [req EXCEPT ![r].todo = @ \ {n}]
    /\ UNCHANGED <<wname, ns, pname, rows, links, infra>>

AssignSynced(r) ==
    /\ At(r, "appendNs")
    /\ AddProjectWorkspaceAssociation(req[r].prj, req[r].ws)
    /\ req' = [req EXCEPT ![r].pc = "nextNs", ![r].assigned = @ \cup {req[r].prj}]
    /\ UNCHANGED <<ns, pname, rows, infra>>

AssignSyncedFails(r) ==
    /\ At(r, "appendNs")
    /\ Goto(r, "nextNs")
    /\ UNCHANGED <<wname, ns, pname, rows, links, infra>>

EndSync(r) ==
    /\ At(r, "nextNs")
    /\ req[r].todo = {}
    /\ Finish(r)
    /\ UNCHANGED <<wname, ns, pname, rows, links, infra>>

Abort(r) ==
    /\ req[r].pc # "idle"
    /\ Finish(r)
    /\ UNCHANGED <<wname, ns, pname, rows, links, infra>>

\* Others use mc-infra-manager too.
InfraManagerChanges(n) ==
    /\ "infra" \in Ops
    /\ infra' = IF n \in infra THEN infra \ {n} ELSE infra \cup {n}
    /\ UNCHANGED <<wname, ns, pname, rows, links, req>>

(***************************************************************************)
(* The specification.                                                      *)
(***************************************************************************)
Init ==
    /\ wname = FirstNames
    /\ ns = [p \in Projects |-> None] /\ pname = ns
    /\ rows = {} /\ links = {} /\ infra = {}
    /\ req = [r \in Requests |-> Idle]

WorkspaceStep(r) ==
    \/ \E name \in WorkspaceNames : CreateWorkspace(r, name)
    \/ \E w \in Workspaces : DeleteWorkspace(r, w)
    \/ InsertNewWorkspace(r) \/ DeleteWorkspaceRow(r)

ProjectStep(r) ==
    \/ \E n \in Namespaces, w \in Workspaces \cup {None} : Create(r, n, w)
    \/ FindTarget(r) \/ FindDefault(r) \/ InsertDefault(r)
    \/ PostNs(r) \/ InsertProject(r) \/ LinkCreated(r)
    \/ \E p \in Projects : DeleteProject(r, p)
    \/ DelNs(r) \/ DeleteProjectRow(r)

LinkStep(r) ==
    \/ \E op \in AssignOps, w \in Workspaces, todo \in SUBSET Projects :
         AddProjectsToWorkspace(r, op, w, todo)
    \/ AddProjectToWorkspace(r) \/ DeleteLinks(r) \/ SaveLink(r)

NextNs(r) ==
    /\ At(r, "nextNs")
    /\ \E n \in req[r].todo : CreateMissing(r, n) \/ TakeExisting(r, n)

NextNsFails(r) ==
    /\ At(r, "nextNs")
    /\ \E n \in req[r].todo : CreateMissingFails(r, n)

SyncStep(r) ==
    \/ SyncProjectsWithInfraManager(r)
    \/ \E w \in Workspaces, wanted \in SUBSET Namespaces : ApplyProjectSyncToWorkspace(r, w, wanted)
    \/ ListLocal(r) \/ ListAssigned(r) \/ NextNs(r) \/ NextNsFails(r)
    \/ AssignSynced(r) \/ AssignSyncedFails(r) \/ EndSync(r)

Next ==
    \/ \E r \in Requests :
         WorkspaceStep(r) \/ ProjectStep(r) \/ LinkStep(r) \/ SyncStep(r) \/ Abort(r)
    \/ \E w \in Workspaces, name \in WorkspaceNames : UpdateWorkspace(w, name)
    \/ \E p \in Projects, name \in Namespaces \cup {""} : UpdateProject(p, name)
    \/ \E w \in Workspaces, p \in Projects : RemoveProjectFromWorkspace(w, p)
    \/ \E n \in Namespaces : InfraManagerChanges(n)

Spec == Init /\ [][Next]_vars

(***************************************************************************)
(* Fairness: a request goes on; an administrator synchronises again and    *)
(* again, and deletes again a project whose namespace is gone; from some    *)
(* time on no call fails that could succeed.                               *)
(***************************************************************************)
Continue(r) ==
    \/ InsertNewWorkspace(r) \/ DeleteWorkspaceRow(r)
    \/ FindTarget(r) \/ FindDefault(r) \/ InsertDefault(r)
    \/ PostNs(r) \/ InsertProject(r) \/ LinkCreated(r)
    \/ DelNs(r) \/ DeleteProjectRow(r)
    \/ AddProjectToWorkspace(r) \/ DeleteLinks(r) \/ SaveLink(r)
    \/ ListLocal(r) \/ ListAssigned(r) \/ NextNs(r) \/ AssignSynced(r) \/ EndSync(r)
Fail(r) == NextNsFails(r) \/ AssignSyncedFails(r) \/ Abort(r)
NeedlessFailure(r) == Fail(r) /\ ~Continue(r) /\ ENABLED Continue(r)

FairSpec ==
    /\ Spec
    /\ \A r \in Requests : WF_vars(Continue(r) \/ Fail(r))
    /\ SF_vars(\E r \in Requests : SyncProjectsWithInfraManager(r))
    /\ \A p \in Projects :
         SF_vars(\E r \in Requests : DeleteProject(r, p) /\ ns[p] \notin infra)
    /\ <>[][\A r \in Requests : ~NeedlessFailure(r)]_vars

(***************************************************************************)
(* Safety.                                                                 *)
(***************************************************************************)
\* A project is in one workspace at most (workspace_repository.go,
\* AddProjectAssociation), though the table would hold more.
OneHome == \A p \in Projects : Cardinality(HomesOf(p)) <= 1

\* A namespace has one project at most: neither a creation nor a
\* synchronisation adds what is there (project_service.go, Create and
\* SyncProjectsWithInfraManager).
OneProjectPerNamespace == \A p, q \in rows : ns[p] = ns[q] => p = q

\* A link has its project and its workspace, however assignments,
\* synchronisations and deletions interleave.
LinksHaveEnds == \A p \in Projects, w \in Workspaces :
                    <<p, w>> \in links => p \in rows /\ Exists(w)

(***************************************************************************)
(* Liveness.                                                               *)
(***************************************************************************)
Homed(n) == \E p \in rows \cap Linked : ns[p] = n

\* There is neither a project of the namespace nor an id for one.
Stranded(n) == \A p \in Projects : ns[p] # None /\ ~(p \in rows /\ ns[p] = n)

\* Synchronisation repairs what creations and deletions left half done: a
\* namespace that stays gets its project, and that its workspace.
EveryNamespaceIsHomed ==
    \A n \in Namespaces : n \in infra ~> n \notin infra \/ Homed(n) \/ Stranded(n)

\* A deletion that failed after the namespace was gone is completed by a later
\* attempt, unless the project is given a workspace (DeleteProject: a 404 is
\* taken for success).
DeletionCompletes ==
    \A p \in Projects :
        p \in rows /\ ns[p] \notin infra ~>
            p \notin rows \/ p \in Linked \/ ns[p] \in infra
=============================================================================
