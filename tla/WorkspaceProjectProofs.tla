----------------------- MODULE WorkspaceProjectProofs -----------------------
(***************************************************************************)
(* For any number of workspaces, projects, namespaces and overlapping      *)
(* requests: the types of WorkspaceProject and that no link is left        *)
(* without its project or its workspace.  For requests one at a time: a    *)
(* project is in one workspace, and a namespace has one project, at most.  *)
(***************************************************************************)
EXTENDS WorkspaceProject, FiniteSetTheorems, TLAPS

StoresOK ==
    /\ wname \in [Workspaces -> WorkspaceNames \cup {"", "unborn", "deleted"}]
    /\ ns \in [Projects -> Namespaces \cup {None}]
    /\ pname \in [Projects -> Namespaces \cup {None, ""}]
    /\ rows \subseteq Projects
    /\ links \subseteq Projects \X Workspaces
    /\ infra \subseteq Namespaces

\* What a request has filled in when it comes to a step that uses it.
Carries(q) ==
    /\ q.pc = "insertWs" => q.name \in WorkspaceNames
    /\ q.pc \in {"target", "postNs", "insert"} => q.op = "create" /\ q.name \in Namespaces
    /\ q.pc \in {"findDefault", "insertDefault"} =>
          \/ q.op = "create" /\ q.name \in Namespaces
          \/ q.op = "sync"
    /\ q.pc \in {"delNs", "check", "unlink", "link"} => q.op \notin SyncOps \cup {"create"}
    /\ q.pc \in {"listLocal", "listAssigned", "nextNs", "appendNs"} => q.op \in SyncOps
    /\ q.pc \in {"deleteWs", "target", "postNs", "insert", "append", "check", "unlink",
                 "link", "nextNs", "appendNs"} => q.ws \in Workspaces
    /\ q.pc \in {"append", "delNs", "deleteRow", "unlink", "link", "appendNs"} =>
          q.prj \in Projects
    /\ q.op \in SyncOps => q.todo \subseteq Namespaces
    /\ q.op = "apply" => q.ws \in Workspaces

RequestsOK ==
    /\ req \in [Requests -> RequestType]
    /\ \A r \in Requests : Carries(req[r])

IInv == StoresOK /\ RequestsOK /\ LinksHaveEnds

LEMMA InitIInv == Init => IInv
<1> SUFFICES ASSUME Init PROVE IInv
  OBVIOUS
<1>1. StoresOK /\ LinksHaveEnds
  BY FirstAssumption DEF Init, StoresOK, LinksHaveEnds, WorkspaceNames
<1>2. Idle \in RequestType /\ Carries(Idle)
  BY DEF Idle, RequestType, Carries, AllOps, Steps, SyncOps
<1>3. RequestsOK
  BY <1>2 DEF Init, RequestsOK
<1> QED  BY <1>1, <1>3 DEF IInv

(***************************************************************************)
(* A step moves one request to a record q; a step that leaves the stores   *)
(* alone has nothing else to show.                                         *)
(***************************************************************************)
LEMMA RequestStep ==
  ASSUME RequestsOK, NEW r \in Requests, NEW q \in RequestType, Carries(q),
         req' = [req EXCEPT ![r] = q]
  PROVE  RequestsOK'
  BY DEF RequestsOK

LEMMA QuietStep ==
  ASSUME IInv, NEW r \in Requests, NEW q \in RequestType, Carries(q),
         req' = [req EXCEPT ![r] = q], UNCHANGED <<wname, ns, pname, rows, links, infra>>
  PROVE  IInv'
<1>1. RequestsOK'
  BY RequestStep DEF IInv
<1>2. StoresOK' /\ LinksHaveEnds'
  BY DEF IInv, StoresOK, LinksHaveEnds, Exists
<1> QED  BY <1>1, <1>2 DEF IInv

LEMMA FinishStep ==
  ASSUME RequestsOK, NEW r \in Requests, Finish(r)
  PROVE  RequestsOK'
<1>1. Idle \in RequestType /\ Carries(Idle)
  BY DEF Idle, RequestType, Carries, AllOps, Steps, SyncOps
<1> QED  BY <1>1, RequestStep DEF Finish

LEMMA QuietFinish ==
  ASSUME IInv, NEW r \in Requests, Finish(r), UNCHANGED <<wname, ns, pname, rows, links, infra>>
  PROVE  IInv'
<1>1. RequestsOK'
  BY FinishStep DEF IInv
<1>2. StoresOK' /\ LinksHaveEnds'
  BY DEF IInv, StoresOK, LinksHaveEnds, Exists
<1> QED  BY <1>1, <1>2 DEF IInv

(***************************************************************************)
(* The statements that write.                                              *)
(***************************************************************************)
LEMMA InsertWorkspaceOK ==
  ASSUME StoresOK, LinksHaveEnds, NEW w \in Workspaces, NEW name \in WorkspaceNames,
         InsertWorkspace(w, name), UNCHANGED <<ns, pname, rows, links, infra>>
  PROVE  StoresOK' /\ LinksHaveEnds'
  BY DEF InsertWorkspace, StoresOK, LinksHaveEnds, Exists, WorkspaceNames

LEMMA CreateProjectOK ==
  ASSUME StoresOK, LinksHaveEnds, NEW p \in Projects, NEW n \in Namespaces,
         CreateProject(p, n), UNCHANGED <<wname, links, infra>>
  PROVE  StoresOK' /\ LinksHaveEnds'
  BY DEF CreateProject, StoresOK, LinksHaveEnds, Exists

LEMMA AssociationOK ==
  ASSUME StoresOK, LinksHaveEnds, NEW p \in Projects, NEW w \in Workspaces,
         AddProjectWorkspaceAssociation(p, w), UNCHANGED <<ns, pname, rows, infra>>
  PROVE  StoresOK' /\ LinksHaveEnds'
<1>1. wname' \in [Workspaces -> WorkspaceNames \cup {"", "unborn", "deleted"}]
  BY DEF AddProjectWorkspaceAssociation, StoresOK
<1>2. /\ \A v \in Workspaces : wname[v] \notin {"unborn", "deleted"} =>
                                wname'[v] \notin {"unborn", "deleted"}
      /\ wname'[w] \notin {"unborn", "deleted"}
  BY DEF AddProjectWorkspaceAssociation, StoresOK, Exists
<1>3. links' = links \cup {<<p, w>>} /\ p \in rows
  BY DEF AddProjectWorkspaceAssociation
<1>4. StoresOK'
  <2>1. <<p, w>> \in Projects \X Workspaces
    OBVIOUS
  <2>2. links' \subseteq Projects \X Workspaces
    BY <1>3, <2>1 DEF StoresOK
  <2> QED  BY <1>1, <2>2 DEF StoresOK
<1>5. ASSUME NEW x \in Projects, NEW v \in Workspaces, <<x, v>> \in links'
      PROVE  x \in rows' /\ wname'[v] \notin {"unborn", "deleted"}
  <2>1. x \in rows /\ (v = w \/ wname[v] \notin {"unborn", "deleted"})
    BY <1>3, <1>5 DEF LinksHaveEnds, Exists
  <2> QED  BY <1>2, <2>1
<1>6. LinksHaveEnds'
  BY <1>5 DEF LinksHaveEnds, Exists
<1> QED  BY <1>4, <1>6

LEMMA WorkspacePreserves ==
  ASSUME IInv, NEW r \in Requests, WorkspaceStep(r)
  PROVE  IInv'
<1> USE DEF IInv
<1>1. ASSUME NEW name \in WorkspaceNames, CreateWorkspace(r, name) PROVE IInv'
  <2> DEFINE q == [Request("createWs", "insertWs") EXCEPT !.name = name]
  <2>1. q \in RequestType /\ Carries(q)
    BY DEF Request, Idle, RequestType, Carries, AllOps, Steps, SyncOps
  <2>2. req' = [req EXCEPT ![r] = q] /\ UNCHANGED <<wname, ns, pname, rows, links, infra>>
    BY <1>1 DEF CreateWorkspace, Begin
  <2> QED  BY <2>1, <2>2, QuietStep
<1>2. ASSUME NEW w \in Workspaces, DeleteWorkspace(r, w) PROVE IInv'
  <2> DEFINE q == [Request("deleteWs", "deleteWs") EXCEPT !.ws = w]
  <2>1. q \in RequestType /\ Carries(q)
    BY DEF Request, Idle, RequestType, Carries, AllOps, Steps, SyncOps
  <2>2. req' = [req EXCEPT ![r] = q] /\ UNCHANGED <<wname, ns, pname, rows, links, infra>>
    BY <1>2 DEF DeleteWorkspace, Begin
  <2> QED  BY <2>1, <2>2, QuietStep
<1>3. CASE InsertNewWorkspace(r)
  <2>1. req[r].name \in WorkspaceNames
    BY <1>3 DEF InsertNewWorkspace, At, RequestsOK, Carries
  <2>2. StoresOK' /\ LinksHaveEnds'
    BY <1>3, <2>1, InsertWorkspaceOK DEF InsertNewWorkspace
  <2> QED  BY <1>3, <2>2, FinishStep DEF InsertNewWorkspace
<1>4. CASE DeleteWorkspaceRow(r)
  <2>1. StoresOK' /\ LinksHaveEnds'
    BY <1>4 DEF DeleteWorkspaceRow, StoresOK, LinksHaveEnds, Exists
  <2> QED  BY <1>4, <2>1, FinishStep DEF DeleteWorkspaceRow
<1> QED  BY <1>1, <1>2, <1>3, <1>4 DEF WorkspaceStep

LEMMA ProjectPreserves ==
  ASSUME IInv, NEW r \in Requests, ProjectStep(r)
  PROVE  IInv'
<1> USE DEF IInv
<1>0. req \in [Requests -> RequestType] /\ req[r] \in RequestType /\ Carries(req[r])
  BY DEF RequestsOK
<1>1. ASSUME NEW n \in Namespaces, NEW w \in Workspaces \cup {None}, Create(r, n, w) PROVE IInv'
  <2> DEFINE q == [Request("create", IF w = None THEN "findDefault" ELSE "target")
                    EXCEPT !.name = n, !.ws = w]
  <2>1. q \in RequestType /\ Carries(q)
    BY DEF Request, Idle, RequestType, Carries, AllOps, Steps, SyncOps
  <2>2. req' = [req EXCEPT ![r] = q] /\ UNCHANGED <<wname, ns, pname, rows, links, infra>>
    BY <1>1 DEF Create, Begin
  <2> QED  BY <2>1, <2>2, QuietStep
<1>2. CASE FindTarget(r)
  <2> DEFINE q == [req[r] EXCEPT !.pc = "postNs"]
  <2>1. q \in RequestType /\ Carries(q)
    BY <1>2 DEF FindTarget, At, RequestsOK, RequestType, Carries, AllOps, Steps, SyncOps
  <2>2. req' = [req EXCEPT ![r] = q] /\ UNCHANGED <<wname, ns, pname, rows, links, infra>>
    BY <1>2 DEF FindTarget, Goto
  <2> QED  BY <2>1, <2>2, QuietStep
<1>3. CASE FindDefault(r)
  <2>1. CASE Goto(r, "insertDefault")
    <3> DEFINE q == [req[r] EXCEPT !.pc = "insertDefault"]
    <3>1. q \in RequestType /\ Carries(q)
      BY <1>0, <1>3 DEF FindDefault, At, RequestType, Carries, Steps, SyncOps
    <3>2. req' = [req EXCEPT ![r] = q] /\ UNCHANGED <<wname, ns, pname, rows, links, infra>>
      BY <1>3, <2>1 DEF FindDefault, Goto
    <3> QED  BY <3>1, <3>2, QuietStep
  <2>2. ASSUME NEW w \in Named("default"),
               req' = [req EXCEPT ![r].ws = w, ![r].pc = AfterDefault(r)]
        PROVE  IInv'
    <3> DEFINE q == [req[r] EXCEPT !.ws = w, !.pc = AfterDefault(r)]
    <3>1. w \in Workspaces
      BY DEF Named
    <3>2. q \in RequestType /\ Carries(q)
      BY <1>0, <1>3, <3>1 DEF FindDefault, At, AfterDefault, RequestType, Carries, Steps, SyncOps
    <3>3. req' = [req EXCEPT ![r] = q] /\ UNCHANGED <<wname, ns, pname, rows, links, infra>>
      BY <1>3, <2>2 DEF FindDefault
    <3> QED  BY <3>2, <3>3, QuietStep
  <2> QED  BY <1>3, <2>1, <2>2 DEF FindDefault
<1>4. CASE InsertDefault(r)
  <2> PICK w \in Workspaces :
        /\ InsertWorkspace(w, "default")
        /\ req' = [req EXCEPT ![r].ws = w, ![r].pc = AfterDefault(r)]
    BY <1>4 DEF InsertDefault
  <2> DEFINE q == [req[r] EXCEPT !.ws = w, !.pc = AfterDefault(r)]
  <2>1. q \in RequestType /\ Carries(q)
    BY <1>0, <1>4 DEF InsertDefault, At, AfterDefault, RequestType, Carries, Steps, SyncOps
  <2>2. RequestsOK'
    BY <2>1, RequestStep
  <2>3. StoresOK' /\ LinksHaveEnds'
    BY <1>4, InsertWorkspaceOK DEF InsertDefault, WorkspaceNames
  <2> QED  BY <2>2, <2>3
<1>5. CASE PostNs(r)
  <2> DEFINE q == [req[r] EXCEPT !.pc = "insert"]
  <2>1. q \in RequestType /\ Carries(q)
    BY <1>5 DEF PostNs, At, RequestsOK, RequestType, Carries, AllOps, Steps, SyncOps
  <2>2. RequestsOK'
    BY <1>5, <2>1, RequestStep DEF PostNs, Goto
  <2>3. StoresOK' /\ LinksHaveEnds'
    BY <1>0, <1>5 DEF PostNs, At, Carries, StoresOK, LinksHaveEnds, Exists
  <2> QED  BY <2>2, <2>3
<1>6. CASE InsertProject(r)
  <2> PICK p \in Projects :
        /\ CreateProject(p, req[r].name)
        /\ req' = [req EXCEPT ![r].prj = p, ![r].pc = "append"]
    BY <1>6 DEF InsertProject
  <2> DEFINE q == [req[r] EXCEPT !.prj = p, !.pc = "append"]
  <2>1. q \in RequestType /\ Carries(q)
    BY <1>0, <1>6 DEF InsertProject, At, RequestType, Carries, Steps, SyncOps
  <2>2. RequestsOK'
    BY <2>1, RequestStep
  <2>3. StoresOK' /\ LinksHaveEnds'
    BY <1>0, <1>6, CreateProjectOK DEF InsertProject, At, Carries
  <2> QED  BY <2>2, <2>3
<1>7. CASE LinkCreated(r)
  <2>1. req[r].prj \in Projects /\ req[r].ws \in Workspaces
    BY <1>0, <1>7 DEF LinkCreated, At, Carries
  <2>2. StoresOK' /\ LinksHaveEnds'
    BY <1>7, <2>1, AssociationOK DEF LinkCreated
  <2> QED  BY <1>7, <2>2, FinishStep DEF LinkCreated
<1>8. ASSUME NEW p \in Projects, DeleteProject(r, p) PROVE IInv'
  <2> DEFINE q == [Request("delete", "delNs") EXCEPT !.prj = p]
  <2>1. q \in RequestType /\ Carries(q)
    BY DEF Request, Idle, RequestType, Carries, AllOps, Steps, SyncOps
  <2>2. req' = [req EXCEPT ![r] = q] /\ UNCHANGED <<wname, ns, pname, rows, links, infra>>
    BY <1>8 DEF DeleteProject, Begin
  <2> QED  BY <2>1, <2>2, QuietStep
<1>9. CASE DelNs(r)
  <2> DEFINE q == [req[r] EXCEPT !.pc = "deleteRow"]
  <2>1. q \in RequestType /\ Carries(q)
    BY <1>9 DEF DelNs, At, RequestsOK, RequestType, Carries, AllOps, Steps, SyncOps
  <2>2. RequestsOK'
    BY <1>9, <2>1, RequestStep DEF DelNs, Goto
  <2>3. StoresOK' /\ LinksHaveEnds'
    BY <1>9 DEF DelNs, StoresOK, LinksHaveEnds, Exists
  <2> QED  BY <2>2, <2>3
<1>10. CASE DeleteProjectRow(r)
  <2>1. /\ rows' = rows \ {req[r].prj} /\ pname' = [pname EXCEPT ![req[r].prj] = None]
        /\ UNCHANGED <<wname, ns, links, infra>>
    BY <1>10 DEF DeleteProjectRow
  <2>2. \A w \in Workspaces : <<req[r].prj, w>> \notin links
    BY <1>10 DEF DeleteProjectRow, Linked, HomesOf, StoresOK
  <2>3. StoresOK' /\ LinksHaveEnds'
    BY <2>1, <2>2 DEF StoresOK, LinksHaveEnds, Exists
  <2> QED  BY <1>10, <2>3, FinishStep DEF DeleteProjectRow
<1> QED
  BY <1>1, <1>2, <1>3, <1>4, <1>5, <1>6, <1>7, <1>8, <1>9, <1>10 DEF ProjectStep

LEMMA LinkPreserves ==
  ASSUME IInv, NEW r \in Requests, LinkStep(r)
  PROVE  IInv'
<1> USE DEF IInv
<1>0. req \in [Requests -> RequestType] /\ req[r] \in RequestType /\ Carries(req[r])
  BY DEF RequestsOK
<1>1. ASSUME NEW op \in AssignOps, NEW w \in Workspaces, NEW todo \in SUBSET Projects,
             AddProjectsToWorkspace(r, op, w, todo)
      PROVE IInv'
  <2> DEFINE q == [Request(op, "check") EXCEPT !.ws = w, !.todo = todo]
  <2>1. q \in RequestType /\ Carries(q)
    BY DEF AssignOps, Request, Idle, RequestType, Carries, AllOps, Steps, SyncOps
  <2>2. req' = [req EXCEPT ![r] = q] /\ UNCHANGED <<wname, ns, pname, rows, links, infra>>
    BY <1>1 DEF AddProjectsToWorkspace, Begin
  <2> QED  BY <2>1, <2>2, QuietStep
<1>2. CASE AddProjectToWorkspace(r)
  <2> PICK p \in req[r].todo \cap rows :
        req' = [req EXCEPT ![r].prj = p, ![r].todo = @ \ {p}, ![r].pc = "unlink"]
    BY <1>2 DEF AddProjectToWorkspace
  <2> DEFINE q == [req[r] EXCEPT !.prj = p, !.todo = @ \ {p}, !.pc = "unlink"]
  <2>1. q \in RequestType /\ Carries(q)
    BY <1>0, <1>2 DEF AddProjectToWorkspace, At, StoresOK, RequestType, Carries, Steps, SyncOps
  <2>2. req' = [req EXCEPT ![r] = q] /\ UNCHANGED <<wname, ns, pname, rows, links, infra>>
    BY <1>0, <1>2 DEF AddProjectToWorkspace
  <2> QED  BY <2>1, <2>2, QuietStep
<1>3. CASE DeleteLinks(r)
  <2> DEFINE q == [req[r] EXCEPT !.pc = "link"]
  <2>1. q \in RequestType /\ Carries(q)
    BY <1>3 DEF DeleteLinks, At, RequestsOK, RequestType, Carries, AllOps, Steps, SyncOps
  <2>2. RequestsOK'
    BY <1>3, <2>1, RequestStep DEF DeleteLinks, Goto
  <2>3. StoresOK' /\ LinksHaveEnds'
    BY <1>3 DEF DeleteLinks, StoresOK, LinksHaveEnds, Exists
  <2> QED  BY <2>2, <2>3
<1>4. CASE SaveLink(r)
  <2> DEFINE p == req[r].prj
             w == req[r].ws
  <2>1. /\ p \in Projects /\ w \in Workspaces /\ p \in rows /\ Exists(w)
        /\ links' = links \cup {<<p, w>>} /\ UNCHANGED <<wname, ns, pname, rows, infra>>
    BY <1>0, <1>4 DEF SaveLink, At, Carries
  <2>2. StoresOK'
    <3>1. <<p, w>> \in Projects \X Workspaces
      BY <2>1
    <3> QED  BY <2>1, <3>1 DEF StoresOK
  <2>3. LinksHaveEnds'
    BY <2>1 DEF LinksHaveEnds, Exists
  <2>4. RequestsOK'
    <3>1. CASE Finish(r)
      BY <3>1, FinishStep
    <3>2. CASE Goto(r, "check")
      <4> DEFINE q == [req[r] EXCEPT !.pc = "check"]
      <4>1. q \in RequestType /\ Carries(q)
        BY <1>0, <1>4 DEF SaveLink, At, RequestType, Carries, Steps, SyncOps
      <4> QED  BY <3>2, <4>1, RequestStep DEF Goto
    <3> QED  BY <1>4, <3>1, <3>2 DEF SaveLink
  <2> QED  BY <2>2, <2>3, <2>4
<1> QED  BY <1>1, <1>2, <1>3, <1>4 DEF LinkStep

LEMMA SyncPreserves ==
  ASSUME IInv, NEW r \in Requests, SyncStep(r)
  PROVE  IInv'
<1> USE DEF IInv
<1>0. req \in [Requests -> RequestType] /\ req[r] \in RequestType /\ Carries(req[r])
  BY DEF RequestsOK
<1>1. CASE SyncProjectsWithInfraManager(r)
  <2> DEFINE q == [Request("sync", "listLocal") EXCEPT !.todo = infra]
  <2>1. q \in RequestType /\ Carries(q)
    BY DEF StoresOK, Request, Idle, RequestType, Carries, AllOps, Steps, SyncOps
  <2>2. req' = [req EXCEPT ![r] = q] /\ UNCHANGED <<wname, ns, pname, rows, links, infra>>
    BY <1>1 DEF SyncProjectsWithInfraManager, Begin
  <2> QED  BY <2>1, <2>2, QuietStep
<1>2. ASSUME NEW w \in Workspaces, NEW wanted \in SUBSET Namespaces,
             ApplyProjectSyncToWorkspace(r, w, wanted)
      PROVE IInv'
  <2> DEFINE q == [Request("apply", "listLocal") EXCEPT !.ws = w, !.todo = wanted \cap infra]
  <2>1. q \in RequestType /\ Carries(q)
    BY DEF Request, Idle, RequestType, Carries, AllOps, Steps, SyncOps
  <2>2. req' = [req EXCEPT ![r] = q] /\ UNCHANGED <<wname, ns, pname, rows, links, infra>>
    BY <1>2 DEF ApplyProjectSyncToWorkspace, Begin
  <2> QED  BY <2>1, <2>2, QuietStep
<1>3. CASE ListLocal(r)
  <2> DEFINE q == [req[r] EXCEPT !.local = rows, !.pc = "listAssigned"]
  <2>1. q \in RequestType /\ Carries(q)
    BY <1>3 DEF ListLocal, At, StoresOK, RequestsOK, RequestType, Carries, AllOps, Steps, SyncOps
  <2>2. req' = [req EXCEPT ![r] = q] /\ UNCHANGED <<wname, ns, pname, rows, links, infra>>
    BY <1>3 DEF ListLocal, Goto
  <2> QED  BY <2>1, <2>2, QuietStep
<1>4. CASE ListAssigned(r)
  <2> DEFINE q == [req[r] EXCEPT !.assigned = Linked,
                     !.pc = IF req[r].op = "sync" THEN "findDefault" ELSE "nextNs"]
  <2>1. q \in RequestType /\ Carries(q)
    BY <1>0, <1>4 DEF ListAssigned, At, Linked, RequestType, Carries, Steps, SyncOps
  <2>2. req' = [req EXCEPT ![r] = q] /\ UNCHANGED <<wname, ns, pname, rows, links, infra>>
    BY <1>4 DEF ListAssigned
  <2> QED  BY <2>1, <2>2, QuietStep
<1>5. ASSUME At(r, "nextNs"), NEW n \in req[r].todo, CreateMissing(r, n) PROVE IInv'
  <2> PICK p \in Projects :
        /\ CreateProject(p, n)
        /\ req' = [req EXCEPT ![r].prj = p, ![r].todo = @ \ {n}, ![r].pc = "appendNs"]
    BY <1>5 DEF CreateMissing
  <2> DEFINE q == [req[r] EXCEPT !.prj = p, !.todo = @ \ {n}, !.pc = "appendNs"]
  <2>1. q \in RequestType /\ Carries(q)
    BY <1>0, <1>5 DEF At, RequestType, Carries, Steps, SyncOps
  <2>2. req' = [req EXCEPT ![r] = q]
    BY <1>0
  <2>3. n \in Namespaces
    BY <1>0, <1>5 DEF At, Carries
  <2>4. StoresOK' /\ LinksHaveEnds'
    BY <1>5, <2>3, CreateProjectOK DEF CreateMissing
  <2> QED  BY <2>1, <2>2, <2>4, RequestStep
<1>6. ASSUME At(r, "nextNs"), NEW n \in req[r].todo, TakeExisting(r, n) PROVE IInv'
  <2> PICK p \in LocalProjects(r, n) :
        req' = [req EXCEPT ![r].prj = p, ![r].todo = @ \ {n},
                           ![r].pc = IF p \in req[r].assigned THEN "nextNs" ELSE "appendNs"]
    BY <1>6 DEF TakeExisting
  <2> DEFINE q == [req[r] EXCEPT !.prj = p, !.todo = @ \ {n},
                     !.pc = IF p \in req[r].assigned THEN "nextNs" ELSE "appendNs"]
  <2>1. q \in RequestType /\ Carries(q)
    BY <1>0, <1>6 DEF LocalProjects, At, RequestType, Carries, Steps, SyncOps
  <2>2. req' = [req EXCEPT ![r] = q] /\ UNCHANGED <<wname, ns, pname, rows, links, infra>>
    BY <1>0, <1>6 DEF TakeExisting
  <2> QED  BY <2>1, <2>2, QuietStep
<1>7. ASSUME At(r, "nextNs"), NEW n \in req[r].todo, CreateMissingFails(r, n) PROVE IInv'
  <2> DEFINE q == [req[r] EXCEPT !.todo = @ \ {n}]
  <2>1. q \in RequestType /\ Carries(q)
    BY <1>0 DEF RequestType, Carries
  <2>2. req' = [req EXCEPT ![r] = q] /\ UNCHANGED <<wname, ns, pname, rows, links, infra>>
    BY <1>0, <1>7 DEF CreateMissingFails
  <2> QED  BY <2>1, <2>2, QuietStep
<1>8. CASE AssignSynced(r)
  <2> DEFINE q == [req[r] EXCEPT !.pc = "nextNs", !.assigned = @ \cup {req[r].prj}]
  <2>1. q \in RequestType /\ Carries(q)
    BY <1>0, <1>8 DEF AssignSynced, At, RequestType, Carries, Steps, SyncOps
  <2>2. req' = [req EXCEPT ![r] = q]
    BY <1>0, <1>8 DEF AssignSynced
  <2>3. req[r].prj \in Projects /\ req[r].ws \in Workspaces
    BY <1>0, <1>8 DEF AssignSynced, At, Carries
  <2>4. StoresOK' /\ LinksHaveEnds'
    BY <1>8, <2>3, AssociationOK DEF AssignSynced
  <2> QED  BY <2>1, <2>2, <2>4, RequestStep
<1>9. CASE AssignSyncedFails(r)
  <2> DEFINE q == [req[r] EXCEPT !.pc = "nextNs"]
  <2>1. q \in RequestType /\ Carries(q)
    BY <1>9 DEF AssignSyncedFails, At, RequestsOK, RequestType, Carries, AllOps, Steps, SyncOps
  <2>2. req' = [req EXCEPT ![r] = q] /\ UNCHANGED <<wname, ns, pname, rows, links, infra>>
    BY <1>9 DEF AssignSyncedFails, Goto
  <2> QED  BY <2>1, <2>2, QuietStep
<1>10. CASE EndSync(r)
  BY <1>10, QuietFinish DEF EndSync
<1> QED
  BY <1>1, <1>2, <1>3, <1>4, <1>5, <1>6, <1>7, <1>8, <1>9, <1>10
  DEF SyncStep, NextNs, NextNsFails

LEMMA NextIInv == IInv /\ [Next]_vars => IInv'
<1> SUFFICES ASSUME IInv, [Next]_vars PROVE IInv'
  OBVIOUS
<1>1. ASSUME NEW r \in Requests, Abort(r) PROVE IInv'
  BY <1>1, QuietFinish DEF Abort
<1>2. ASSUME NEW w \in Workspaces, NEW name \in WorkspaceNames, UpdateWorkspace(w, name)
      PROVE  IInv'
  BY <1>2 DEF UpdateWorkspace, IInv, StoresOK, RequestsOK, LinksHaveEnds, Exists, WorkspaceNames
<1>3. ASSUME NEW w \in Workspaces, NEW p \in Projects, RemoveProjectFromWorkspace(w, p)
      PROVE  IInv'
  BY <1>3 DEF RemoveProjectFromWorkspace, IInv, StoresOK, RequestsOK, LinksHaveEnds, Exists
<1>4. ASSUME NEW n \in Namespaces, InfraManagerChanges(n) PROVE IInv'
  BY <1>4 DEF InfraManagerChanges, IInv, StoresOK, RequestsOK, LinksHaveEnds, Exists
<1>5. ASSUME NEW p \in Projects, NEW name \in Namespaces \cup {""}, UpdateProject(p, name)
      PROVE  IInv'
  BY <1>5 DEF UpdateProject, IInv, StoresOK, RequestsOK, LinksHaveEnds, Exists
<1>6. CASE UNCHANGED vars
  BY <1>6 DEF vars, IInv, StoresOK, RequestsOK, LinksHaveEnds, Exists
<1> QED
  BY <1>1, <1>2, <1>3, <1>4, <1>5, <1>6, WorkspacePreserves, ProjectPreserves, LinkPreserves,
     SyncPreserves
  DEF Next

THEOREM AlwaysIInv == Spec => []IInv
  BY InitIInv, NextIInv, PTL DEF Spec

\* The tables keep their types.
THEOREM ProjectTypes == Spec => []TypeOK
<1>1. IInv => TypeOK
  BY DEF IInv, StoresOK, RequestsOK, TypeOK
<1> QED  BY <1>1, AlwaysIInv, PTL

\* However assignments, synchronisations and deletions interleave, a link has
\* its project and its workspace.
THEOREM LinksAlwaysHaveEnds == Spec => []LinksHaveEnds
<1>1. IInv => LinksHaveEnds
  BY DEF IInv
<1> QED  BY <1>1, AlwaysIInv, PTL

(***************************************************************************)
(* What holds of requests one at a time.  Until a project is inserted no   *)
(* row has its namespace (unless one was renamed); the rows that a         *)
(* synchronisation has not listed are not of the namespaces left to it.  A *)
(* project about to be linked has no link, and a synchronisation knows     *)
(* every project that has one.                                             *)
(***************************************************************************)
Serial == \A r, s \in Requests : r = s
NoRenaming == "rename" \notin Ops

OneTables ==
    /\ NoRenaming => OneProjectPerNamespace
    /\ \A p \in rows : ns[p] \in Namespaces /\ (NoRenaming => pname[p] = ns[p])
    /\ \A p \in Projects, v, w \in Workspaces :
         <<p, v>> \in links /\ <<p, w>> \in links => v = w

Promises(q) ==
    /\ NoRenaming /\ q.op = "create" /\ q.pc # "append" => \A p \in rows : ns[p] # q.name
    /\ q.op \in SyncOps /\ q.pc # "listLocal" =>
          \A p \in rows : ns[p] \in q.todo => p \in q.local
    /\ q.pc \in {"append", "link", "appendNs"} =>
          \A w \in Workspaces : <<q.prj, w>> \notin links
    /\ q.op \in SyncOps /\ q.pc \notin {"listLocal", "listAssigned"} =>
          \A p \in Projects, w \in Workspaces : <<p, w>> \in links => p \in q.assigned

OneInv == OneTables /\ \A r \in Requests : Promises(req[r])

LEMMA InitOneInv == Init => OneInv
  BY DEF Init, OneInv, OneTables, Promises, OneProjectPerNamespace, Idle, SyncOps

LEMMA SerialStep ==
  ASSUME Serial, NEW r \in Requests, OneTables', Promises(req[r])'
  PROVE  OneInv'
  BY DEF Serial, OneInv

LEMMA SameTables ==
  ASSUME OneTables, UNCHANGED <<ns, pname, rows, links>>
  PROVE  OneTables'
  BY DEF OneTables, OneProjectPerNamespace

\* A request that promises nothing.
LEMMA IdlePromises ==
  ASSUME NEW r \in Requests, RequestsOK, Finish(r)
  PROVE  Promises(req[r])'
<1>1. req'[r] = Idle
  BY DEF RequestsOK, Finish
<1> QED  BY <1>1 DEF Promises, Idle, SyncOps

\* A namespace that has no row gets one.
LEMMA CreateProjectOnce ==
  ASSUME StoresOK, OneTables, NEW p \in Projects, NEW n \in Namespaces,
         NoRenaming => \A x \in rows : ns[x] # n,
         CreateProject(p, n), UNCHANGED links
  PROVE  /\ OneTables'
         /\ p \notin rows /\ rows' = rows \cup {p} /\ ns'[p] = n
         /\ \A x \in rows : ns'[x] = ns[x]
<1>1. /\ p \notin rows /\ rows' = rows \cup {p} /\ ns'[p] = n /\ pname'[p] = n
      /\ \A x \in rows : ns'[x] = ns[x] /\ pname'[x] = pname[x]
  BY NoneAssumption DEF CreateProject, StoresOK, OneTables
<1>2. OneTables'
  BY <1>1 DEF OneTables, OneProjectPerNamespace
<1> QED  BY <1>1, <1>2

\* A project that has no link gets one.
LEMMA LinkOnce ==
  ASSUME OneTables, NEW p \in Projects, NEW w \in Workspaces,
         \A v \in Workspaces : <<p, v>> \notin links,
         links' = links \cup {<<p, w>>}, UNCHANGED <<ns, pname, rows>>
  PROVE  OneTables'
  BY DEF OneTables, OneProjectPerNamespace

\* Rows and links that go break nothing.
LEMMA FewerTables ==
  ASSUME OneTables, rows' \subseteq rows, links' \subseteq links, UNCHANGED ns,
         \A p \in rows' : pname'[p] = pname[p]
  PROVE  OneTables'
  BY DEF OneTables, OneProjectPerNamespace

LEMMA WorkspaceOnce ==
  ASSUME Serial, IInv, OneInv, NEW r \in Requests, WorkspaceStep(r)
  PROVE  OneInv'
<1> USE DEF OneInv
<1>0. /\ req \in [Requests -> RequestType] /\ req[r] \in RequestType
      /\ Carries(req[r]) /\ Promises(req[r])
  BY DEF IInv, RequestsOK
<1>1. ASSUME NEW name \in WorkspaceNames, CreateWorkspace(r, name) PROVE OneInv'
  <2>1. req'[r] = [Request("createWs", "insertWs") EXCEPT !.name = name]
    BY <1>0, <1>1 DEF CreateWorkspace, Begin
  <2>2. Promises(req[r])'
    BY <1>0, <1>1, <2>1 DEF CreateWorkspace, Promises, Request, Idle, SyncOps
  <2> QED  BY <1>1, <2>2, SameTables, SerialStep DEF CreateWorkspace
<1>2. ASSUME NEW w \in Workspaces, DeleteWorkspace(r, w) PROVE OneInv'
  <2>1. req'[r] = [Request("deleteWs", "deleteWs") EXCEPT !.ws = w]
    BY <1>0, <1>2 DEF DeleteWorkspace, Begin
  <2>2. Promises(req[r])'
    BY <1>0, <1>2, <2>1 DEF DeleteWorkspace, Promises, Request, Idle, SyncOps
  <2> QED  BY <1>2, <2>2, SameTables, SerialStep DEF DeleteWorkspace
<1>3. CASE InsertNewWorkspace(r) \/ DeleteWorkspaceRow(r)
  BY <1>3, IdlePromises, SameTables, SerialStep DEF InsertNewWorkspace, DeleteWorkspaceRow, IInv
<1> QED  BY <1>1, <1>2, <1>3 DEF WorkspaceStep

LEMMA ProjectOnce ==
  ASSUME Serial, IInv, OneInv, NEW r \in Requests, ProjectStep(r)
  PROVE  OneInv'
<1> USE DEF OneInv
<1>0. /\ req \in [Requests -> RequestType] /\ req[r] \in RequestType
      /\ Carries(req[r]) /\ Promises(req[r])
  BY DEF IInv, RequestsOK
<1>1. ASSUME NEW n \in Namespaces, NEW w \in Workspaces \cup {None}, Create(r, n, w) PROVE OneInv'
  <2>1. req'[r] = [Request("create", IF w = None THEN "findDefault" ELSE "target")
                    EXCEPT !.name = n, !.ws = w]
    BY <1>0, <1>1 DEF Create, Begin
  <2>2. Promises(req[r])'
    BY <1>0, <1>1, <2>1 DEF Create, Promises, OneTables, Request, Idle, SyncOps
  <2> QED  BY <1>1, <2>2, SameTables, SerialStep DEF Create
<1>2. CASE FindTarget(r)
  <2>1. req'[r] = [req[r] EXCEPT !.pc = "postNs"]
    BY <1>0, <1>2 DEF FindTarget, Goto
  <2>2. Promises(req[r])'
    BY <1>0, <1>2, <2>1 DEF FindTarget, At, Carries, Promises, RequestType, SyncOps
  <2> QED  BY <1>2, <2>2, SameTables, SerialStep DEF FindTarget
<1>3. CASE FindDefault(r) \/ InsertDefault(r)
  <2>1. /\ req'[r].op = req[r].op /\ req'[r].name = req[r].name
        /\ req'[r].todo = req[r].todo /\ req'[r].local = req[r].local
        /\ req'[r].assigned = req[r].assigned
        /\ req'[r].pc \in {"insertDefault", "postNs", "nextNs"}
        /\ req[r].pc \in {"findDefault", "insertDefault"}
        /\ UNCHANGED <<ns, pname, rows, links>>
    <3>1. ASSUME NEW pc \in {"insertDefault", "postNs", "nextNs"}, NEW w,
                 \/ req' = [req EXCEPT ![r].pc = pc]
                 \/ req' = [req EXCEPT ![r].ws = w, ![r].pc = pc]
          PROVE  /\ req'[r].op = req[r].op /\ req'[r].name = req[r].name
                 /\ req'[r].todo = req[r].todo /\ req'[r].local = req[r].local
                 /\ req'[r].assigned = req[r].assigned /\ req'[r].pc = pc
      BY <1>0, <3>1 DEF RequestType
    <3>2. AfterDefault(r) \in {"postNs", "nextNs"}
      BY DEF AfterDefault
    <3>3. \E pc \in {"insertDefault", "postNs", "nextNs"} : \E w :
             \/ req' = [req EXCEPT ![r].pc = pc]
             \/ req' = [req EXCEPT ![r].ws = w, ![r].pc = pc]
      BY <1>3, <3>2 DEF FindDefault, InsertDefault, Goto
    <3>4. /\ req[r].pc \in {"findDefault", "insertDefault"}
          /\ UNCHANGED <<ns, pname, rows, links>>
      BY <1>3 DEF FindDefault, InsertDefault, At
    <3> QED  BY <3>1, <3>3, <3>4
  <2>2. Promises(req[r])'
    BY <1>0, <2>1 DEF Promises, SyncOps
  <2> QED  BY <2>1, <2>2, SameTables, SerialStep
<1>4. CASE PostNs(r)
  <2>1. req'[r] = [req[r] EXCEPT !.pc = "insert"]
    BY <1>0, <1>4 DEF PostNs, Goto
  <2>2. Promises(req[r])'
    BY <1>0, <1>4, <2>1 DEF PostNs, At, Carries, Promises, RequestType, SyncOps
  <2> QED  BY <1>4, <2>2, SameTables, SerialStep DEF PostNs
<1>5. CASE InsertProject(r)
  <2> PICK p \in Projects :
        /\ CreateProject(p, req[r].name)
        /\ req' = [req EXCEPT ![r].prj = p, ![r].pc = "append"]
    BY <1>5 DEF InsertProject
  <2>1. req[r].op = "create" /\ req[r].name \in Namespaces /\ req[r].pc = "insert"
    BY <1>0, <1>5 DEF InsertProject, At, Carries
  <2>2. req'[r] = [req[r] EXCEPT !.prj = p, !.pc = "append"]
    BY <1>0
  <2>3. UNCHANGED links /\ (NoRenaming => \A x \in rows : ns[x] # req[r].name)
    BY <1>0, <1>5, <2>1 DEF InsertProject, Promises
  <2>4. OneTables' /\ p \notin rows
    BY <2>1, <2>3, CreateProjectOnce DEF IInv
  <2>5. Promises(req[r])'
    BY <1>0, <2>1, <2>2, <2>3, <2>4 DEF Promises, SyncOps, IInv, LinksHaveEnds, RequestType
  <2> QED  BY <2>4, <2>5, SerialStep
<1>6. CASE LinkCreated(r)
  <2>1. /\ req[r].prj \in Projects /\ req[r].ws \in Workspaces
        /\ \A w \in Workspaces : <<req[r].prj, w>> \notin links
    BY <1>0, <1>6 DEF LinkCreated, At, Carries, Promises
  <2>2. OneTables'
    BY <1>6, <2>1, LinkOnce DEF LinkCreated, AddProjectWorkspaceAssociation
  <2> QED  BY <1>6, <2>2, IdlePromises, SerialStep DEF LinkCreated, IInv
<1>7. ASSUME NEW p \in Projects, DeleteProject(r, p) PROVE OneInv'
  <2>1. req'[r] = [Request("delete", "delNs") EXCEPT !.prj = p]
    BY <1>0, <1>7 DEF DeleteProject, Begin
  <2>2. Promises(req[r])'
    BY <1>0, <1>7, <2>1 DEF DeleteProject, Promises, Request, Idle, SyncOps
  <2> QED  BY <1>7, <2>2, SameTables, SerialStep DEF DeleteProject
<1>8. CASE DelNs(r)
  <2>1. req'[r] = [req[r] EXCEPT !.pc = "deleteRow"]
    BY <1>0, <1>8 DEF DelNs, Goto
  <2>2. req[r].op \notin SyncOps \cup {"create"}
    BY <1>0, <1>8 DEF DelNs, At, Carries
  <2>3. Promises(req[r])'
    BY <1>0, <2>1, <2>2 DEF Promises, RequestType, SyncOps
  <2> QED  BY <1>8, <2>3, SameTables, SerialStep DEF DelNs
<1>9. CASE DeleteProjectRow(r)
  <2>1. /\ rows' = rows \ {req[r].prj} /\ pname' = [pname EXCEPT ![req[r].prj] = None]
        /\ UNCHANGED <<ns, links>> /\ rows \subseteq Projects
        /\ pname \in [Projects -> Namespaces \cup {None, ""}]
    BY <1>9 DEF DeleteProjectRow, IInv, StoresOK
  <2>2. OneTables'
    BY <2>1, FewerTables
  <2> QED  BY <1>9, <2>2, IdlePromises, SerialStep DEF DeleteProjectRow, IInv
<1> QED
  BY <1>1, <1>2, <1>3, <1>4, <1>5, <1>6, <1>7, <1>8, <1>9 DEF ProjectStep

LEMMA LinkOnceStep ==
  ASSUME Serial, IInv, OneInv, NEW r \in Requests, LinkStep(r)
  PROVE  OneInv'
<1> USE DEF OneInv
<1>0. /\ req \in [Requests -> RequestType] /\ req[r] \in RequestType
      /\ Carries(req[r]) /\ Promises(req[r])
  BY DEF IInv, RequestsOK
<1>1. ASSUME NEW op \in AssignOps, NEW w \in Workspaces, NEW todo \in SUBSET Projects,
             AddProjectsToWorkspace(r, op, w, todo)
      PROVE OneInv'
  <2>1. req'[r] = [Request(op, "check") EXCEPT !.ws = w, !.todo = todo]
    BY <1>0, <1>1 DEF AddProjectsToWorkspace, Begin
  <2>2. Promises(req[r])'
    BY <1>0, <1>1, <2>1 DEF AddProjectsToWorkspace, Promises, Request, Idle, SyncOps, AssignOps
  <2> QED  BY <1>1, <2>2, SameTables, SerialStep DEF AddProjectsToWorkspace
<1>2. CASE AddProjectToWorkspace(r)
  <2>1. /\ req'[r].op = req[r].op /\ req'[r].pc = "unlink" /\ req[r].pc = "check"
        /\ UNCHANGED <<ns, pname, rows, links>>
    BY <1>0, <1>2 DEF AddProjectToWorkspace, At, RequestType
  <2>2. Promises(req[r])'
    BY <1>0, <2>1 DEF Promises, Carries
  <2> QED  BY <2>1, <2>2, SameTables, SerialStep
<1>3. CASE DeleteLinks(r)
  <2>1. req'[r] = [req[r] EXCEPT !.pc = "link"] /\ req[r].pc = "unlink"
    BY <1>0, <1>3 DEF DeleteLinks, Goto, At
  <2>2. Promises(req[r])'
    BY <1>0, <1>3, <2>1 DEF DeleteLinks, Promises, Carries, RequestType
  <2>3. OneTables'
    BY <1>3, FewerTables DEF DeleteLinks
  <2> QED  BY <2>2, <2>3, SerialStep
<1>4. CASE SaveLink(r)
  <2>1. /\ req[r].prj \in Projects /\ req[r].ws \in Workspaces /\ req[r].pc = "link"
        /\ \A w \in Workspaces : <<req[r].prj, w>> \notin links
    BY <1>0, <1>4 DEF SaveLink, At, Carries, Promises
  <2>2. OneTables'
    BY <1>4, <2>1, LinkOnce DEF SaveLink
  <2>3. CASE Finish(r)
    BY <2>2, <2>3, IdlePromises, SerialStep DEF IInv
  <2>4. CASE req[r].op = "assign" /\ Goto(r, "check")
    <3>1. req'[r].op = "assign" /\ req'[r].pc = "check"
      BY <1>0, <2>4 DEF Goto, RequestType
    <3>2. Promises(req[r])'
      BY <3>1 DEF Promises, SyncOps
    <3> QED  BY <2>2, <3>2, SerialStep
  <2> QED  BY <1>4, <2>3, <2>4 DEF SaveLink
<1> QED  BY <1>1, <1>2, <1>3, <1>4 DEF LinkStep

LEMMA SyncOnce ==
  ASSUME Serial, IInv, OneInv, NEW r \in Requests, SyncStep(r)
  PROVE  OneInv'
<1> USE DEF OneInv
<1>0. /\ req \in [Requests -> RequestType] /\ req[r] \in RequestType
      /\ Carries(req[r]) /\ Promises(req[r])
  BY DEF IInv, RequestsOK
<1>1. CASE SyncProjectsWithInfraManager(r)
  <2>1. req'[r] = [Request("sync", "listLocal") EXCEPT !.todo = infra]
    BY <1>0, <1>1 DEF SyncProjectsWithInfraManager, Begin
  <2>2. Promises(req[r])'
    BY <1>0, <1>1, <2>1 DEF SyncProjectsWithInfraManager, Promises, Request, Idle, SyncOps
  <2> QED  BY <1>1, <2>2, SameTables, SerialStep DEF SyncProjectsWithInfraManager
<1>2. ASSUME NEW w \in Workspaces, NEW wanted \in SUBSET Namespaces,
             ApplyProjectSyncToWorkspace(r, w, wanted)
      PROVE OneInv'
  <2>1. req'[r] = [Request("apply", "listLocal") EXCEPT !.ws = w, !.todo = wanted \cap infra]
    BY <1>0, <1>2 DEF ApplyProjectSyncToWorkspace, Begin
  <2>2. Promises(req[r])'
    BY <1>0, <1>2, <2>1 DEF ApplyProjectSyncToWorkspace, Promises, Request, Idle, SyncOps
  <2> QED  BY <1>2, <2>2, SameTables, SerialStep DEF ApplyProjectSyncToWorkspace
<1>3. CASE ListLocal(r)
  <2>1. /\ req'[r] = [req[r] EXCEPT !.local = rows, !.pc = "listAssigned"]
        /\ req[r].op \in SyncOps /\ UNCHANGED <<ns, pname, rows, links>>
    BY <1>0, <1>3 DEF ListLocal, At, Carries
  <2>2. Promises(req[r])'
    BY <1>0, <2>1 DEF Promises, RequestType, SyncOps
  <2> QED  BY <2>1, <2>2, SameTables, SerialStep
<1>4. CASE ListAssigned(r)
  <2>1. /\ req'[r].op = req[r].op /\ req'[r].todo = req[r].todo
        /\ req'[r].local = req[r].local /\ req'[r].assigned = Linked
        /\ req'[r].pc \in {"findDefault", "nextNs"} /\ req[r].pc = "listAssigned"
        /\ req[r].op \in SyncOps /\ UNCHANGED <<ns, pname, rows, links>>
    BY <1>0, <1>4 DEF ListAssigned, At, Carries, RequestType
  <2>2. \A p \in Projects, w \in Workspaces : <<p, w>> \in links => p \in Linked
    BY DEF Linked, HomesOf
  <2>3. Promises(req[r])'
    BY <1>0, <2>1, <2>2 DEF Promises, SyncOps
  <2> QED  BY <2>1, <2>3, SameTables, SerialStep
<1>5. ASSUME At(r, "nextNs"), NEW n \in req[r].todo, CreateMissing(r, n) PROVE OneInv'
  <2> PICK p \in Projects :
        /\ CreateProject(p, n)
        /\ req' = [req EXCEPT ![r].prj = p, ![r].todo = @ \ {n}, ![r].pc = "appendNs"]
    BY <1>5 DEF CreateMissing
  <2>1. req[r].op \in SyncOps /\ n \in Namespaces /\ req[r].pc = "nextNs"
    BY <1>0, <1>5 DEF At, Carries
  <2>2. req'[r] = [req[r] EXCEPT !.prj = p, !.todo = @ \ {n}, !.pc = "appendNs"]
    BY <1>0
  <2>3. UNCHANGED links /\ \A x \in rows : ns[x] # n
    BY <1>0, <1>5, <2>1 DEF CreateMissing, LocalProjects, Promises
  <2>4. /\ OneTables'
        /\ p \notin rows /\ rows' = rows \cup {p} /\ ns'[p] = n
        /\ \A x \in rows : ns'[x] = ns[x]
    BY <2>1, <2>3, CreateProjectOnce DEF IInv
  <2>5. \A w \in Workspaces : <<p, w>> \notin links
    BY <2>4 DEF IInv, LinksHaveEnds
  <2>6. Promises(req[r])'
    BY <1>0, <2>1, <2>2, <2>3, <2>4, <2>5 DEF Promises, SyncOps, RequestType
  <2> QED  BY <2>4, <2>6, SerialStep
<1>6. ASSUME At(r, "nextNs"), NEW n \in req[r].todo, TakeExisting(r, n) PROVE OneInv'
  <2> PICK p \in LocalProjects(r, n) :
        req' = [req EXCEPT ![r].prj = p, ![r].todo = @ \ {n},
                           ![r].pc = IF p \in req[r].assigned THEN "nextNs" ELSE "appendNs"]
    BY <1>6 DEF TakeExisting
  <2>1. /\ req[r].op \in SyncOps /\ req[r].pc = "nextNs" /\ p \in Projects
        /\ UNCHANGED <<ns, pname, rows, links>>
    BY <1>0, <1>6 DEF At, Carries, LocalProjects, RequestType, TakeExisting
  <2>2. req'[r] = [req[r] EXCEPT !.prj = p, !.todo = @ \ {n},
                     !.pc = IF p \in req[r].assigned THEN "nextNs" ELSE "appendNs"]
    BY <1>0
  <2>3. Promises(req[r])'
    BY <1>0, <2>1, <2>2 DEF Promises, SyncOps, RequestType
  <2> QED  BY <2>1, <2>3, SameTables, SerialStep
<1>7. ASSUME At(r, "nextNs"), NEW n \in req[r].todo, CreateMissingFails(r, n) PROVE OneInv'
  <2>1. /\ req'[r] = [req[r] EXCEPT !.todo = @ \ {n}] /\ req[r].pc = "nextNs"
        /\ req[r].op \in SyncOps /\ UNCHANGED <<ns, pname, rows, links>>
    BY <1>0, <1>7 DEF CreateMissingFails, At, Carries
  <2>2. Promises(req[r])'
    BY <1>0, <2>1 DEF Promises, SyncOps, RequestType
  <2> QED  BY <2>1, <2>2, SameTables, SerialStep
<1>8. CASE AssignSynced(r)
  <2>1. /\ req[r].prj \in Projects /\ req[r].ws \in Workspaces /\ req[r].pc = "appendNs"
        /\ req[r].op \in SyncOps
        /\ \A w \in Workspaces : <<req[r].prj, w>> \notin links
    BY <1>0, <1>8 DEF AssignSynced, At, Carries, Promises
  <2>2. /\ req'[r] = [req[r] EXCEPT !.pc = "nextNs", !.assigned = @ \cup {req[r].prj}]
        /\ links' = links \cup {<<req[r].prj, req[r].ws>>} /\ UNCHANGED <<ns, pname, rows>>
    BY <1>0, <1>8 DEF AssignSynced, AddProjectWorkspaceAssociation
  <2>3. OneTables'
    BY <2>1, <2>2, LinkOnce
  <2>4. Promises(req[r])'
    BY <1>0, <2>1, <2>2 DEF Promises, SyncOps, RequestType
  <2> QED  BY <2>3, <2>4, SerialStep
<1>9. CASE AssignSyncedFails(r)
  <2>1. /\ req'[r] = [req[r] EXCEPT !.pc = "nextNs"] /\ req[r].pc = "appendNs"
        /\ req[r].op \in SyncOps /\ UNCHANGED <<ns, pname, rows, links>>
    BY <1>0, <1>9 DEF AssignSyncedFails, Goto, At, Carries
  <2>2. Promises(req[r])'
    BY <1>0, <2>1 DEF Promises, SyncOps, RequestType
  <2> QED  BY <2>1, <2>2, SameTables, SerialStep
<1>10. CASE EndSync(r)
  BY <1>10, IdlePromises, SameTables, SerialStep DEF EndSync, IInv
<1> QED
  BY <1>1, <1>2, <1>3, <1>4, <1>5, <1>6, <1>7, <1>8, <1>9, <1>10
  DEF SyncStep, NextNs, NextNsFails

LEMMA NextOneInv == Serial /\ IInv /\ OneInv /\ [Next]_vars => OneInv'
<1> SUFFICES ASSUME Serial, IInv, OneInv, [Next]_vars PROVE OneInv'
  OBVIOUS
<1>1. ASSUME NEW r \in Requests, Abort(r) PROVE OneInv'
  BY <1>1, IdlePromises, SameTables, SerialStep DEF Abort, IInv, OneInv
<1>2. CASE UNCHANGED <<ns, pname, rows, links, req>>
  BY <1>2 DEF OneInv, OneTables, Promises, OneProjectPerNamespace
<1>3. ASSUME NEW w \in Workspaces, NEW p \in Projects, RemoveProjectFromWorkspace(w, p)
      PROVE  OneInv'
  <2>1. links' \subseteq links /\ UNCHANGED <<ns, pname, rows, req>>
    BY <1>3 DEF RemoveProjectFromWorkspace
  <2>2. \A r \in Requests : Promises(req[r])'
    BY <2>1 DEF OneInv, Promises
  <2> QED  BY <2>1, <2>2, FewerTables DEF OneInv
<1>4. ASSUME NEW p \in Projects, NEW name \in Namespaces \cup {""}, UpdateProject(p, name)
      PROVE  OneInv'
  <2>1. ~NoRenaming /\ UNCHANGED <<ns, rows, links, req>>
    BY <1>4 DEF UpdateProject, NoRenaming
  <2>2. OneTables'
    BY <2>1 DEF OneInv, OneTables, NoRenaming
  <2>3. \A r \in Requests : Promises(req[r])'
    BY <2>1 DEF OneInv, Promises, NoRenaming
  <2> QED  BY <2>2, <2>3 DEF OneInv
<1> QED
  BY <1>1, <1>2, <1>3, <1>4, WorkspaceOnce, ProjectOnce, LinkOnceStep, SyncOnce
  DEF Next, UpdateWorkspace, InfraManagerChanges, vars

LEMMA SerialOneInv == Serial /\ Spec => []OneInv
<1>1. Serial /\ Spec => [](IInv /\ OneInv)
  <2> SUFFICES ASSUME Serial PROVE Spec => [](IInv /\ OneInv)
    OBVIOUS
  <2> QED  BY InitIInv, NextIInv, InitOneInv, NextOneInv, PTL DEF Spec
<1> QED  BY <1>1, PTL

\* Requests one at a time, no project renamed, and however many requests stop
\* half way: a synchronisation or a creation adds no project for a namespace
\* that has one.
THEOREM SerialOneProject == Serial /\ NoRenaming /\ Spec => []OneProjectPerNamespace
<1> SUFFICES ASSUME NoRenaming PROVE Serial /\ Spec => []OneProjectPerNamespace
  OBVIOUS
<1>1. OneInv => OneProjectPerNamespace
  BY DEF OneInv, OneTables
<1> QED  BY <1>1, SerialOneInv, PTL

\* Requests one at a time: a project is in one workspace at most, whatever
\* the order of creations, assignments, releases and synchronisations.
THEOREM SerialOneHome == Serial /\ Spec => []OneHome
<1>1. OneInv => OneHome
  <2> SUFFICES ASSUME OneInv, NEW p \in Projects
               PROVE  Cardinality(HomesOf(p)) <= 1
    BY DEF OneHome
  <2>1. CASE HomesOf(p) = {}
    BY <2>1, FS_EmptySet
  <2>2. ASSUME NEW w \in HomesOf(p) PROVE Cardinality(HomesOf(p)) <= 1
    <3>1. HomesOf(p) = {w}
      BY <2>2 DEF HomesOf, OneInv, OneTables
    <3>2. Cardinality({w}) = 1
      BY FS_Singleton
    <3> QED  BY <3>1, <3>2
  <2> QED  BY <2>1, <2>2
<1> QED  BY <1>1, SerialOneInv, PTL
=============================================================================
