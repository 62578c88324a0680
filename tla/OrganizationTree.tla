-------------------------- MODULE OrganizationTree --------------------------
(***************************************************************************)
(* The tree of organizations (the user groups): who is whose parent, the   *)
(* codes that number the tree (two digits a level), who is a member, and   *)
(* the Keycloak groups that copy the memberships.                          *)
(* service/organization_service.go and the user half of                    *)
(* service/group_role_service.go over the tables mcmp_organizations and    *)
(* mcmp_user_organizations.                                                *)
(*                                                                         *)
(* Only a deletion and a seed run in a transaction; the walk that looks    *)
(* for a cycle reads one row at a time, and a move renumbers the           *)
(* descendants before it moves the organization.  A handler is a request   *)
(* with a program counter; Abort stands for an error that ends it, for a   *)
(* transaction rolled back, and for the death of the process.              *)
(*                                                                         *)
(* A code is the sequence of its two-digit numbers, <<>> for none.         *)
(***************************************************************************)
EXTENDS Naturals, SequencesExt

CONSTANTS
    Orgs,        \* ids of mcmp_organizations, handed out once
    Names,       \* names of organizations, and so of Keycloak groups
    Users,       \* the users, who are never deleted here
    MaxDepth,    \* the levels of the tree, 10
    CodeLevels,  \* the numbers that fit into organization_code, 10
    PerLevel,    \* the children of a parent, 99
    Seed,        \* the codes of organizations.yaml, with their names
    Requests,    \* bound: the requests that may be in progress at once
    Ops,         \* bound: the operations requests may ask for
    None         \* no organization, no name, no user

\* "typed" is a code given by hand; "assignDb" and "unassignDb" are the routes
\* that leave Keycloak alone.
AllOps == {"create", "typed", "move", "update", "delete", "cascade", "seed",
           "assign", "assignDb", "unassign", "unassignDb", "replace"}

Codes == Seq(Nat \ {0})

ASSUME BoundAssumption == {MaxDepth, CodeLevels, PerLevel} \subseteq Nat \ {0}
\* Twenty characters hold no more numbers than a move allows levels.
ASSUME WidthAssumption == CodeLevels <= MaxDepth
ASSUME SeedAssumption ==
    /\ DOMAIN Seed \subseteq Codes \ {<<>>} /\ Seed \in [DOMAIN Seed -> Names]
    /\ \A c \in DOMAIN Seed : Len(c) > 1 => Front(c) \in DOMAIN Seed
ASSUME NoneAssumption == None \notin Orgs \cup Names \cup Users
ASSUME OpsAssumption == Ops \subseteq AllOps

VARIABLES
    rows,     \* the organizations there are
    used,     \* the ids handed out
    parent,   \* parent_id, None at the top
    code,     \* organization_code
    name,     \* name
    members,  \* mcmp_user_organizations
    group,    \* Keycloak: the members of every group
    req,      \* the requests in progress
    torn,     \* history: a renumbering stopped half way, or a code given by hand
    crossed   \* history: a move overlapped with another, a creation or a seed

tree == <<rows, used, parent, code, name>>
history == <<torn, crossed>>
vars == <<rows, used, parent, code, name, members, group, req, torn, crossed>>

Steps == {"idle", "name", "walk", "target", "depth", "generate", "codes", "ownCode",
          "insert", "write", "hasChildren", "hasUsers", "delete", "cascade", "kcDelete",
          "join", "kcJoin", "kcLeave", "replace"}

\* under is the parent_id of an update, to the parent it changes to; own a code
\* given by hand; old and prefix the codes read, new the one to write; at and
\* seen where the walk is and was; todo what is left to do, chosen the groups
\* a user is to have.
RequestType ==
    [op : AllOps \cup {"none"}, pc : Steps, org : Orgs \cup {None},
     under : Orgs \cup {None}, to : Orgs \cup {None}, name : Names \cup {None},
     user : Users \cup {None}, own : Codes, old : Codes, prefix : Codes, new : Codes,
     at : Orgs \cup {None}, seen : SUBSET Orgs, todo : SUBSET (Orgs \cup Names \cup {None}),
     chosen : SUBSET Orgs]

TypeOK ==
    /\ rows \subseteq used /\ used \subseteq Orgs
    /\ parent \in [Orgs -> Orgs \cup {None}]
    /\ code \in [Orgs -> Codes]
    /\ name \in [Orgs -> Names \cup {None}]
    /\ members \subseteq Users \X Orgs
    /\ group \in [Names -> SUBSET Users]
    /\ req \in [Requests -> RequestType]
    /\ torn \in BOOLEAN /\ crossed \in BOOLEAN

Idle == [op |-> "none", pc |-> "idle", org |-> None, under |-> None, to |-> None,
         name |-> None, user |-> None, own |-> <<>>, old |-> <<>>, prefix |-> <<>>,
         new |-> <<>>, at |-> None, seen |-> {}, todo |-> {}, chosen |-> {}]

Free(r, op) == req[r].pc = "idle" /\ op \in Ops
At(r, pc) == req[r].pc = pc
Request(op, pc) == [Idle EXCEPT !.op = op, !.pc = pc]

\* The requests that change a parent, and those that place by a code they read.
Moves(q) == q.op = "move" \/ (q.op = "update" /\ q.to # None)
Places(q) == Moves(q) \/ q.op = "create"
Crosses(q, s) == (Moves(q) /\ Places(s)) \/ (Places(q) /\ Moves(s))

Begin(r, q) ==
    /\ req' = [req EXCEPT ![r] = q]
    /\ crossed' = (crossed \/ \E s \in Requests \ {r} : Crosses(q, req[s]))
    /\ UNCHANGED torn
Continue(r, q) == req' = [req EXCEPT ![r] = q] /\ UNCHANGED history
Goto(r, pc) == Continue(r, [req[r] EXCEPT !.pc = pc])
Finish(r) == Continue(r, Idle)

(***************************************************************************)
(* What the queries of the tree answer.                                    *)
(***************************************************************************)
\* The sets of rows that with a row have its parent.
UpClosed(S) == S \subseteq rows /\ \A x \in S : parent[x] \in S \cup {None}

\* An organization and those above it, as the recursive queries find them.
Ancestors(o) ==
    {x \in rows : /\ o \in rows
                  /\ \A S \in SUBSET rows : UpClosed(S) /\ o \in S => x \in S}
Subtree(o) == {x \in rows : o \in Ancestors(x)}

\* The recursive queries end: the organization is not on or below a cycle.
Grounded(o) == \E x \in Ancestors(o) : parent[x] = None

GetAncestorDepth(o) == Cardinality(Ancestors(o))
GetSubtreeDepth(o) ==
    Max({1} \cup {GetAncestorDepth(x) + 1 - GetAncestorDepth(o) : x \in Subtree(o)})

ExistsNameUnderParent(n, p, but) ==
    \E x \in rows \ {but} : name[x] = n /\ parent[x] = p

ExistsCode(c, but) == \E x \in rows \ {but} : code[x] = c

\* The numbers given to the children of a code.
Numbers(prefix) ==
    {Last(code[x]) : x \in {y \in rows : /\ Len(code[y]) = Len(prefix) + 1
                                         /\ IsPrefix(prefix, code[y])}}

(***************************************************************************)
(* The handlers that write the tree start by reading the organization.     *)
(***************************************************************************)
CreateOrganization(r, n, p, own) ==
    /\ Free(r, "create")
    /\ own # <<>> => "typed" \in Ops
    /\ p = None \/ p \in rows
    /\ Begin(r, [Request("create", "name") EXCEPT
                   !.name = n, !.under = p, !.to = p, !.own = own,
                   !.prefix = IF p = None THEN <<>> ELSE code[p]])
    /\ UNCHANGED <<tree, members, group>>

MoveOrganization(r, o, p) ==
    /\ Free(r, "move")
    /\ o \in rows
    /\ Begin(r, [Request("move", IF p = None THEN "depth" ELSE "walk") EXCEPT
                   !.org = o, !.to = p, !.at = p, !.old = code[o]])
    /\ UNCHANGED <<tree, members, group>>

FirstOf(q) ==
    CASE q.name # None -> "name"
      [] q.name = None /\ q.to # None -> "walk"
      [] OTHER -> "ownCode"

\* What the request asks to be as it is is left out of it, but for the parent
\* under which the name is looked for: none, if the request has none.
UpdateOrganization(r, o, n, p, own) ==
    LET q == [Request("update", "idle") EXCEPT
                !.org = o, !.old = code[o], !.under = p,
                !.name = IF n = name[o] THEN None ELSE n,
                !.to = IF p = parent[o] THEN None ELSE p,
                !.at = IF p = parent[o] THEN None ELSE p,
                !.own = IF own = code[o] THEN <<>> ELSE own]
    IN  /\ Free(r, "update")
        /\ own # <<>> => "typed" \in Ops
        /\ o \in rows
        /\ q.name # None \/ q.to # None \/ q.own # <<>>
        /\ Begin(r, [q EXCEPT !.pc = FirstOf(q)])
        /\ UNCHANGED <<tree, members, group>>

(***************************************************************************)
(* Their checks and reads, one query each.                                 *)
(***************************************************************************)
AfterName(q) ==
    CASE q.op = "create" -> IF q.own = <<>> THEN "generate" ELSE "ownCode"
      [] q.op # "create" /\ q.to # None -> "walk"
      [] q.op # "create" /\ q.to = None -> IF q.own = <<>> THEN "write" ELSE "ownCode"

CheckName(r) ==
    /\ At(r, "name")
    /\ ~ExistsNameUnderParent(req[r].name, req[r].under, req[r].org)
    /\ Goto(r, AfterName(req[r]))
    /\ UNCHANGED <<tree, members, group>>

\* Mutant: the walk looks at the new parent only.
WalkOneUp(r) ==
    /\ At(r, "walk")
    /\ req[r].at \notin req[r].seen \cup {req[r].org}
    /\ Goto(r, "target")
    /\ UNCHANGED <<tree, members, group>>

\* validateNoCircularReference: up from the new parent, one row at a time; a
\* row that is gone ends the walk as the top does.
WalkUp(r) ==
    LET q == req[r]
        up == IF q.at \in rows THEN parent[q.at] ELSE None
    IN  /\ At(r, "walk")
        /\ q.at \notin q.seen \cup {q.org}
        /\ Continue(r, [q EXCEPT !.seen = @ \cup {q.at}, !.at = up,
                                 !.pc = IF up = None THEN "target" ELSE "walk"])
        /\ UNCHANGED <<tree, members, group>>

ReadTarget(r) ==
    LET q == req[r]
    IN  /\ At(r, "target")
        /\ q.to \in rows
        /\ Continue(r, [q EXCEPT !.prefix = code[q.to],
                                 !.pc = IF q.op = "move" THEN "depth" ELSE "generate"])
        /\ UNCHANGED <<tree, members, group>>

\* Only a move looks at the depth.  On a cycle its queries do not end.
CheckDepth(r) ==
    LET q == req[r]
        above == IF q.to = None THEN 0 ELSE GetAncestorDepth(q.to)
    IN  /\ At(r, "depth")
        /\ \A o \in {q.org, q.to} \cap rows : Grounded(o)
        /\ above + GetSubtreeDepth(q.org) <= MaxDepth
        /\ Goto(r, "generate")
        /\ UNCHANGED <<tree, members, group>>

AfterCode(q) == IF q.op = "create" THEN "insert" ELSE "codes"

\* Mutant: the last number, not the one after it.
GenerateLastCode(r) ==
    LET q == req[r]
    IN  /\ At(r, "generate")
        /\ \E n \in {0} \cup Numbers(q.prefix) :
             /\ \A m \in Numbers(q.prefix) : m <= n
             /\ Continue(r, [q EXCEPT !.new = Append(q.prefix, n), !.pc = AfterCode(q)])
        /\ UNCHANGED <<tree, members, group>>

\* The number after the last one of the children.
GenerateOrganizationCode(r) ==
    LET q == req[r]
    IN  /\ At(r, "generate")
        /\ \E n \in 1..PerLevel :
             /\ n - 1 \in {0} \cup Numbers(q.prefix)
             /\ \A m \in Numbers(q.prefix) : m < n
             /\ Continue(r, [q EXCEPT !.new = Append(q.prefix, n), !.pc = AfterCode(q)])
        /\ UNCHANGED <<tree, members, group>>

CheckOwnCode(r) ==
    /\ At(r, "ownCode")
    /\ ~ExistsCode(req[r].own, req[r].org)
    /\ Continue(r, [req[r] EXCEPT !.new = req[r].own,
                                  !.pc = IF req[r].op = "create" THEN "insert" ELSE "write"])
    /\ UNCHANGED <<tree, members, group>>

(***************************************************************************)
(* Their statements.  A code is a unique column of twenty characters, and  *)
(* parent_id a foreign key.                                                *)
(***************************************************************************)
\* Mutant: the column is as long as it needs to be.
AnyLength(c) == TRUE

Fits(c) == Len(c) <= CodeLevels
HasParent(q) == q.to = None \/ q.to \in rows

\* Ends the request; a code given by hand is marked.
Written(r) ==
    /\ req' = [req EXCEPT ![r] = Idle]
    /\ torn' = (torn \/ req[r].own # <<>>)
    /\ UNCHANGED crossed

InsertOrganization(r) ==
    LET q == req[r]
    IN  /\ At(r, "insert")
        /\ HasParent(q)
        /\ Fits(q.new) /\ ~ExistsCode(q.new, None)
        /\ \E o \in Orgs \ used :
             /\ rows' = rows \cup {o}
             /\ used' = used \cup {o}
             /\ parent' = [parent EXCEPT ![o] = q.to]
             /\ code' = [code EXCEPT ![o] = q.new]
             /\ name' = [name EXCEPT ![o] = q.name]
        /\ Written(r)
        /\ UNCHANGED <<members, group>>

\* Mutant: the last number of the old code is kept as well.
RenumberedOffByOne(old, new) ==
    [o \in Orgs |-> IF o \in rows /\ IsStrictPrefix(old, code[o])
                    THEN new \o SubSeq(code[o], Len(old), Len(code[o]))
                    ELSE code[o]]

Renumbered(old, new) ==
    [o \in Orgs |-> IF o \in rows /\ IsStrictPrefix(old, code[o])
                    THEN new \o SubSeq(code[o], Len(old) + 1, Len(code[o]))
                    ELSE code[o]]

\* Mutant: the descendants keep their codes.
KeepDescendantCodes(r) ==
    /\ At(r, "codes")
    /\ Goto(r, IF req[r].own = <<>> THEN "write" ELSE "ownCode")
    /\ UNCHANGED <<tree, members, group>>

UpdateDescendantCodes(r) ==
    /\ At(r, "codes")
    /\ code' = Renumbered(req[r].old, req[r].new)
    /\ \A x, y \in rows : Fits(code'[x]) /\ (code'[x] = code'[y] => x = y)
    /\ Goto(r, IF req[r].own = <<>> THEN "write" ELSE "ownCode")
    /\ UNCHANGED <<rows, used, parent, name, members, group>>

WriteOrganization(r) ==
    LET q == req[r]
    IN  /\ At(r, "write")
        /\ q.org \in rows
        /\ HasParent(q)
        /\ Fits(q.new) /\ ~ExistsCode(q.new, q.org)
        /\ parent' = IF Moves(q) THEN [parent EXCEPT ![q.org] = q.to] ELSE parent
        /\ code' = IF q.new = <<>> THEN code ELSE [code EXCEPT ![q.org] = q.new]
        /\ name' = IF q.name = None THEN name ELSE [name EXCEPT ![q.org] = q.name]
        /\ Written(r)
        /\ UNCHANGED <<rows, used, members, group>>

(***************************************************************************)
(* The seed, in one transaction: an organization that has the code takes   *)
(* the name of the seed; one that is missing is created under the one      *)
(* whose code is its own without the last number.                          *)
(***************************************************************************)
SeededAs(at, o) == CHOOSE c \in DOMAIN Seed : at[c] = o

UpsertOrganizations ==
    /\ "seed" \in Ops
    /\ \A c \in DOMAIN Seed : Fits(c)
    /\ \E at \in [DOMAIN Seed -> Orgs] :
         LET new == Range(at) \ rows
         IN  /\ \A c \in DOMAIN Seed : IF ExistsCode(c, None)
                                       THEN at[c] \in rows /\ code[at[c]] = c
                                       ELSE at[c] \notin used
             /\ IsInjective(at)
             /\ rows' = rows \cup new
             /\ used' = used \cup new
             /\ parent' = [o \in Orgs |->
                             IF o \notin new THEN parent[o]
                             ELSE IF Len(SeededAs(at, o)) = 1 THEN None
                             ELSE at[Front(SeededAs(at, o))]]
             /\ code' = [o \in Orgs |-> IF o \in new THEN SeededAs(at, o) ELSE code[o]]
             /\ name' = [o \in Orgs |-> IF o \in Range(at) THEN Seed[SeededAs(at, o)]
                                                          ELSE name[o]]
    /\ crossed' = (crossed \/ \E r \in Requests : Moves(req[r]))
    /\ UNCHANGED <<members, group, req, torn>>

(***************************************************************************)
(* Deletions: of one that is childless and memberless, and of a subtree    *)
(* with its memberships.  The Keycloak groups go afterwards, by name.      *)
(***************************************************************************)
Erase(S) ==
    /\ rows' = rows \ S
    /\ parent' = [o \in Orgs |-> IF o \in S THEN None ELSE parent[o]]
    /\ code' = [o \in Orgs |-> IF o \in S THEN <<>> ELSE code[o]]
    /\ name' = [o \in Orgs |-> IF o \in S THEN None ELSE name[o]]
    /\ UNCHANGED used

Children(S) == {o \in rows : parent[o] \in S}
MembersOf(S) == {m \in members : m[2] \in S}

DeleteOrganization(r, o) ==
    /\ Free(r, "delete")
    /\ o \in rows
    /\ Begin(r, [Request("delete", "hasChildren") EXCEPT !.org = o, !.todo = {name[o]}])
    /\ UNCHANGED <<tree, members, group>>

HasChildren(r) ==
    /\ At(r, "hasChildren")
    /\ Children({req[r].org}) = {}
    /\ Goto(r, "hasUsers")
    /\ UNCHANGED <<tree, members, group>>

HasUsers(r) ==
    /\ At(r, "hasUsers")
    /\ MembersOf({req[r].org}) = {}
    /\ Goto(r, "delete")
    /\ UNCHANGED <<tree, members, group>>

\* Mutant: no foreign keys; the checks made before are relied on.
DeleteUnchecked(r) ==
    /\ At(r, "delete")
    /\ req[r].org \in rows
    /\ Erase({req[r].org})
    /\ Goto(r, "kcDelete")
    /\ UNCHANGED <<members, group>>

\* The transaction is refused by the foreign keys of what came meanwhile.
Delete(r) ==
    /\ At(r, "delete")
    /\ req[r].org \in rows
    /\ Children({req[r].org}) = {} /\ MembersOf({req[r].org}) = {}
    /\ Erase({req[r].org})
    /\ Goto(r, "kcDelete")
    /\ UNCHANGED <<members, group>>

DeleteOrganizationCascade(r, o) ==
    /\ Free(r, "cascade")
    /\ o \in rows /\ Grounded(o)
    /\ Begin(r, [Request("cascade", "cascade") EXCEPT
                   !.org = o, !.todo = {name[x] : x \in Subtree(o)}])
    /\ UNCHANGED <<tree, members, group>>

\* The subtree is looked for again; of an organization that is gone it is empty.
DeleteCascade(r) ==
    LET gone == Subtree(req[r].org)
    IN  /\ At(r, "cascade")
        /\ req[r].org \in rows => Grounded(req[r].org)
        /\ Erase(gone)
        /\ members' = members \ MembersOf(gone)
        /\ Goto(r, "kcDelete")
        /\ UNCHANGED group

Without(r, x) ==
    IF req[r].todo = {x} THEN Idle ELSE [req[r] EXCEPT !.todo = @ \ {x}]

DeleteGroup(r) ==
    /\ At(r, "kcDelete")
    /\ \E n \in req[r].todo :
         /\ group' = [group EXCEPT ![n] = {}]
         /\ Continue(r, Without(r, n))
    /\ UNCHANGED <<tree, members>>

\* A cascade goes on past a group that Keycloak does not delete.
KeepGroup(r) ==
    /\ At(r, "kcDelete") /\ req[r].op = "cascade"
    /\ \E n \in req[r].todo : Continue(r, Without(r, n))
    /\ UNCHANGED <<tree, members, group>>

(***************************************************************************)
(* Members.  Two routes go on to Keycloak, by the name read; three leave   *)
(* Keycloak alone.                                                         *)
(***************************************************************************)
AssignUserToGroups(r, u, gs) ==
    /\ Free(r, "assign")
    /\ gs # {} /\ gs \subseteq used
    /\ Begin(r, [Request("assign", "join") EXCEPT !.user = u, !.todo = gs])
    /\ UNCHANGED <<tree, members, group>>

JoinGroup(r) ==
    /\ At(r, "join")
    /\ \E g \in req[r].todo \cap rows :
         /\ members' = members \cup {<<req[r].user, g>>}
         /\ Continue(r, [req[r] EXCEPT !.org = g, !.name = name[g], !.pc = "kcJoin"])
    /\ UNCHANGED <<tree, group>>

\* A user whose kc_id is not known joins no group there.
EnsureGroupExistsAndAssignUser(r) ==
    /\ At(r, "kcJoin")
    /\ \/ group' = [group EXCEPT ![req[r].name] = @ \cup {req[r].user}]
       \/ group' = group
    /\ Continue(r, IF req[r].todo = {req[r].org} THEN Idle
                   ELSE [req[r] EXCEPT !.todo = @ \ {req[r].org}, !.pc = "join"])
    /\ UNCHANGED <<tree, members>>

RemoveUserFromGroup(r, u, g) ==
    /\ Free(r, "unassign")
    /\ g \in rows /\ <<u, g>> \in members
    /\ members' = members \ {<<u, g>>}
    /\ Begin(r, [Request("unassign", "kcLeave") EXCEPT !.user = u, !.name = name[g]])
    /\ UNCHANGED <<tree, group>>

RemoveFromKeycloakGroup(r) ==
    /\ At(r, "kcLeave")
    /\ \/ group' = [group EXCEPT ![req[r].name] = @ \ {req[r].user}]
       \/ group' = group
    /\ Finish(r)
    /\ UNCHANGED <<tree, members>>

AssignUserToOrganizations(u, gs) ==
    /\ "assignDb" \in Ops
    /\ gs \subseteq rows
    /\ members' = members \cup ({u} \X gs)
    /\ UNCHANGED <<tree, group, req, history>>

RemoveUserFromOrganization(u, g) ==
    /\ "unassignDb" \in Ops
    /\ <<u, g>> \in members
    /\ members' = members \ {<<u, g>>}
    /\ UNCHANGED <<tree, group, req, history>>

\* Its query sees only the organizations that hang from the top.
ReplaceUserGroups(r, u, gs) ==
    /\ Free(r, "replace")
    /\ gs \subseteq rows
    /\ Begin(r, [Request("replace", "replace") EXCEPT
                   !.user = u, !.chosen = gs,
                   !.todo = {g \in rows : <<u, g>> \in members /\ Grounded(g)}])
    /\ UNCHANGED <<tree, members, group>>

TakeOut(r) ==
    /\ At(r, "replace")
    /\ \E g \in req[r].todo :
         /\ members' = members \ {<<req[r].user, g>>}
         /\ Continue(r, [req[r] EXCEPT !.todo = @ \ {g}])
    /\ UNCHANGED <<tree, group>>

PutIn(r) ==
    /\ At(r, "replace") /\ req[r].todo = {}
    /\ req[r].chosen \subseteq rows
    /\ members' = members \cup ({req[r].user} \X req[r].chosen)
    /\ Finish(r)
    /\ UNCHANGED <<tree, group>>

\* An error, a refused check or a crash.
Abort(r) ==
    /\ req[r].pc # "idle"
    /\ req' = [req EXCEPT ![r] = Idle]
    /\ torn' = (torn \/ (Moves(req[r]) /\ req[r].pc \in {"ownCode", "write"}))
    /\ UNCHANGED <<tree, members, group, crossed>>

(***************************************************************************)
(* The specification.                                                      *)
(***************************************************************************)
Init ==
    /\ rows = {} /\ used = {}
    /\ parent = [o \in Orgs |-> None]
    /\ code = [o \in Orgs |-> <<>>]
    /\ name = [o \in Orgs |-> None]
    /\ members = {}
    /\ group = [n \in Names |-> {}]
    /\ req = [r \in Requests |-> Idle]
    /\ torn = FALSE /\ crossed = FALSE

\* Bound: the codes that requests give by hand, none or one at the top.
OwnCodes == {<<>>, <<PerLevel>>}

TreeStep(r) ==
    \/ \E n \in Names, p \in Orgs \cup {None}, own \in OwnCodes : CreateOrganization(r, n, p, own)
    \/ \E o \in Orgs, p \in Orgs \cup {None} : MoveOrganization(r, o, p)
    \/ \E o \in Orgs, n \in Names \cup {None}, p \in Orgs \cup {None}, own \in OwnCodes :
         UpdateOrganization(r, o, n, p, own)
    \/ CheckName(r) \/ WalkUp(r) \/ ReadTarget(r) \/ CheckDepth(r)
    \/ GenerateOrganizationCode(r) \/ CheckOwnCode(r)
    \/ InsertOrganization(r) \/ UpdateDescendantCodes(r) \/ WriteOrganization(r)

DeletionStep(r) ==
    \/ \E o \in Orgs : DeleteOrganization(r, o) \/ DeleteOrganizationCascade(r, o)
    \/ HasChildren(r) \/ HasUsers(r) \/ Delete(r) \/ DeleteCascade(r)
    \/ DeleteGroup(r) \/ KeepGroup(r)

MemberStep(r) ==
    \/ \E u \in Users, gs \in SUBSET Orgs : AssignUserToGroups(r, u, gs) \/ ReplaceUserGroups(r, u, gs)
    \/ \E u \in Users, g \in Orgs : RemoveUserFromGroup(r, u, g)
    \/ JoinGroup(r) \/ EnsureGroupExistsAndAssignUser(r) \/ RemoveFromKeycloakGroup(r)
    \/ TakeOut(r) \/ PutIn(r)

Next ==
    \/ \E r \in Requests : TreeStep(r) \/ DeletionStep(r) \/ MemberStep(r) \/ Abort(r)
    \/ UpsertOrganizations
    \/ \E u \in Users, gs \in SUBSET Orgs : AssignUserToOrganizations(u, gs)
    \/ \E u \in Users, g \in Orgs : RemoveUserFromOrganization(u, g)

Spec == Init /\ [][Next]_vars

(***************************************************************************)
(* Properties.                                                             *)
(***************************************************************************)
\* A parent and an organization of a membership are there, however a deletion
\* overlaps with a creation, a move or a membership
\* (organization_service.go:152-213 and 389-423, group_role_service.go:173-195).
ParentsExist == \A o \in rows : parent[o] \in rows \cup {None}
MembersExist == \A m \in members : m[2] \in rows
NothingDangles == ParentsExist /\ MembersExist

\* No organization is its own ancestor, unless a move overlapped with another, a
\* creation or a seed: among any organizations one has its parent outside
\* (organization_service.go:589-628).
Forest ==
    crossed \/ \A S \in SUBSET rows : S # {} => \E o \in S : parent[o] \notin S

\* A code is the code of the parent with one number more, as the next code, the
\* renumbering of a subtree and the seed take it to be
\* (organization_service.go:189-207, organization_repository.go:136-208).
Renumbering(q) == Moves(q) /\ q.pc \in {"ownCode", "write"}
CodesFollowTree ==
    \/ torn \/ crossed \/ \E r \in Requests : Renumbering(req[r])
    \/ \A o \in rows :
         /\ code[o] # <<>>
         /\ Front(code[o]) = IF parent[o] = None THEN <<>> ELSE code[parent[o]]

\* No organization is deeper than the ten levels that a move keeps to: what an
\* update and a creation do not count, the width of the column does
\* (organization_service.go:173-185, model/organization.go:10).
DepthBounded ==
    torn \/ crossed \/ \A o \in rows : GetAncestorDepth(o) <= MaxDepth

=============================================================================
