----------------------- MODULE OrganizationTreeProofs -----------------------
(***************************************************************************)
(* For any number of organizations, users and overlapping requests: the    *)
(* types of OrganizationTree, that parents and organizations of members    *)
(* are there, that the organizations form a forest unless a move           *)
(* overlapped with another, with a creation or with the seed, and that     *)
(* their codes follow the forest, which bounds its depth.                  *)
(***************************************************************************)
EXTENDS OrganizationTree, SequenceTheorems, WellFoundedInduction, FiniteSetTheorems, TLAPS

StoresOK ==
    /\ rows \subseteq used /\ used \subseteq Orgs
    /\ parent \in [Orgs -> Orgs \cup {None}]
    /\ code \in [Orgs -> Codes]
    /\ name \in [Orgs -> Names \cup {None}]
    /\ members \subseteq Users \X Orgs
    /\ group \in [Names -> SUBSET Users]
    /\ torn \in BOOLEAN /\ crossed \in BOOLEAN

\* What a request has filled in when it comes to a step that uses it.
Carries(q) ==
    /\ q.pc = "insert" => q.op = "create"
    /\ q.pc \in {"join", "kcJoin"} => q.op = "assign"
    /\ q.pc = "walk" => Moves(q) /\ q.to # None /\ q.at \in Orgs
    /\ q.pc = "name" => \/ q.op = "create"
                        \/ q.op = "update" /\ (q.to # None => q.at \in Orgs)
    /\ q.pc \in {"join", "kcJoin", "replace"} => q.user \in Users

RequestsOK ==
    /\ req \in [Requests -> RequestType]
    /\ \A r \in Requests : Carries(req[r])

IInv == StoresOK /\ RequestsOK /\ NothingDangles

LEMMA InitIInv == Init => IInv
<1> SUFFICES ASSUME Init PROVE IInv
  OBVIOUS
<1>1. <<>> \in Codes
  BY DEF Codes
<1>2. StoresOK /\ NothingDangles
  BY <1>1 DEF Init, StoresOK, NothingDangles, ParentsExist, MembersExist
<1>3. Idle \in RequestType /\ Carries(Idle)
  BY <1>1 DEF Idle, RequestType, Carries, AllOps, Steps
<1>4. RequestsOK
  BY <1>3 DEF Init, RequestsOK
<1> QED  BY <1>2, <1>4 DEF IInv

(***************************************************************************)
(* A step moves one request to a record q.                                 *)
(***************************************************************************)
LEMMA IdleOK == Idle \in RequestType /\ Carries(Idle)
<1>1. <<>> \in Codes
  BY DEF Codes
<1> QED  BY <1>1 DEF Idle, RequestType, Carries, AllOps, Steps

LEMMA RequestStep ==
  ASSUME RequestsOK, NEW r \in Requests, NEW q \in RequestType, Carries(q),
         req' = [req EXCEPT ![r] = q]
  PROVE  RequestsOK'
  BY DEF RequestsOK

\* A step that leaves the stores alone has nothing else to show.
LEMMA QuietStep ==
  ASSUME IInv, NEW r \in Requests, NEW q \in RequestType, Carries(q),
         req' = [req EXCEPT ![r] = q], UNCHANGED <<tree, members, group>>,
         torn' \in BOOLEAN, crossed' \in BOOLEAN
  PROVE  IInv'
<1>1. RequestsOK'
  BY RequestStep DEF IInv
<1>2. StoresOK' /\ NothingDangles'
  BY DEF IInv, StoresOK, NothingDangles, ParentsExist, MembersExist, tree
<1> QED  BY <1>1, <1>2 DEF IInv

LEMMA BeginStep ==
  ASSUME IInv, NEW r \in Requests, NEW q \in RequestType, Carries(q),
         Begin(r, q), UNCHANGED <<tree, members, group>>
  PROVE  IInv'
<1>1. torn' \in BOOLEAN /\ crossed' \in BOOLEAN
  BY DEF Begin, IInv, StoresOK
<1> QED  BY <1>1, QuietStep DEF Begin

LEMMA ContinueStep ==
  ASSUME IInv, NEW r \in Requests, NEW q \in RequestType, Carries(q),
         Continue(r, q), UNCHANGED <<tree, members, group>>
  PROVE  IInv'
<1>1. torn' \in BOOLEAN /\ crossed' \in BOOLEAN
  BY DEF Continue, history, IInv, StoresOK
<1> QED  BY <1>1, QuietStep DEF Continue

LEMMA GotoStep ==
  ASSUME IInv, NEW r \in Requests, NEW pc \in Steps,
         pc \notin {"insert", "walk", "name", "join", "kcJoin", "replace"},
         Goto(r, pc), UNCHANGED <<tree, members, group>>
  PROVE  IInv'
<1> DEFINE q == [req[r] EXCEPT !.pc = pc]
<1>1. q \in RequestType /\ Carries(q)
  BY DEF IInv, RequestsOK, RequestType, Carries
<1> QED  BY <1>1, ContinueStep DEF Goto

(***************************************************************************)
(* The requests that write the tree.                                       *)
(***************************************************************************)
\* One field at a time, a request keeps its type.
LEMMA FieldTypes ==
  ASSUME NEW q \in RequestType
  PROVE  /\ \A pc \in Steps : [q EXCEPT !.pc = pc] \in RequestType
         /\ \A c \in Codes : [q EXCEPT !.new = c] \in RequestType
         /\ \A c \in Codes : [q EXCEPT !.prefix = c] \in RequestType
         /\ \A S \in SUBSET Orgs : [q EXCEPT !.seen = S] \in RequestType
         /\ \A o \in Orgs \cup {None} : [q EXCEPT !.at = o] \in RequestType
         /\ \A o \in Orgs \cup {None} : [q EXCEPT !.org = o] \in RequestType
         /\ \A n \in Names \cup {None} : [q EXCEPT !.name = n] \in RequestType
         /\ \A S \in SUBSET (Orgs \cup Names \cup {None}) : [q EXCEPT !.todo = S] \in RequestType
<1> USE DEF RequestType
<1>1. \A pc \in Steps : [q EXCEPT !.pc = pc] \in RequestType
  OBVIOUS
<1>2. \A c \in Codes : [q EXCEPT !.new = c] \in RequestType
  OBVIOUS
<1>3. \A c \in Codes : [q EXCEPT !.prefix = c] \in RequestType
  OBVIOUS
<1>4. \A S \in SUBSET Orgs : [q EXCEPT !.seen = S] \in RequestType
  OBVIOUS
<1>5. \A o \in Orgs \cup {None} : [q EXCEPT !.at = o] \in RequestType
  OBVIOUS
<1>6. \A o \in Orgs \cup {None} : [q EXCEPT !.org = o] \in RequestType
  OBVIOUS
<1>7. \A n \in Names \cup {None} : [q EXCEPT !.name = n] \in RequestType
  OBVIOUS
<1>8. \A S \in SUBSET (Orgs \cup Names \cup {None}) : [q EXCEPT !.todo = S] \in RequestType
  OBVIOUS
<1> HIDE DEF RequestType
<1> QED  BY <1>1, <1>2, <1>3, <1>4, <1>5, <1>6, <1>7, <1>8

LEMMA AppendCode ==
  ASSUME NEW c \in Codes, NEW n \in 1..PerLevel
  PROVE  Append(c, n) \in Codes
<1>1. n \in Nat \ {0}
  BY BoundAssumption
<1> QED  BY <1>1, AppendProperties DEF Codes

LEMMA ChecksPreserve ==
  ASSUME IInv, NEW r \in Requests,
         CheckName(r) \/ WalkUp(r) \/ ReadTarget(r) \/ CheckDepth(r)
           \/ GenerateOrganizationCode(r) \/ CheckOwnCode(r)
  PROVE  IInv'
<1>0. req[r] \in RequestType /\ Carries(req[r])
  BY DEF IInv, RequestsOK
<1>1. CASE CheckName(r)
  <2> DEFINE q == [req[r] EXCEPT !.pc = AfterName(req[r])]
  <2>1. /\ AfterName(req[r]) \in {"generate", "ownCode", "walk", "write"}
        /\ AfterName(req[r]) = "walk" => req[r].op = "update" /\ req[r].to # None /\ req[r].at \in Orgs
    BY <1>0, <1>1 DEF AfterName, Carries, CheckName, At
  <2>2. q \in RequestType
    BY <1>0, <2>1 DEF RequestType, Steps
  <2>3. Carries(q)
    BY <1>0, <2>1 DEF RequestType, Carries, Moves
  <2> QED  BY <1>1, <2>2, <2>3, ContinueStep DEF CheckName, Goto
<1>2. CASE WalkUp(r)
  <2> DEFINE up == IF req[r].at \in rows THEN parent[req[r].at] ELSE None
             q == [req[r] EXCEPT !.seen = @ \cup {req[r].at}, !.at = up,
                                 !.pc = IF up = None THEN "target" ELSE "walk"]
  <2>1. up \in Orgs \cup {None}
    BY DEF IInv, StoresOK
  <2>2. req[r].at \in Orgs /\ Moves(req[r]) /\ req[r].to # None
    BY <1>0, <1>2 DEF WalkUp, At, Carries
  <2>3. Continue(r, q) /\ UNCHANGED <<tree, members, group>>
    BY <1>2 DEF WalkUp
  <2> HIDE DEF up
  <2>4. q \in RequestType
    <3>1. (IF up = None THEN "target" ELSE "walk") \in Steps
      BY DEF Steps
    <3>2. req[r].seen \cup {req[r].at} \in SUBSET Orgs
      BY <1>0, <2>2 DEF RequestType
    <3>3. [req[r] EXCEPT !.seen = @ \cup {req[r].at}] \in RequestType
      BY <1>0, <3>2, FieldTypes
    <3>4. [req[r] EXCEPT !.seen = @ \cup {req[r].at}, !.at = up] \in RequestType
      BY <2>1, <3>3, FieldTypes
    <3> QED  BY <3>1, <3>4, FieldTypes
  <2>5. Carries(q)
    BY <1>0, <2>1, <2>2 DEF RequestType, Carries, Moves
  <2> QED  BY <2>3, <2>4, <2>5, ContinueStep
<1>3. CASE ReadTarget(r)
  <2> DEFINE q == [req[r] EXCEPT !.prefix = code[req[r].to],
                                 !.pc = IF req[r].op = "move" THEN "depth" ELSE "generate"]
  <2>1. code[req[r].to] \in Codes
    BY <1>3 DEF ReadTarget, IInv, StoresOK
  <2>2. q \in RequestType
    <3>1. (IF req[r].op = "move" THEN "depth" ELSE "generate") \in Steps
      BY DEF Steps
    <3>2. [req[r] EXCEPT !.prefix = code[req[r].to]] \in RequestType
      BY <1>0, <2>1, FieldTypes
    <3> QED  BY <3>1, <3>2, FieldTypes
  <2>3. Carries(q)
    BY <1>0 DEF RequestType, Carries
  <2> QED  BY <1>3, <2>2, <2>3, ContinueStep DEF ReadTarget
<1>4. CASE CheckDepth(r)
  BY <1>4, GotoStep DEF CheckDepth, Steps
<1>5. CASE GenerateOrganizationCode(r)
  <2>1. PICK n \in 1..PerLevel :
          Continue(r, [req[r] EXCEPT !.new = Append(req[r].prefix, n), !.pc = AfterCode(req[r])])
    BY <1>5 DEF GenerateOrganizationCode
  <2> DEFINE q == [req[r] EXCEPT !.new = Append(req[r].prefix, n), !.pc = AfterCode(req[r])]
  <2>2. Append(req[r].prefix, n) \in Codes
    BY <1>0, AppendCode DEF RequestType
  <2>3. q \in RequestType
    <3>1. AfterCode(req[r]) \in Steps
      BY DEF AfterCode, Steps
    <3>2. [req[r] EXCEPT !.new = Append(req[r].prefix, n)] \in RequestType
      BY <1>0, <2>2, FieldTypes
    <3> QED  BY <3>1, <3>2, FieldTypes
  <2>4. Carries(q)
    BY <1>0 DEF RequestType, Carries, AfterCode
  <2> QED  BY <1>5, <2>1, <2>3, <2>4, ContinueStep DEF GenerateOrganizationCode
<1>6. CASE CheckOwnCode(r)
  <2> DEFINE q == [req[r] EXCEPT !.new = req[r].own,
                                 !.pc = IF req[r].op = "create" THEN "insert" ELSE "write"]
  <2>1. q \in RequestType
    <3>1. req[r].own \in Codes
      BY <1>0 DEF RequestType
    <3>2. (IF req[r].op = "create" THEN "insert" ELSE "write") \in Steps
      BY DEF Steps
    <3>3. [req[r] EXCEPT !.new = req[r].own] \in RequestType
      BY <1>0, <3>1, FieldTypes
    <3> QED  BY <3>2, <3>3, FieldTypes
  <2>2. Carries(q)
    BY <1>0 DEF RequestType, Carries
  <2> QED  BY <1>6, <2>1, <2>2, ContinueStep DEF CheckOwnCode
<1> QED  BY <1>1, <1>2, <1>3, <1>4, <1>5, <1>6

LEMMA OwnCodesOK == OwnCodes \subseteq Codes /\ <<>> \in Codes
<1>1. PerLevel \in Nat \ {0}
  BY BoundAssumption
<1> QED  BY <1>1 DEF OwnCodes, Codes

LEMMA CreatePreserves ==
  ASSUME IInv, NEW r \in Requests, NEW n \in Names, NEW p \in Orgs \cup {None},
         NEW own \in OwnCodes, CreateOrganization(r, n, p, own)
  PROVE  IInv'
<1> DEFINE q == [Request("create", "name") EXCEPT
                   !.name = n, !.under = p, !.to = p, !.own = own,
                   !.prefix = IF p = None THEN <<>> ELSE code[p]]
<1>1. (IF p = None THEN <<>> ELSE code[p]) \in Codes
  BY OwnCodesOK DEF IInv, StoresOK
<1>2. q \in RequestType /\ Carries(q)
  BY <1>1, OwnCodesOK DEF Request, Idle, RequestType, Carries, AllOps, Steps
<1> QED  BY <1>2, BeginStep DEF CreateOrganization

LEMMA HandlersPreserve ==
  ASSUME IInv, NEW r \in Requests, NEW o \in Orgs, NEW n \in Names \cup {None},
         NEW p \in Orgs \cup {None}, NEW own \in OwnCodes,
         MoveOrganization(r, o, p) \/ UpdateOrganization(r, o, n, p, own)
  PROVE  IInv'
<1>0. own \in Codes /\ <<>> \in Codes /\ code[o] \in Codes
  BY OwnCodesOK DEF IInv, StoresOK
<1>2. CASE MoveOrganization(r, o, p)
  <2> DEFINE q == [Request("move", IF p = None THEN "depth" ELSE "walk") EXCEPT
                     !.org = o, !.to = p, !.at = p, !.old = code[o]]
  <2>1. q \in RequestType /\ Carries(q)
    BY <1>0 DEF Request, Idle, RequestType, Carries, AllOps, Steps, Moves
  <2> QED  BY <1>2, <2>1, BeginStep DEF MoveOrganization
<1>3. CASE UpdateOrganization(r, o, n, p, own)
  <2> DEFINE q == [Request("update", "idle") EXCEPT
                     !.org = o, !.old = code[o], !.under = p,
                     !.name = IF n = name[o] THEN None ELSE n,
                     !.to = IF p = parent[o] THEN None ELSE p,
                     !.at = IF p = parent[o] THEN None ELSE p,
                     !.own = IF own = code[o] THEN <<>> ELSE own]
             q2 == [q EXCEPT !.pc = FirstOf(q)]
  <2>1. q \in RequestType
    BY <1>0 DEF Request, Idle, RequestType, AllOps, Steps
  <2>2. /\ q.op = "update" /\ q.at = q.to
        /\ FirstOf(q) \in {"name", "walk", "ownCode"}
        /\ FirstOf(q) = "walk" => q.to # None
    BY DEF Request, Idle, FirstOf
  <2>5. Begin(r, q2) /\ UNCHANGED <<tree, members, group>>
    BY <1>3 DEF UpdateOrganization
  <2> HIDE DEF q
  <2>3. q2 \in RequestType
    BY <2>1, <2>2 DEF RequestType, Steps
  <2>4. Carries(q2)
    BY <2>1, <2>2 DEF RequestType, Carries, Moves
  <2> QED  BY <2>3, <2>4, <2>5, BeginStep
<1> QED  BY <1>2, <1>3

\* The new codes of a renumbering are codes.
LEMMA RenumberedCodes ==
  ASSUME StoresOK, NEW old \in Codes, NEW new \in Codes
  PROVE  Renumbered(old, new) \in [Orgs -> Codes]
<1> SUFFICES ASSUME NEW o \in Orgs, IsStrictPrefix(old, code[o])
             PROVE  new \o SubSeq(code[o], Len(old) + 1, Len(code[o])) \in Codes
  BY DEF Renumbered, StoresOK
<1> DEFINE c == code[o]
<1>1. c \in Seq(Nat \ {0}) /\ Len(old) \in Nat /\ Len(c) \in Nat
  BY DEF StoresOK, Codes
<1>2. \A i \in Len(old) + 1 .. Len(c) : c[i] \in Nat \ {0}
  BY <1>1
<1>3. SubSeq(c, Len(old) + 1, Len(c)) \in Seq(Nat \ {0})
  BY <1>1, <1>2, SubSeqProperties
<1> QED  BY <1>3 DEF Codes

LEMMA StatementsPreserve ==
  ASSUME IInv, NEW r \in Requests,
         InsertOrganization(r) \/ UpdateDescendantCodes(r) \/ WriteOrganization(r)
  PROVE  IInv'
<1>0. req[r] \in RequestType /\ Carries(req[r])
  BY DEF IInv, RequestsOK
<1>1. CASE InsertOrganization(r)
  <2>1. PICK o \in Orgs \ used :
          /\ rows' = rows \cup {o}
          /\ used' = used \cup {o}
          /\ parent' = [parent EXCEPT ![o] = req[r].to]
          /\ code' = [code EXCEPT ![o] = req[r].new]
          /\ name' = [name EXCEPT ![o] = req[r].name]
    BY <1>1 DEF InsertOrganization
  <2>2. /\ req' = [req EXCEPT ![r] = Idle] /\ torn' \in BOOLEAN /\ crossed' = crossed
        /\ members' = members /\ group' = group /\ req[r].to \in rows \cup {None}
    BY <1>1 DEF InsertOrganization, Written, HasParent
  <2>3. StoresOK'
    BY <1>0, <2>1, <2>2 DEF IInv, StoresOK, RequestType
  <2>4. NothingDangles'
    BY <2>1, <2>2 DEF IInv, StoresOK, NothingDangles, ParentsExist, MembersExist
  <2> QED  BY <2>2, <2>3, <2>4, IdleOK, RequestStep DEF IInv
<1>2. CASE UpdateDescendantCodes(r)
  <2> DEFINE q == [req[r] EXCEPT !.pc = IF req[r].own = <<>> THEN "write" ELSE "ownCode"]
  <2>1. q \in RequestType /\ Carries(q)
    <3>1. (IF req[r].own = <<>> THEN "write" ELSE "ownCode") \in Steps
      BY DEF Steps
    <3>2. q \in RequestType
      BY <1>0, <3>1, FieldTypes
    <3>3. Carries(q)
      BY <1>0 DEF RequestType, Carries
    <3> QED  BY <3>2, <3>3
  <2>2. RequestsOK'
    BY <1>2, <2>1, RequestStep DEF IInv, UpdateDescendantCodes, Goto, Continue
  <2>3. code' \in [Orgs -> Codes]
    BY <1>0, <1>2, RenumberedCodes DEF UpdateDescendantCodes, IInv, RequestType
  <2>4. UNCHANGED <<rows, used, parent, name, members, group, torn, crossed>>
    BY <1>2 DEF UpdateDescendantCodes, Goto, Continue, history
  <2> QED  BY <2>2, <2>3, <2>4 DEF IInv, StoresOK, NothingDangles, ParentsExist, MembersExist
<1>3. CASE WriteOrganization(r)
  <2>1. /\ parent' = IF Moves(req[r]) THEN [parent EXCEPT ![req[r].org] = req[r].to] ELSE parent
        /\ code' = IF req[r].new = <<>> THEN code ELSE [code EXCEPT ![req[r].org] = req[r].new]
        /\ name' = IF req[r].name = None THEN name ELSE [name EXCEPT ![req[r].org] = req[r].name]
        /\ req' = [req EXCEPT ![r] = Idle] /\ torn' \in BOOLEAN /\ crossed' = crossed
        /\ req[r].to \in rows \cup {None}
        /\ UNCHANGED <<rows, used, members, group>>
    BY <1>3 DEF WriteOrganization, Written, HasParent
  <2>2. parent' \in [Orgs -> Orgs \cup {None}]
    BY <1>0, <2>1 DEF IInv, StoresOK, RequestType
  <2>3. code' \in [Orgs -> Codes]
    BY <1>0, <2>1 DEF IInv, StoresOK, RequestType
  <2>4. name' \in [Orgs -> Names \cup {None}]
    BY <1>0, <2>1 DEF IInv, StoresOK, RequestType
  <2>5. StoresOK'
    BY <2>1, <2>2, <2>3, <2>4 DEF IInv, StoresOK
  <2>6. NothingDangles'
    BY <2>1 DEF IInv, StoresOK, NothingDangles, ParentsExist, MembersExist
  <2> QED  BY <2>1, <2>5, <2>6, IdleOK, RequestStep DEF IInv
<1> QED  BY <1>1, <1>2, <1>3

\* The seed: at gives every code its organization.
SeedAt(at) ==
    LET new == Range(at) \ rows
    IN  /\ at \in [DOMAIN Seed -> Orgs]
        /\ \A c \in DOMAIN Seed : IF ExistsCode(c, None)
                                  THEN at[c] \in rows /\ code[at[c]] = c
                                  ELSE at[c] \notin used
        /\ rows' = rows \cup new
        /\ used' = used \cup new
        /\ parent' = [o \in Orgs |->
                        IF o \notin new THEN parent[o]
                        ELSE IF Len(SeededAs(at, o)) = 1 THEN None ELSE at[Front(SeededAs(at, o))]]
        /\ code' = [o \in Orgs |-> IF o \in new THEN SeededAs(at, o) ELSE code[o]]
        /\ name' = [o \in Orgs |-> IF o \in Range(at) THEN Seed[SeededAs(at, o)] ELSE name[o]]

LEMMA SeedCodes ==
  ASSUME StoresOK, NEW at, SeedAt(at), NEW o \in Range(at)
  PROVE  LET c == SeededAs(at, o)
         IN  /\ c \in DOMAIN Seed /\ c \in Codes /\ at[c] = o
             /\ Len(c) \in Nat \ {0} /\ Seed[c] \in Names
             /\ Len(c) # 1 => Front(c) \in DOMAIN Seed
<1> DEFINE c == SeededAs(at, o)
<1>1. \E d \in DOMAIN Seed : at[d] = o
  BY DEF SeedAt, Range
<1>2. c \in DOMAIN Seed /\ at[c] = o
  BY <1>1 DEF SeededAs
<1> HIDE DEF c
<1>3. c \in Codes /\ c # <<>> /\ Seed[c] \in Names
  BY <1>2, SeedAssumption
<1>4. Len(c) \in Nat \ {0}
  BY <1>3 DEF Codes
<1>5. Len(c) # 1 => Front(c) \in DOMAIN Seed
  <2>1. Len(c) > 1 => Front(c) \in DOMAIN Seed
    BY <1>2, SeedAssumption, Zenon
  <2> QED  BY <1>4, <2>1
<1> QED  BY <1>2, <1>3, <1>4, <1>5 DEF c

LEMMA SeedPreserves ==
  ASSUME IInv, UpsertOrganizations
  PROVE  IInv'
<1>1. PICK at : SeedAt(at)
  BY DEF UpsertOrganizations, SeedAt
<1> DEFINE new == Range(at) \ rows
<1>2. Range(at) \subseteq Orgs
  BY <1>1 DEF SeedAt, Range
<1>3. ASSUME NEW o \in Range(at)
      PROVE  /\ SeededAs(at, o) \in Codes /\ Seed[SeededAs(at, o)] \in Names
             /\ Len(SeededAs(at, o)) # 1 => at[Front(SeededAs(at, o))] \in Range(at)
  <2>1. /\ SeededAs(at, o) \in Codes /\ Seed[SeededAs(at, o)] \in Names
        /\ Len(SeededAs(at, o)) # 1 => Front(SeededAs(at, o)) \in DOMAIN Seed
    BY <1>1, <1>3, SeedCodes DEF IInv
  <2>2. \A c \in DOMAIN Seed : at[c] \in Range(at)
    BY <1>1 DEF SeedAt, Range
  <2> QED  BY <2>1, <2>2
<1>4. /\ rows' = rows \cup new /\ used' = used \cup new
      /\ parent' = [o \in Orgs |->
                      IF o \notin new THEN parent[o]
                      ELSE IF Len(SeededAs(at, o)) = 1 THEN None ELSE at[Front(SeededAs(at, o))]]
      /\ code' = [o \in Orgs |-> IF o \in new THEN SeededAs(at, o) ELSE code[o]]
      /\ name' = [o \in Orgs |-> IF o \in Range(at) THEN Seed[SeededAs(at, o)] ELSE name[o]]
  BY <1>1 DEF SeedAt
<1>5. UNCHANGED <<members, group, req, torn>> /\ crossed' \in BOOLEAN
  BY DEF UpsertOrganizations, IInv, StoresOK
<1>6. \A o \in rows' : parent'[o] \in rows' \cup {None}
  <2>1. \A o \in new : parent'[o] \in Range(at) \cup {None}
    BY <1>2, <1>3, <1>4
  <2> QED  BY <1>2, <1>4, <2>1 DEF IInv, StoresOK, NothingDangles, ParentsExist
<1>7. parent' \in [Orgs -> Orgs \cup {None}]
  BY <1>2, <1>3, <1>4 DEF IInv, StoresOK
<1>8. code' \in [Orgs -> Codes] /\ name' \in [Orgs -> Names \cup {None}]
  BY <1>3, <1>4 DEF IInv, StoresOK
<1>9. StoresOK'
  BY <1>2, <1>4, <1>5, <1>7, <1>8 DEF IInv, StoresOK
<1>10. NothingDangles'
  BY <1>4, <1>5, <1>6 DEF IInv, NothingDangles, ParentsExist, MembersExist
<1>11. RequestsOK'
  BY <1>5 DEF IInv, RequestsOK
<1> QED  BY <1>9, <1>10, <1>11 DEF IInv

(***************************************************************************)
(* Deletions and members.                                                  *)
(***************************************************************************)
LEMMA WithoutOK ==
  ASSUME NEW r \in Requests, req[r] \in RequestType, Carries(req[r]), NEW x
  PROVE  Without(r, x) \in RequestType /\ Carries(Without(r, x))
<1>1. [req[r] EXCEPT !.todo = @ \ {x}] \in RequestType
  <2>1. req[r].todo \ {x} \in SUBSET (Orgs \cup Names \cup {None})
    BY DEF RequestType
  <2> QED  BY <2>1, FieldTypes
<1>2. Carries([req[r] EXCEPT !.todo = @ \ {x}])
  BY DEF RequestType, Carries, Moves
<1> QED  BY <1>1, <1>2, IdleOK DEF Without

LEMMA EraseOK ==
  ASSUME StoresOK, ParentsExist, NEW S \in SUBSET Orgs, Erase(S), Children(S) \subseteq S,
         members' = members \ MembersOf(S), MembersExist, UNCHANGED <<group, torn, crossed>>
  PROVE  StoresOK' /\ NothingDangles'
<1>1. <<>> \in Codes
  BY DEF Codes
<1>2. StoresOK'
  BY <1>1 DEF StoresOK, Erase, MembersOf
<1>3. ParentsExist'
  BY DEF StoresOK, Erase, ParentsExist, Children
<1>4. MembersExist'
  BY DEF Erase, MembersExist, MembersOf
<1> QED  BY <1>2, <1>3, <1>4 DEF NothingDangles

LEMMA SubtreeClosed ==
  ASSUME StoresOK, ParentsExist, NEW o \in Orgs \cup {None}
  PROVE  Subtree(o) \subseteq rows /\ Children(Subtree(o)) \subseteq Subtree(o)
<1>1. ASSUME NEW x \in rows, NEW y \in Subtree(o), parent[x] = y PROVE x \in Subtree(o)
  <2>1. o \in rows /\ o \in Ancestors(y)
    BY <1>1 DEF Subtree, Ancestors
  <2>2. ASSUME NEW S \in SUBSET rows, UpClosed(S), x \in S PROVE o \in S
    <3>1. y \in S
      BY <1>1, <2>2, NoneAssumption DEF UpClosed, Subtree, StoresOK
    <3> QED  BY <2>1, <2>2, <3>1 DEF Ancestors
  <2> QED  BY <1>1, <2>1, <2>2 DEF Subtree, Ancestors
<1> QED  BY <1>1 DEF Children, Subtree

LEMMA DeletionsPreserve ==
  ASSUME IInv, NEW r \in Requests, DeletionStep(r)
  PROVE  IInv'
<1>0. req[r] \in RequestType /\ Carries(req[r])
  BY DEF IInv, RequestsOK
<1>1. ASSUME NEW o \in Orgs, DeleteOrganization(r, o) PROVE IInv'
  <2> DEFINE q == [Request("delete", "hasChildren") EXCEPT !.org = o, !.todo = {name[o]}]
  <2>1. name[o] \in Names \cup {None} /\ <<>> \in Codes
    BY DEF IInv, StoresOK, Codes
  <2>2. q \in RequestType /\ Carries(q)
    BY <2>1 DEF Request, Idle, RequestType, Carries, AllOps, Steps
  <2> QED  BY <1>1, <2>2, BeginStep DEF DeleteOrganization
<1>2. ASSUME NEW o \in Orgs, DeleteOrganizationCascade(r, o) PROVE IInv'
  <2> DEFINE todo == {name[x] : x \in Subtree(o)}
             q == [Request("cascade", "cascade") EXCEPT !.org = o, !.todo = todo]
  <2>1. todo \subseteq Names \cup {None} /\ <<>> \in Codes
    BY DEF IInv, StoresOK, Codes, Subtree
  <2>2. Begin(r, q) /\ UNCHANGED <<tree, members, group>>
    BY <1>2 DEF DeleteOrganizationCascade
  <2> HIDE DEF todo
  <2>3. q \in RequestType /\ Carries(q)
    BY <2>1 DEF Request, Idle, RequestType, Carries, AllOps, Steps
  <2> QED  BY <2>2, <2>3, BeginStep
<1>3. CASE HasChildren(r)
  BY <1>3, GotoStep DEF HasChildren, Steps
<1>4. CASE HasUsers(r)
  BY <1>4, GotoStep DEF HasUsers, Steps
<1>5. CASE Delete(r)
  <2> DEFINE S == {req[r].org}
             q == [req[r] EXCEPT !.pc = "kcDelete"]
  <2>1. /\ Erase(S) /\ Children(S) = {} /\ MembersOf(S) = {} /\ S \in SUBSET Orgs
        /\ UNCHANGED <<members, group, torn, crossed>> /\ req' = [req EXCEPT ![r] = q]
    BY <1>5 DEF Delete, Goto, Continue, history, IInv, StoresOK
  <2>2. q \in RequestType /\ Carries(q)
    BY <1>0 DEF RequestType, Carries, Steps
  <2>3. RequestsOK'
    BY <2>1, <2>2, RequestStep DEF IInv
  <2>4. StoresOK' /\ NothingDangles'
    BY <2>1, EraseOK DEF IInv, NothingDangles
  <2> QED  BY <2>3, <2>4 DEF IInv
<1>6. CASE DeleteCascade(r)
  <2> DEFINE S == Subtree(req[r].org)
             q == [req[r] EXCEPT !.pc = "kcDelete"]
  <2>1. req[r].org \in Orgs \cup {None}
    BY <1>0 DEF RequestType
  <2>2. Children(S) \subseteq S /\ S \in SUBSET Orgs
    BY <2>1, SubtreeClosed DEF IInv, NothingDangles, StoresOK
  <2>3. /\ Erase(S) /\ members' = members \ MembersOf(S)
        /\ UNCHANGED <<group, torn, crossed>> /\ req' = [req EXCEPT ![r] = q]
    BY <1>6 DEF DeleteCascade, Goto, Continue, history
  <2>4. q \in RequestType /\ Carries(q)
    BY <1>0 DEF RequestType, Carries, Steps
  <2>5. RequestsOK'
    BY <2>3, <2>4, RequestStep DEF IInv
  <2>6. StoresOK' /\ NothingDangles'
    BY <2>2, <2>3, EraseOK DEF IInv, NothingDangles
  <2> QED  BY <2>5, <2>6 DEF IInv
<1>7. CASE DeleteGroup(r)
  <2>1. PICK n : group' = [group EXCEPT ![n] = {}] /\ Continue(r, Without(r, n))
    BY <1>7 DEF DeleteGroup
  <2>2. RequestsOK'
    BY <1>0, <2>1, WithoutOK, RequestStep DEF IInv, Continue
  <2>3. UNCHANGED <<tree, members, torn, crossed>>
    BY <1>7 DEF DeleteGroup, Continue, history
  <2>4. group' \in [Names -> SUBSET Users]
    BY <2>1 DEF IInv, StoresOK
  <2> QED  BY <2>2, <2>3, <2>4 DEF IInv, StoresOK, NothingDangles, ParentsExist, MembersExist, tree
<1>8. CASE KeepGroup(r)
  BY <1>0, <1>8, WithoutOK, ContinueStep DEF KeepGroup
<1> QED  BY <1>1, <1>2, <1>3, <1>4, <1>5, <1>6, <1>7, <1>8 DEF DeletionStep

\* A step that changes memberships only.
LEMMA MembersStep ==
  ASSUME IInv, NEW r \in Requests, NEW q \in RequestType, Carries(q),
         req' = [req EXCEPT ![r] = q], UNCHANGED <<tree, group>>,
         torn' \in BOOLEAN, crossed' \in BOOLEAN,
         members' \subseteq Users \X Orgs, \A m \in members' : m \in members \/ m[2] \in rows
  PROVE  IInv'
<1>1. RequestsOK'
  BY RequestStep DEF IInv
<1>2. StoresOK' /\ NothingDangles'
  BY DEF IInv, StoresOK, NothingDangles, ParentsExist, MembersExist, tree
<1> QED  BY <1>1, <1>2 DEF IInv

LEMMA GroupStep ==
  ASSUME IInv, NEW r \in Requests, NEW q \in RequestType, Carries(q),
         Continue(r, q), UNCHANGED <<tree, members>>, group' \in [Names -> SUBSET Users]
  PROVE  IInv'
<1>1. RequestsOK'
  BY RequestStep DEF IInv, Continue
<1>2. StoresOK' /\ NothingDangles'
  BY DEF IInv, StoresOK, NothingDangles, ParentsExist, MembersExist, tree, Continue, history
<1> QED  BY <1>1, <1>2 DEF IInv

LEMMA MembersPreserve ==
  ASSUME IInv, NEW r \in Requests, MemberStep(r)
  PROVE  IInv'
<1>0. req[r] \in RequestType /\ Carries(req[r]) /\ <<>> \in Codes
  BY DEF IInv, RequestsOK, Codes
<1>a. /\ rows \subseteq Orgs /\ members \subseteq Users \X Orgs
      /\ torn \in BOOLEAN /\ crossed \in BOOLEAN
  BY DEF IInv, StoresOK
<1>1. ASSUME NEW u \in Users, NEW gs \in SUBSET Orgs, AssignUserToGroups(r, u, gs) PROVE IInv'
  <2> DEFINE q == [Request("assign", "join") EXCEPT !.user = u, !.todo = gs]
  <2>1. q \in RequestType /\ Carries(q)
    <3>1. gs \in SUBSET (Orgs \cup Names \cup {None})
      OBVIOUS
    <3>2. [Request("assign", "join") EXCEPT !.user = u] \in RequestType
      BY <1>0 DEF Request, Idle, RequestType, AllOps, Steps
    <3>3. q \in RequestType
      BY <3>1, <3>2, FieldTypes
    <3>4. Carries(q)
      BY DEF Request, Idle, Carries
    <3> QED  BY <3>3, <3>4
  <2> QED  BY <1>1, <2>1, BeginStep DEF AssignUserToGroups
<1>2. ASSUME NEW u \in Users, NEW gs \in SUBSET Orgs, ReplaceUserGroups(r, u, gs) PROVE IInv'
  <2> DEFINE todo == {g \in rows : <<u, g>> \in members /\ Grounded(g)}
             q == [Request("replace", "replace") EXCEPT !.user = u, !.chosen = gs, !.todo = todo]
  <2>1. todo \subseteq Orgs
    BY <1>a
  <2>2. Begin(r, q) /\ UNCHANGED <<tree, members, group>>
    BY <1>2 DEF ReplaceUserGroups
  <2> HIDE DEF todo
  <2>3. q \in RequestType /\ Carries(q)
    <3>1. todo \in SUBSET (Orgs \cup Names \cup {None})
      BY <2>1
    <3>2. [Request("replace", "replace") EXCEPT !.user = u, !.chosen = gs] \in RequestType
      BY <1>0 DEF Request, Idle, RequestType, AllOps, Steps
    <3>3. q \in RequestType
      BY <3>1, <3>2, FieldTypes
    <3>4. Carries(q)
      BY DEF Request, Idle, Carries
    <3> QED  BY <3>3, <3>4
  <2> QED  BY <2>2, <2>3, BeginStep
<1>3. ASSUME NEW u \in Users, NEW g \in Orgs, RemoveUserFromGroup(r, u, g) PROVE IInv'
  <2> DEFINE q == [Request("unassign", "kcLeave") EXCEPT !.user = u, !.name = name[g]]
  <2>1. name[g] \in Names \cup {None}
    BY DEF IInv, StoresOK
  <2>2. q \in RequestType /\ Carries(q)
    <3>1. [Request("unassign", "kcLeave") EXCEPT !.user = u] \in RequestType
      BY <1>0 DEF Request, Idle, RequestType, AllOps, Steps
    <3>2. q \in RequestType
      BY <2>1, <3>1, FieldTypes
    <3>3. Carries(q)
      BY DEF Request, Idle, Carries
    <3> QED  BY <3>2, <3>3
  <2>3. /\ Begin(r, q) /\ UNCHANGED <<tree, group>> /\ members' = members \ {<<u, g>>}
    BY <1>3 DEF RemoveUserFromGroup
  <2>4. torn' \in BOOLEAN /\ crossed' \in BOOLEAN /\ req' = [req EXCEPT ![r] = q]
    BY <1>a, <2>3 DEF Begin
  <2> HIDE DEF q
  <2> QED  BY <1>a, <2>2, <2>3, <2>4, MembersStep
<1>4. CASE JoinGroup(r)
  <2>1. PICK g \in req[r].todo \cap rows :
          /\ members' = members \cup {<<req[r].user, g>>}
          /\ Continue(r, [req[r] EXCEPT !.org = g, !.name = name[g], !.pc = "kcJoin"])
    BY <1>4 DEF JoinGroup
  <2> DEFINE q == [req[r] EXCEPT !.org = g, !.name = name[g], !.pc = "kcJoin"]
  <2>2. /\ req[r].user \in Users /\ req[r].op = "assign"
        /\ g \in Orgs /\ name[g] \in Names \cup {None}
    BY <1>0, <1>4, <1>a DEF JoinGroup, At, Carries, IInv, StoresOK
  <2>3. q \in RequestType
    <3>1. [req[r] EXCEPT !.org = g] \in RequestType
      BY <1>0, <2>2, FieldTypes
    <3>2. [req[r] EXCEPT !.org = g, !.name = name[g]] \in RequestType
      BY <2>2, <3>1, FieldTypes
    <3> QED  BY <3>2, FieldTypes DEF Steps
  <2>4. Carries(q)
    BY <1>0, <2>2 DEF RequestType, Carries
  <2>5. /\ req' = [req EXCEPT ![r] = q] /\ torn' \in BOOLEAN /\ crossed' \in BOOLEAN
        /\ UNCHANGED <<tree, group>>
    BY <1>4, <1>a, <2>1 DEF JoinGroup, Continue, history
  <2> HIDE DEF q
  <2>6. /\ members' \subseteq Users \X Orgs
        /\ \A m \in members' : m \in members \/ m[2] \in rows
    BY <1>a, <2>1, <2>2
  <2> QED  BY <2>3, <2>4, <2>5, <2>6, MembersStep
<1>5. CASE EnsureGroupExistsAndAssignUser(r)
  <2> DEFINE x == [req[r] EXCEPT !.todo = @ \ {req[r].org}, !.pc = "join"]
             q == IF req[r].todo = {req[r].org} THEN Idle ELSE x
  <2>1. req[r].user \in Users /\ req[r].op = "assign"
    BY <1>0, <1>5 DEF EnsureGroupExistsAndAssignUser, At, Carries
  <2>2. x \in RequestType
    <3>1. req[r].todo \ {req[r].org} \in SUBSET (Orgs \cup Names \cup {None})
      BY <1>0 DEF RequestType
    <3>2. [req[r] EXCEPT !.todo = @ \ {req[r].org}] \in RequestType
      BY <1>0, <3>1, FieldTypes
    <3> QED  BY <3>2, FieldTypes DEF Steps
  <2>3. Carries(x)
    BY <1>0, <2>1 DEF RequestType, Carries
  <2>4. Continue(r, q) /\ UNCHANGED <<tree, members>>
    BY <1>5 DEF EnsureGroupExistsAndAssignUser
  <2>5. group' \in [Names -> SUBSET Users]
    BY <1>5, <2>1 DEF EnsureGroupExistsAndAssignUser, IInv, StoresOK
  <2> HIDE DEF x
  <2>6. q \in RequestType /\ Carries(q)
    BY <2>2, <2>3, IdleOK
  <2> QED  BY <2>4, <2>5, <2>6, GroupStep
<1>6. CASE RemoveFromKeycloakGroup(r)
  <2>1. group' \in [Names -> SUBSET Users]
    BY <1>6 DEF RemoveFromKeycloakGroup, IInv, StoresOK
  <2> QED  BY <1>6, <2>1, IdleOK, GroupStep DEF RemoveFromKeycloakGroup, Finish
<1>7. CASE TakeOut(r)
  <2>1. PICK g : /\ members' = members \ {<<req[r].user, g>>}
                 /\ Continue(r, [req[r] EXCEPT !.todo = @ \ {g}])
    BY <1>7 DEF TakeOut
  <2> DEFINE q == [req[r] EXCEPT !.todo = @ \ {g}]
  <2>2. q \in RequestType
    <3>1. req[r].todo \ {g} \in SUBSET (Orgs \cup Names \cup {None})
      BY <1>0 DEF RequestType
    <3> QED  BY <1>0, <3>1, FieldTypes
  <2>3. Carries(q)
    BY <1>0 DEF RequestType, Carries, Moves
  <2>4. /\ req' = [req EXCEPT ![r] = q] /\ torn' \in BOOLEAN /\ crossed' \in BOOLEAN
        /\ UNCHANGED <<tree, group>>
    BY <1>7, <1>a, <2>1 DEF TakeOut, Continue, history
  <2> HIDE DEF q
  <2> QED  BY <1>a, <2>1, <2>2, <2>3, <2>4, MembersStep
<1>8. CASE PutIn(r)
  <2>1. /\ members' = members \cup ({req[r].user} \X req[r].chosen)
        /\ req[r].chosen \subseteq rows /\ req[r].user \in Users
        /\ req' = [req EXCEPT ![r] = Idle] /\ torn' \in BOOLEAN /\ crossed' \in BOOLEAN
        /\ UNCHANGED <<tree, group>>
    BY <1>0, <1>8, <1>a DEF PutIn, Finish, Continue, history, At, Carries
  <2>2. /\ members' \subseteq Users \X Orgs
        /\ \A m \in members' : m \in members \/ m[2] \in rows
    BY <1>a, <2>1
  <2> QED  BY <2>1, <2>2, IdleOK, MembersStep
<1> QED  BY <1>1, <1>2, <1>3, <1>4, <1>5, <1>6, <1>7, <1>8 DEF MemberStep

LEMMA AbortPreserves ==
  ASSUME IInv, NEW r \in Requests, Abort(r)
  PROVE  IInv'
<1>1. torn' \in BOOLEAN /\ crossed' \in BOOLEAN
  BY DEF Abort, IInv, StoresOK
<1> QED  BY <1>1, IdleOK, QuietStep DEF Abort

LEMMA RoutesPreserve ==
  ASSUME IInv, NEW u \in Users,
         \/ \E gs \in SUBSET Orgs : AssignUserToOrganizations(u, gs)
         \/ \E g \in Orgs : RemoveUserFromOrganization(u, g)
  PROVE  IInv'
<1>1. /\ UNCHANGED <<tree, group, req, history>>
      /\ members' \subseteq Users \X Orgs
      /\ \A m \in members' : m \in members \/ m[2] \in rows
  BY DEF AssignUserToOrganizations, RemoveUserFromOrganization, IInv, StoresOK
<1> QED  BY <1>1 DEF IInv, StoresOK, RequestsOK, NothingDangles, ParentsExist, MembersExist, tree, history

LEMMA NextIInv == IInv /\ [Next]_vars => IInv'
<1> SUFFICES ASSUME IInv, [Next]_vars PROVE IInv'
  OBVIOUS
<1>1. ASSUME NEW r \in Requests, TreeStep(r) PROVE IInv'
  <2>1. ASSUME NEW n \in Names, NEW p \in Orgs \cup {None}, NEW own \in OwnCodes,
               CreateOrganization(r, n, p, own)
        PROVE  IInv'
    BY <2>1, CreatePreserves
  <2>2. ASSUME NEW o \in Orgs, NEW p \in Orgs \cup {None}, MoveOrganization(r, o, p)
        PROVE  IInv'
    BY <2>2, HandlersPreserve DEF OwnCodes
  <2>3. ASSUME NEW o \in Orgs, NEW n \in Names \cup {None}, NEW p \in Orgs \cup {None},
               NEW own \in OwnCodes, UpdateOrganization(r, o, n, p, own)
        PROVE  IInv'
    BY <2>3, HandlersPreserve
  <2> QED  BY <1>1, <2>1, <2>2, <2>3, ChecksPreserve, StatementsPreserve DEF TreeStep
<1>2. CASE UNCHANGED vars
  BY <1>2 DEF vars, IInv, StoresOK, RequestsOK, NothingDangles, ParentsExist, MembersExist
<1> QED
  BY <1>1, <1>2, DeletionsPreserve, MembersPreserve, AbortPreserves, SeedPreserves, RoutesPreserve
  DEF Next

(***************************************************************************)
(* The theorems.                                                           *)
(***************************************************************************)
LEMMA AlwaysIInv == Spec => []IInv
  BY InitIInv, NextIInv, PTL DEF Spec

\* The type invariant of the stores and of the requests.
THEOREM OrganizationTypes == Spec => []TypeOK
<1>1. IInv => TypeOK
  BY DEF IInv, StoresOK, RequestsOK, TypeOK
<1> QED  BY <1>1, AlwaysIInv, PTL

\* Whatever overlaps with a deletion, no organization keeps a parent that is
\* gone, and no membership an organization that is gone.
THEOREM NothingEverDangles == Spec => []NothingDangles
<1>1. IInv => NothingDangles
  BY DEF IInv
<1> QED  BY <1>1, AlwaysIInv, PTL

(***************************************************************************)
(* The forest.  The organizations a walk has seen, with the one it is at,  *)
(* hold the new parent and everything above it that was seen, and not the  *)
(* organization to be moved; as long as no move overlaps with another or   *)
(* with a creation, nothing else changes a parent meanwhile.               *)
(***************************************************************************)
Climb(q) ==
    /\ q.org \notin q.seen
    /\ q.to \in q.seen \cup {q.at}
    /\ \A x \in q.seen \cap rows : parent[x] \in q.seen \cup {None, q.at}

Walking == {"name", "walk"}
MovesClimb ==
    \A r \in Requests :
      Moves(req[r]) /\ req[r].to # None =>
        /\ Climb(req[r])
        /\ req[r].pc \notin Walking => req[r].at = None

Unmixed == \A r, s \in Requests : r # s => ~Crosses(req[r], req[s])

Rooted == \A S \in SUBSET rows : S # {} => \E o \in S : parent[o] \notin S

ForestInv == crossed \/ (MovesClimb /\ Unmixed /\ Rooted)

LEMMA InitForestInv == Init => ForestInv
  BY DEF Init, ForestInv, MovesClimb, Unmixed, Rooted, Crosses, Moves, Places, Idle

\* A step of one request that changes the parent of no organization there is.
LEMMA StepKeeps ==
  ASSUME IInv, ForestInv, NEW r \in Requests, NEW q, req' = [req EXCEPT ![r] = q],
         ~crossed' => ~crossed /\ \A s \in Requests \ {r} : ~Crosses(q, req[s]),
         rows' \subseteq rows, \A x \in rows' : parent'[x] = parent[x],
         ~crossed /\ Moves(q) /\ q.to # None => /\ Climb(q)
                                                /\ q.pc \notin Walking => q.at = None
  PROVE  ForestInv'
<1> SUFFICES ASSUME ~crossed' PROVE (MovesClimb /\ Unmixed /\ Rooted)'
  BY DEF ForestInv
<1>1. MovesClimb /\ Unmixed /\ Rooted /\ ~crossed
  BY DEF ForestInv
<1>2. /\ \A s \in Requests : req'[s] = IF s = r THEN q ELSE req[s]
      /\ \A s \in Requests \ {r} : ~Crosses(q, req[s]) /\ ~Crosses(req[s], q)
  BY DEF IInv, RequestsOK, Crosses
<1>3. Rooted'
  BY <1>1 DEF Rooted
<1>4. Unmixed'
  BY <1>1, <1>2 DEF Unmixed
<1>5. ASSUME NEW x, Climb(x) PROVE Climb(x)'
  BY <1>5 DEF Climb
<1>6. MovesClimb'
  BY <1>1, <1>2, <1>5 DEF MovesClimb
<1> QED  BY <1>3, <1>4, <1>6

LEMMA BeginKeeps ==
  ASSUME IInv, ForestInv, NEW r \in Requests, NEW q, Begin(r, q), UNCHANGED <<rows, parent>>,
         Moves(q) /\ q.to # None => Climb(q) /\ q.pc \in Walking
  PROVE  ForestInv'
  BY StepKeeps DEF Begin

LEMMA ContinueKeeps ==
  ASSUME IInv, ForestInv, NEW r \in Requests, NEW q, req' = [req EXCEPT ![r] = q],
         crossed' = crossed, rows' \subseteq rows, \A x \in rows' : parent'[x] = parent[x],
         q.op = req[r].op, q.to = req[r].to, q.org = req[r].org, q.seen = req[r].seen,
         q.at = req[r].at, req[r].pc \in Walking => q.pc \in Walking \/ ~Moves(q) \/ q.to = None
  PROVE  ForestInv'
<1>1. Moves(q) = Moves(req[r]) /\ Places(q) = Places(req[r]) /\ Climb(q) = Climb(req[r])
  BY DEF Moves, Places, Climb
<1>2. ~crossed => \A s \in Requests \ {r} : ~Crosses(q, req[s])
  BY <1>1 DEF ForestInv, Unmixed, Crosses
<1>3. ~crossed /\ Moves(q) /\ q.to # None => Climb(q) /\ (q.pc \notin Walking => q.at = None)
  BY <1>1 DEF ForestInv, MovesClimb
<1> QED  BY <1>2, <1>3, StepKeeps

LEMMA IdleKeeps ==
  ASSUME IInv, ForestInv, NEW r \in Requests, req' = [req EXCEPT ![r] = Idle],
         crossed' = crossed, rows' \subseteq rows, \A x \in rows' : parent'[x] = parent[x]
  PROVE  ForestInv'
<1>1. ~Moves(Idle) /\ ~Places(Idle)
  BY DEF Moves, Places, Idle
<1> QED  BY <1>1, StepKeeps DEF Crosses

LEMMA ChecksKeep ==
  ASSUME IInv, ForestInv, NEW r \in Requests,
         \/ CheckName(r) \/ WalkUp(r) \/ ReadTarget(r) \/ CheckDepth(r)
         \/ GenerateOrganizationCode(r) \/ CheckOwnCode(r) \/ UpdateDescendantCodes(r)
  PROVE  ForestInv'
<1>0. req[r] \in RequestType /\ Carries(req[r])
  BY DEF IInv, RequestsOK
<1>1. CASE CheckName(r)
  <2> DEFINE q == [req[r] EXCEPT !.pc = AfterName(req[r])]
  <2>1. /\ req' = [req EXCEPT ![r] = q] /\ crossed' = crossed
        /\ UNCHANGED <<rows, parent>> /\ req[r].pc = "name"
    BY <1>1 DEF CheckName, Goto, Continue, history, tree, At
  <2>2. Moves(req[r]) /\ req[r].to # None => AfterName(req[r]) = "walk"
    BY <1>0, <2>1 DEF Carries, Moves, AfterName
  <2>3. /\ q.op = req[r].op /\ q.to = req[r].to /\ q.org = req[r].org /\ q.seen = req[r].seen
        /\ q.at = req[r].at /\ q.pc = AfterName(req[r])
    BY <1>0 DEF RequestType
  <2>4. q.pc \in Walking \/ ~Moves(q) \/ q.to = None
    BY <2>2, <2>3 DEF Walking, Moves
  <2> HIDE DEF q
  <2> QED  BY <2>1, <2>3, <2>4, ContinueKeeps
<1>2. CASE WalkUp(r)
  <2> DEFINE up == IF req[r].at \in rows THEN parent[req[r].at] ELSE None
             q == [req[r] EXCEPT !.seen = @ \cup {req[r].at}, !.at = up,
                                 !.pc = IF up = None THEN "target" ELSE "walk"]
  <2>1. /\ req' = [req EXCEPT ![r] = q] /\ crossed' = crossed
        /\ UNCHANGED <<rows, parent>> /\ req[r].at \notin req[r].seen \cup {req[r].org}
    BY <1>2 DEF WalkUp, Continue, history, tree
  <2>2. /\ q.op = req[r].op /\ q.to = req[r].to /\ q.org = req[r].org
        /\ q.seen = req[r].seen \cup {req[r].at} /\ q.at = up
        /\ q.pc = IF up = None THEN "target" ELSE "walk"
    BY <1>0 DEF RequestType
  <2>3. Moves(q) = Moves(req[r]) /\ Places(q) = Places(req[r])
    BY <2>2 DEF Moves, Places
  <2>4. ~crossed => \A s \in Requests \ {r} : ~Crosses(q, req[s])
    BY <2>3 DEF ForestInv, Unmixed, Crosses
  <2>5. q.pc \notin Walking => q.at = None
    BY <2>2 DEF Walking
  <2>6. Climb(req[r]) => Climb(q)
    BY <2>1, <2>2 DEF Climb
  <2>7. ~crossed /\ Moves(q) /\ q.to # None => Climb(q)
    BY <2>2, <2>3, <2>6 DEF ForestInv, MovesClimb
  <2> HIDE DEF q
  <2> QED  BY <2>1, <2>4, <2>5, <2>7, StepKeeps
<1>3. CASE ReadTarget(r)
  BY <1>0, <1>3, ContinueKeeps DEF ReadTarget, Continue, history, tree, At, Walking, RequestType
<1>4. CASE CheckDepth(r)
  BY <1>0, <1>4, ContinueKeeps DEF CheckDepth, Goto, Continue, history, tree, At, Walking, RequestType
<1>5. CASE GenerateOrganizationCode(r)
  <2>1. PICK n \in 1..PerLevel :
          Continue(r, [req[r] EXCEPT !.new = Append(req[r].prefix, n), !.pc = AfterCode(req[r])])
    BY <1>5 DEF GenerateOrganizationCode
  <2> QED
    BY <1>0, <1>5, <2>1, ContinueKeeps
    DEF GenerateOrganizationCode, Continue, history, tree, At, Walking, RequestType
<1>6. CASE CheckOwnCode(r)
  BY <1>0, <1>6, ContinueKeeps DEF CheckOwnCode, Continue, history, tree, At, Walking, RequestType
<1>7. CASE UpdateDescendantCodes(r)
  BY <1>0, <1>7, ContinueKeeps
  DEF UpdateDescendantCodes, Goto, Continue, history, At, Walking, RequestType
<1> QED  BY <1>1, <1>2, <1>3, <1>4, <1>5, <1>6, <1>7

LEMMA HandlersKeep ==
  ASSUME IInv, ForestInv, NEW r \in Requests,
         \/ \E n \in Names, p \in Orgs \cup {None}, own \in OwnCodes : CreateOrganization(r, n, p, own)
         \/ \E o \in Orgs, p \in Orgs \cup {None} : MoveOrganization(r, o, p)
         \/ \E o \in Orgs, n \in Names \cup {None}, p \in Orgs \cup {None}, own \in OwnCodes :
              UpdateOrganization(r, o, n, p, own)
  PROVE  ForestInv'
<1>1. ASSUME NEW n \in Names, NEW p \in Orgs \cup {None}, NEW own \in OwnCodes,
             CreateOrganization(r, n, p, own)
      PROVE  ForestInv'
  <2> DEFINE q == [Request("create", "name") EXCEPT
                     !.name = n, !.under = p, !.to = p, !.own = own,
                     !.prefix = IF p = None THEN <<>> ELSE code[p]]
  <2>1. ~Moves(q)
    BY DEF Request, Idle, Moves
  <2> QED  BY <1>1, <2>1, BeginKeeps DEF CreateOrganization, tree
<1>2. ASSUME NEW o \in Orgs, NEW p \in Orgs \cup {None}, MoveOrganization(r, o, p)
      PROVE  ForestInv'
  <2> DEFINE q == [Request("move", IF p = None THEN "depth" ELSE "walk") EXCEPT
                     !.org = o, !.to = p, !.at = p, !.old = code[o]]
  <2>1. q.to # None => Climb(q) /\ q.pc \in Walking
    BY DEF Request, Idle, Climb, Walking
  <2> QED  BY <1>2, <2>1, BeginKeeps DEF MoveOrganization, tree
<1>3. ASSUME NEW o \in Orgs, NEW n \in Names \cup {None}, NEW p \in Orgs \cup {None},
             NEW own \in OwnCodes, UpdateOrganization(r, o, n, p, own)
      PROVE  ForestInv'
  <2> DEFINE q == [Request("update", "idle") EXCEPT
                     !.org = o, !.old = code[o], !.under = p,
                     !.name = IF n = name[o] THEN None ELSE n,
                     !.to = IF p = parent[o] THEN None ELSE p,
                     !.at = IF p = parent[o] THEN None ELSE p,
                     !.own = IF own = code[o] THEN <<>> ELSE own]
             q2 == [q EXCEPT !.pc = FirstOf(q)]
  <2>1. /\ q.to # None => FirstOf(q) \in Walking
        /\ q2.at = q2.to /\ q2.to = q.to /\ q2.seen = {} /\ q2.pc = FirstOf(q)
    BY DEF Request, Idle, FirstOf, Walking
  <2>2. Begin(r, q2) /\ UNCHANGED <<rows, parent>>
    BY <1>3 DEF UpdateOrganization, tree
  <2> HIDE DEF q2
  <2>3. q2.to # None => Climb(q2) /\ q2.pc \in Walking
    BY <2>1 DEF Climb
  <2> QED  BY <2>2, <2>3, BeginKeeps
<1> QED  BY <1>1, <1>2, <1>3

LEMMA InsertKeeps ==
  ASSUME IInv, ForestInv, NEW r \in Requests, InsertOrganization(r)
  PROVE  ForestInv'
<1> SUFFICES ASSUME ~crossed' PROVE (MovesClimb /\ Unmixed /\ Rooted)'
  BY DEF ForestInv
<1>1. PICK o \in Orgs \ used : /\ rows' = rows \cup {o}
                               /\ parent' = [parent EXCEPT ![o] = req[r].to]
  BY DEF InsertOrganization
<1>2. /\ req' = [req EXCEPT ![r] = Idle] /\ ~crossed /\ req[r].to \in rows \cup {None}
      /\ req[r].pc = "insert"
  BY DEF InsertOrganization, Written, HasParent, At
<1>3. MovesClimb /\ Unmixed /\ Rooted
  BY <1>2 DEF ForestInv
<1>4. ~Moves(Idle) /\ ~Places(Idle)
  BY DEF Moves, Places, Idle
<1>5. Places(req[r])
  BY <1>2 DEF IInv, RequestsOK, Carries, Places
<1>6. \A s \in Requests : ~Moves(req'[s])
  BY <1>2, <1>3, <1>4, <1>5 DEF IInv, RequestsOK, Unmixed, Crosses
<1>7. MovesClimb' /\ Unmixed'
  BY <1>6 DEF MovesClimb, Unmixed, Crosses
<1>8. o \notin rows /\ o # None /\ \A x \in rows : parent'[x] = parent[x] /\ parent[x] # o
  BY <1>1, NoneAssumption DEF IInv, StoresOK, NothingDangles, ParentsExist
<1>9. parent'[o] # o
  BY <1>1, <1>2, <1>8 DEF IInv, StoresOK
<1>10. ASSUME NEW S \in SUBSET rows', S # {} PROVE \E x \in S : parent'[x] \notin S
  <2>1. CASE S = {o}
    BY <1>9, <2>1
  <2>2. CASE S # {o}
    <3>1. S \ {o} \in SUBSET rows /\ S \ {o} # {}
      BY <1>1, <1>10, <2>2
    <3>2. PICK x \in S \ {o} : parent[x] \notin S \ {o}
      BY <1>3, <3>1 DEF Rooted
    <3> QED  BY <1>8, <3>1, <3>2
  <2> QED  BY <2>1, <2>2
<1>11. Rooted'
  BY <1>10 DEF Rooted
<1> QED  BY <1>7, <1>11

\* What lies above the new parent was seen, and the organization was not.
LEMMA MoveRooted ==
  ASSUME IInv, Rooted, NEW q \in RequestType, q.to # None, q.at = None, Climb(q), q.org \in rows,
         rows' = rows, parent' = [parent EXCEPT ![q.org] = q.to]
  PROVE  Rooted'
<1> SUFFICES ASSUME NEW S \in SUBSET rows, S # {}, \A x \in S : parent'[x] \in S
             PROVE  FALSE
  BY DEF Rooted
<1>1. rows \subseteq Orgs /\ parent \in [Orgs -> Orgs \cup {None}] /\ None \notin Orgs
  BY NoneAssumption DEF IInv, StoresOK
<1>2. \A x \in S : x # q.org => parent[x] \in S
  BY <1>1
<1>3. q.org \in S
  BY <1>2 DEF Rooted
<1>4. q.to \in S
  BY <1>1, <1>3
<1> DEFINE T == S \cap q.seen
<1>5. q.to \in T
  BY <1>4 DEF Climb
<1>6. \A x \in T : parent[x] \in T
  BY <1>1, <1>2 DEF Climb
<1>7. T \in SUBSET rows
  OBVIOUS
<1> HIDE DEF T
<1> QED  BY <1>5, <1>6, <1>7 DEF Rooted

LEMMA WriteKeeps ==
  ASSUME IInv, ForestInv, NEW r \in Requests, WriteOrganization(r)
  PROVE  ForestInv'
<1> DEFINE q == req[r]
<1>1. /\ parent' = IF Moves(q) THEN [parent EXCEPT ![q.org] = q.to] ELSE parent
      /\ req' = [req EXCEPT ![r] = Idle] /\ crossed' = crossed /\ rows' = rows
      /\ q.org \in rows /\ q.pc = "write"
  BY DEF WriteOrganization, Written, At
<1>2. CASE ~Moves(q) \/ crossed
  <2>1. CASE crossed
    BY <1>1, <2>1 DEF ForestInv
  <2>2. CASE ~Moves(q)
    BY <1>1, <2>2, IdleKeeps
  <2> QED  BY <1>2, <2>1, <2>2
<1>3. CASE Moves(q) /\ ~crossed
  <2>1. MovesClimb /\ Unmixed /\ Rooted
    BY <1>3 DEF ForestInv
  <2>2. parent' = [parent EXCEPT ![q.org] = q.to] /\ q \in RequestType
    BY <1>1, <1>3 DEF IInv, RequestsOK
  <2>3. \A s \in Requests : ~Moves(req'[s])
    <3>1. ~Moves(Idle)
      BY DEF Moves, Idle
    <3> QED  BY <1>1, <1>3, <2>1, <3>1 DEF IInv, RequestsOK, Unmixed, Crosses, Places
  <2>4. MovesClimb' /\ Unmixed'
    BY <2>3 DEF MovesClimb, Unmixed, Crosses
  <2>5. CASE q.to # None
    <3>1. Climb(q) /\ q.at = None
      BY <1>1, <1>3, <2>1, <2>5 DEF MovesClimb, Walking
    <3> HIDE DEF q
    <3>2. Rooted'
      BY <1>1, <2>1, <2>2, <2>5, <3>1, MoveRooted
    <3> QED  BY <2>4, <3>2 DEF ForestInv
  <2>6. CASE q.to = None
    <3>1. rows \subseteq Orgs /\ parent \in [Orgs -> Orgs \cup {None}] /\ None \notin Orgs
      BY NoneAssumption DEF IInv, StoresOK
    <3>2. Rooted'
      BY <1>1, <2>1, <2>2, <2>6, <3>1 DEF Rooted
    <3> QED  BY <2>4, <3>2 DEF ForestInv
  <2> QED  BY <2>5, <2>6
<1> QED  BY <1>2, <1>3

LEMMA LeastNumber ==
  ASSUME NEW N \in SUBSET Nat, N # {}
  PROVE  \E n \in N : \A m \in N : n <= m
<1> DEFINE R == OpToRel(<, Nat)
<1>1. IsWellFoundedOn(R, Nat)
  BY NatLessThanWellFounded
<1> HIDE DEF R
<1>2. PICK n \in N : \A m \in N : ~(<<m, n>> \in R)
  BY <1>1, WFMin
<1>3. ASSUME NEW m \in N PROVE n <= m
  <2>1. m < n => <<m, n>> \in R
    BY DEF R, OpToRel
  <2> QED  BY <1>2, <2>1
<1> QED  BY <1>3

LEMMA FrontLength ==
  ASSUME NEW c \in Codes, Len(c) \in Nat \ {0}
  PROVE  Len(Front(c)) = Len(c) - 1
<1>1. \A i \in 1 .. Len(c) - 1 : c[i] \in Nat \ {0}
  BY DEF Codes
<1>2. Len(SubSeq(c, 1, Len(c) - 1)) = IF 1 <= Len(c) - 1 THEN (Len(c) - 1) - 1 + 1 ELSE 0
  BY <1>1, SubSeqProperties
<1> QED  BY <1>2 DEF Front

\* The highest of some seeded organizations hangs from none of them.
LEMMA SeedHighest ==
  ASSUME StoresOK, NEW at, SeedAt(at), IsInjective(at),
         NEW S \in SUBSET (Range(at) \ rows), S # {}
  PROVE  \E o \in S : parent'[o] \notin S
<1> DEFINE c(o) == SeededAs(at, o)
           lengths == {Len(c(o)) : o \in S}
<1>1. \A o \in S : /\ o \in Orgs /\ c(o) \in DOMAIN Seed /\ c(o) \in Codes /\ at[c(o)] = o
                   /\ Len(c(o)) \in Nat \ {0}
                   /\ Len(c(o)) # 1 => Front(c(o)) \in DOMAIN Seed
  BY SeedCodes DEF SeedAt, Range
<1>2. PICK o \in S : \A p \in S : Len(c(o)) <= Len(c(p))
  <2>1. lengths \in SUBSET Nat /\ lengths # {}
    BY <1>1
  <2>2. PICK n \in lengths : \A m \in lengths : n <= m
    BY <2>1, LeastNumber
  <2> QED  BY <2>2
<1>3. parent'[o] = IF Len(c(o)) = 1 THEN None ELSE at[Front(c(o))]
  BY <1>1 DEF SeedAt
<1> HIDE DEF c
<1>4. None \notin S
  BY <1>1, NoneAssumption
<1>5. ASSUME Len(c(o)) # 1, at[Front(c(o))] \in S PROVE FALSE
  <2> DEFINE p == at[Front(c(o))]
  <2>1. at[c(p)] = p /\ c(p) \in DOMAIN Seed /\ Front(c(o)) \in DOMAIN Seed /\ DOMAIN at = DOMAIN Seed
    BY <1>1, <1>5 DEF SeedAt
  <2>2. c(p) = Front(c(o))
    BY <2>1 DEF IsInjective
  <2>3. Len(Front(c(o))) = Len(c(o)) - 1
    BY <1>1, FrontLength
  <2>4. Len(c(o)) <= Len(c(p))
    BY <1>2, <1>5
  <2> QED  BY <1>1, <2>2, <2>3, <2>4
<1> QED  BY <1>3, <1>4, <1>5

LEMMA SeedKeeps ==
  ASSUME IInv, ForestInv, UpsertOrganizations
  PROVE  ForestInv'
<1> SUFFICES ASSUME ~crossed' PROVE (MovesClimb /\ Unmixed /\ Rooted)'
  BY DEF ForestInv
<1>1. PICK at : SeedAt(at) /\ IsInjective(at)
  BY DEF UpsertOrganizations, SeedAt
<1>2. req' = req /\ ~crossed /\ \A r \in Requests : ~Moves(req[r])
  BY DEF UpsertOrganizations
<1>3. MovesClimb' /\ Unmixed' /\ Rooted
  BY <1>2 DEF ForestInv, MovesClimb, Unmixed, Crosses
<1>4. rows' = rows \cup (Range(at) \ rows) /\ \A x \in rows : parent'[x] = parent[x]
  BY <1>1 DEF SeedAt, IInv, StoresOK
<1>5. ASSUME NEW S \in SUBSET rows', S # {} PROVE \E x \in S : parent'[x] \notin S
  <2>1. CASE S \cap rows = {}
    <3>1. S \in SUBSET (Range(at) \ rows)
      BY <1>4, <2>1
    <3> QED  BY <1>1, <1>5, <3>1, SeedHighest DEF IInv
  <2>2. CASE S \cap rows # {}
    <3>1. PICK x \in S \cap rows : parent[x] \notin S \cap rows
      BY <1>3, <2>2 DEF Rooted
    <3>2. parent[x] \in rows \cup {None} /\ None \notin rows \cup Range(at)
      BY <1>1, NoneAssumption DEF IInv, StoresOK, NothingDangles, ParentsExist, SeedAt, Range
    <3> QED  BY <1>4, <3>1, <3>2
  <2> QED  BY <2>1, <2>2
<1>6. Rooted'
  BY <1>5 DEF Rooted
<1> QED  BY <1>3, <1>6

\* A request that asks for something else than a place begins, goes on, ends.
LEMMA OtherBegins ==
  ASSUME IInv, ForestInv, NEW r \in Requests, NEW q, Begin(r, q), UNCHANGED <<rows, parent>>,
         q.op \notin {"move", "update"}
  PROVE  ForestInv'
  BY BeginKeeps DEF Moves

LEMMA GoesOn ==
  ASSUME IInv, ForestInv, NEW r \in Requests, NEW pc \in Steps, Goto(r, pc),
         req[r].pc \notin Walking, rows' \subseteq rows, \A x \in rows' : parent'[x] = parent[x]
  PROVE  ForestInv'
<1>1. req[r] \in RequestType
  BY DEF IInv, RequestsOK
<1> QED  BY <1>1, ContinueKeeps DEF Goto, Continue, history, RequestType

LEMMA TodoShrinks ==
  ASSUME IInv, ForestInv, NEW r \in Requests, NEW q, Continue(r, q),
         q = Idle \/ (\E S : q = [req[r] EXCEPT !.todo = S]), UNCHANGED <<rows, parent>>
  PROVE  ForestInv'
<1>1. req[r] \in RequestType /\ req' = [req EXCEPT ![r] = q] /\ crossed' = crossed
  BY DEF IInv, RequestsOK, Continue, history
<1>2. CASE q = Idle
  BY <1>1, <1>2, IdleKeeps
<1>3. ASSUME NEW S, q = [req[r] EXCEPT !.todo = S] PROVE ForestInv'
  <2>1. /\ q.op = req[r].op /\ q.to = req[r].to /\ q.org = req[r].org /\ q.seen = req[r].seen
        /\ q.at = req[r].at /\ q.pc = req[r].pc
    BY <1>1, <1>3 DEF RequestType
  <2> QED  BY <1>1, <2>1, ContinueKeeps
<1> QED  BY <1>2, <1>3

LEMMA DeletionsKeep ==
  ASSUME IInv, ForestInv, NEW r \in Requests, DeletionStep(r)
  PROVE  ForestInv'
<1>1. ASSUME NEW o \in Orgs, DeleteOrganization(r, o) PROVE ForestInv'
  <2> DEFINE q == [Request("delete", "hasChildren") EXCEPT !.org = o, !.todo = {name[o]}]
  <2>1. q.op = "delete"
    BY DEF Request, Idle
  <2> QED  BY <1>1, <2>1, OtherBegins DEF DeleteOrganization, tree
<1>2. ASSUME NEW o \in Orgs, DeleteOrganizationCascade(r, o) PROVE ForestInv'
  <2> DEFINE q == [Request("cascade", "cascade") EXCEPT
                     !.org = o, !.todo = {name[x] : x \in Subtree(o)}]
  <2>1. q.op = "cascade"
    BY DEF Request, Idle
  <2> QED  BY <1>2, <2>1, OtherBegins DEF DeleteOrganizationCascade, tree
<1>3. CASE HasChildren(r)
  BY <1>3, GoesOn DEF HasChildren, At, Walking, tree, Steps
<1>4. CASE HasUsers(r)
  BY <1>4, GoesOn DEF HasUsers, At, Walking, tree, Steps
<1>5. ASSUME NEW S, Erase(S)
      PROVE  rows' \subseteq rows /\ \A x \in rows' : parent'[x] = parent[x]
  BY <1>5 DEF Erase, IInv, StoresOK
<1>6. CASE Delete(r)
  BY <1>5, <1>6, GoesOn DEF Delete, At, Walking, Steps
<1>7. CASE DeleteCascade(r)
  BY <1>5, <1>7, GoesOn DEF DeleteCascade, At, Walking, Steps
<1>8. CASE DeleteGroup(r) \/ KeepGroup(r)
  <2>1. PICK n : Continue(r, Without(r, n)) /\ UNCHANGED <<rows, parent>>
    BY <1>8 DEF DeleteGroup, KeepGroup, tree
  <2> QED  BY <2>1, TodoShrinks DEF Without
<1> QED  BY <1>1, <1>2, <1>3, <1>4, <1>6, <1>7, <1>8 DEF DeletionStep

LEMMA MembersKeep ==
  ASSUME IInv, ForestInv, NEW r \in Requests, MemberStep(r)
  PROVE  ForestInv'
<1>0. req[r] \in RequestType /\ Carries(req[r])
  BY DEF IInv, RequestsOK
<1>1. ASSUME NEW u \in Users, NEW gs \in SUBSET Orgs,
             AssignUserToGroups(r, u, gs) \/ ReplaceUserGroups(r, u, gs)
      PROVE  ForestInv'
  <2> DEFINE q1 == [Request("assign", "join") EXCEPT !.user = u, !.todo = gs]
             q2 == [Request("replace", "replace") EXCEPT
                      !.user = u, !.chosen = gs,
                      !.todo = {g \in rows : <<u, g>> \in members /\ Grounded(g)}]
  <2>1. q1.op = "assign" /\ q2.op = "replace"
    BY DEF Request, Idle
  <2> QED  BY <1>1, <2>1, OtherBegins DEF AssignUserToGroups, ReplaceUserGroups, tree
<1>2. ASSUME NEW u \in Users, NEW g \in Orgs, RemoveUserFromGroup(r, u, g) PROVE ForestInv'
  <2> DEFINE q == [Request("unassign", "kcLeave") EXCEPT !.user = u, !.name = name[g]]
  <2>1. q.op = "unassign"
    BY DEF Request, Idle
  <2> QED  BY <1>2, <2>1, OtherBegins DEF RemoveUserFromGroup, tree
<1>3. CASE JoinGroup(r)
  <2>1. PICK g : Continue(r, [req[r] EXCEPT !.org = g, !.name = name[g], !.pc = "kcJoin"])
    BY <1>3 DEF JoinGroup
  <2> DEFINE q == [req[r] EXCEPT !.org = g, !.name = name[g], !.pc = "kcJoin"]
  <2>2. q.op = "assign"
    BY <1>0, <1>3 DEF JoinGroup, At, Carries, RequestType
  <2>3. \A s \in Requests \ {r} : ~crossed => ~Crosses(q, req[s])
    <3>1. ~Moves(q) /\ ~Places(q)
      BY <2>2 DEF Moves, Places
    <3> QED  BY <3>1 DEF Crosses
  <2>4. ~Moves(q)
    BY <2>2 DEF Moves
  <2>5. req' = [req EXCEPT ![r] = q] /\ UNCHANGED <<rows, parent, crossed>>
    BY <1>3, <2>1 DEF JoinGroup, Continue, history, tree
  <2> HIDE DEF q
  <2> QED  BY <2>3, <2>4, <2>5, StepKeeps
<1>4. CASE EnsureGroupExistsAndAssignUser(r)
  <2> DEFINE q == IF req[r].todo = {req[r].org} THEN Idle
                  ELSE [req[r] EXCEPT !.todo = @ \ {req[r].org}, !.pc = "join"]
  <2>1. q.op \in {"assign", "none"}
    BY <1>0, <1>4 DEF EnsureGroupExistsAndAssignUser, At, Carries, RequestType, Idle
  <2>2. req' = [req EXCEPT ![r] = q] /\ UNCHANGED <<rows, parent, crossed>>
    BY <1>4 DEF EnsureGroupExistsAndAssignUser, Continue, history, tree
  <2> HIDE DEF q
  <2>3. ~Moves(q) /\ \A s \in Requests \ {r} : ~Crosses(q, req[s])
    BY <2>1 DEF Moves, Places, Crosses
  <2> QED  BY <2>2, <2>3, StepKeeps
<1>5. CASE RemoveFromKeycloakGroup(r) \/ PutIn(r)
  BY <1>5, IdleKeeps DEF RemoveFromKeycloakGroup, PutIn, Finish, Continue, history, tree
<1>6. CASE TakeOut(r)
  <2>1. PICK g : Continue(r, [req[r] EXCEPT !.todo = @ \ {g}]) /\ UNCHANGED <<rows, parent>>
    BY <1>6 DEF TakeOut, tree
  <2> QED  BY <2>1, TodoShrinks
<1> QED  BY <1>1, <1>2, <1>3, <1>4, <1>5, <1>6 DEF MemberStep

LEMMA NextForestInv == IInv /\ ForestInv /\ [Next]_vars => ForestInv'
<1> SUFFICES ASSUME IInv, ForestInv, [Next]_vars PROVE ForestInv'
  OBVIOUS
<1>1. ASSUME NEW r \in Requests, Abort(r) PROVE ForestInv'
  BY <1>1, IdleKeeps DEF Abort, tree
<1>2. CASE UNCHANGED <<rows, parent, req, crossed>>
  BY <1>2 DEF ForestInv, MovesClimb, Unmixed, Rooted, Climb
<1>3. ASSUME NEW r \in Requests, TreeStep(r) PROVE ForestInv'
  BY <1>3, ChecksKeep, HandlersKeep, InsertKeeps, WriteKeeps DEF TreeStep
<1> QED
  BY <1>1, <1>2, <1>3, DeletionsKeep, MembersKeep, SeedKeeps
  DEF Next, vars, AssignUserToOrganizations, RemoveUserFromOrganization, tree, history

\* However many organizations there are and whatever requests overlap, no
\* organization ends up above itself, unless a move overlapped with another
\* move, with a creation or with the seed.
THEOREM Forests == Spec => []Forest
<1>1. ForestInv => Forest
  BY DEF ForestInv, Rooted, Forest
<1>2. Spec => [](IInv /\ ForestInv)
  BY InitIInv, NextIInv, InitForestInv, NextForestInv, PTL DEF Spec
<1> QED  BY <1>1, <1>2, PTL

(***************************************************************************)
(* The codes.  While a move is between its two writes, the codes are those *)
(* of the tree it makes, but for its organization's own.  As long as no    *)
(* move overlaps with another or with a creation, what it read is still    *)
(* so, and the forest keeps the new parent out of the subtree that is      *)
(* renumbered.                                                             *)
(***************************************************************************)
\* The codes cd are those of the tree of parents pr, over the rows rw.
Follows(rw, cd, pr) ==
    \A o \in rw : cd[o] # <<>> /\ Front(cd[o]) = IF pr[o] = None THEN <<>> ELSE cd[pr[o]]

\* The column's unique index and its width.
UniqueCodes == \A x, y \in rows : code[x] = code[y] => x = y
CodesFit == \A o \in rows : Fits(code[o])
\* The rows have levels, counted from the top: as many as a code has numbers.
LeveledBy(rw, pr) ==
    \E level \in [rw -> 1..CodeLevels] :
        \A o \in rw : level[o] = IF pr[o] = None THEN 1 ELSE level[pr[o]] + 1
Leveled == LeveledBy(rows, parent)

\* What a request has read of the codes is still so when it uses it.
Knows(q, rw, us, cd) ==
    /\ q.pc \in {"target", "depth", "codes"} => Moves(q)
    /\ q.pc = "generate" => Places(q)
    /\ q.pc = "ownCode" => q.own # <<>> /\ q.op \in {"create", "update"}
    /\ q.pc = "write" => q.op \in {"move", "update"}
    /\ q.op = "update" /\ ~Moves(q) /\ q.own = <<>> => q.new = <<>>
    /\ q.op = "move" => q.own = <<>>
    /\ q.op = "create" => q.to \in us \cup {None}
    /\ Moves(q) /\ q.org \in rw /\ ~Renumbering(q) => q.old = cd[q.org]
    /\ q.op = "create" \/ q.pc \in {"depth", "generate", "codes"} =>
         /\ q.to = None => q.prefix = <<>>
         /\ q.to \in rw => q.prefix = cd[q.to]
    /\ q.pc \in {"codes", "insert"} /\ q.own = <<>> =>
         \E n \in 1..PerLevel : q.new = Append(q.prefix, n)
KnowsCodes == \A r \in Requests : Knows(req[r], rows, used, code)

\* Between the two writes of a move, its tree is the one it is going to write.
Steady == (\A r \in Requests : ~Renumbering(req[r])) => Follows(rows, code, parent)
UnderWay ==
    \A r \in Requests :
      Renumbering(req[r]) /\ req[r].own = <<>>
      /\ req[r].org \in rows /\ req[r].to \in rows \cup {None} =>
        Follows(rows, [code EXCEPT ![req[r].org] = req[r].new],
                      [parent EXCEPT ![req[r].org] = req[r].to])

CodeInv ==
    torn \/ crossed \/ (UniqueCodes /\ CodesFit /\ Leveled /\ KnowsCodes /\ Steady /\ UnderWay)

(***************************************************************************)
(* Sequences.                                                              *)
(***************************************************************************)
LEMMA FrontOfCode ==
  ASSUME NEW c \in Codes, c # <<>>
  PROVE  /\ Front(c) \in Codes /\ Len(c) \in Nat \ {0} /\ Len(Front(c)) = Len(c) - 1
         /\ \A i \in 1..Len(c) - 1 : Front(c)[i] = c[i]
<1> DEFINE f == Front(c)
<1>1. c \in Seq(Nat \ {0}) /\ Len(c) \in Nat \ {0}
  BY EmptySeq DEF Codes
<1>2. \A i \in 1..Len(c) - 1 : c[i] \in Nat \ {0}
  BY <1>1
<1>3. /\ f \in Codes /\ Len(f) = IF 1 <= Len(c) - 1 THEN (Len(c) - 1) - 1 + 1 ELSE 0
      /\ \A i \in 1 .. (Len(c) - 1) - 1 + 1 : f[i] = c[1 + i - 1]
  BY <1>1, <1>2, SubSeqProperties DEF Front, Codes
<1> HIDE DEF f
<1>4. Len(f) = Len(c) - 1
  <2>1. PICK n \in Nat \ {0} : n = Len(c)
    BY <1>1
  <2>2. Len(f) = IF 1 <= n - 1 THEN (n - 1) - 1 + 1 ELSE 0
    BY <1>3, <2>1
  <2>3. (IF 1 <= n - 1 THEN (n - 1) - 1 + 1 ELSE 0) = n - 1
    OBVIOUS
  <2> QED
    BY <2>1, <2>2, <2>3
<1>5. \A i \in 1..Len(c) - 1 : f[i] = c[i]
  BY <1>1, <1>3
<1> QED
  BY <1>1, <1>3, <1>4, <1>5 DEF f

LEMMA SameCode ==
  ASSUME NEW c \in Codes, NEW d \in Codes, Len(c) = Len(d), \A i \in 1..Len(c) : c[i] = d[i]
  PROVE  c = d
  BY SeqEqual DEF Codes

LEMMA FrontOfAppend ==
  ASSUME NEW c \in Codes, NEW n \in Nat \ {0}
  PROVE  Append(c, n) \in Codes /\ Append(c, n) # <<>> /\ Front(Append(c, n)) = c
<1> DEFINE d == Append(c, n)
<1>1. /\ d \in Codes /\ d # <<>> /\ Len(d) = Len(c) + 1 /\ Len(c) \in Nat
      /\ \A i \in 1..Len(c) : d[i] = c[i]
  BY AppendProperties, LenProperties DEF Codes
<1> HIDE DEF d
<1>2. Front(d) = c
  <2>1. Front(d) \in Codes /\ Len(Front(d)) = Len(c) /\ \A i \in 1..Len(c) : Front(d)[i] = d[i]
    BY <1>1, FrontOfCode
  <2> QED
    BY <1>1, <2>1, SameCode
<1> QED
  BY <1>1, <1>2 DEF d

LEMMA PrefixByElements ==
  ASSUME NEW c \in Codes, NEW d \in Codes
  PROVE  IsPrefix(c, d) <=> Len(c) <= Len(d) /\ \A i \in 1..Len(c) : c[i] = d[i]
<1>1. /\ c \in Seq(Nat \ {0}) /\ d \in Seq(Nat \ {0}) /\ Len(c) \in Nat /\ Len(d) \in Nat
      /\ \A i \in 1..Len(c) : c[i] \in Nat \ {0}
      /\ \A i \in 1..Len(d) : d[i] \in Nat \ {0}
  BY LenProperties DEF Codes
<1>2. CASE Len(c) <= Len(d)
  <2>1. /\ SubSeq(c, 1, Len(c)) \in Codes /\ Len(SubSeq(c, 1, Len(c))) = Len(c)
        /\ \A i \in 1..Len(c) : SubSeq(c, 1, Len(c))[i] = c[i]
    BY <1>1, SubSeqProperties DEF Codes
  <2>2. /\ SubSeq(d, 1, Len(c)) \in Codes /\ Len(SubSeq(d, 1, Len(c))) = Len(c)
        /\ \A i \in 1..Len(c) : SubSeq(d, 1, Len(c))[i] = d[i]
    <3>1. \A i \in 1..Len(c) : d[i] \in Nat \ {0}
      BY <1>1, <1>2
    <3> QED
      BY <1>1, <3>1, SubSeqProperties DEF Codes
  <2>3. SubSeq(c, 1, Len(c)) = SubSeq(d, 1, Len(c)) <=> \A i \in 1..Len(c) : c[i] = d[i]
    BY <1>1, <2>1, <2>2, SameCode
  <2> QED
    BY <1>2, <2>3 DEF IsPrefix
<1> QED
  BY <1>1, <1>2 DEF IsPrefix

LEMMA BelowByFront ==
  ASSUME NEW old \in Codes, NEW c \in Codes, c # <<>>
  PROVE  IsStrictPrefix(old, c) <=> IsPrefix(old, Front(c))
<1>1. /\ Front(c) \in Codes /\ Len(c) \in Nat \ {0} /\ Len(Front(c)) = Len(c) - 1
      /\ \A i \in 1..Len(c) - 1 : Front(c)[i] = c[i]
  BY FrontOfCode
<1>2. Len(old) \in Nat
  BY DEF Codes
<1>3. ASSUME IsStrictPrefix(old, c) PROVE IsPrefix(old, Front(c))
  <2>1. Len(old) <= Len(c) /\ (\A i \in 1..Len(old) : old[i] = c[i]) /\ old # c
    BY <1>3, PrefixByElements DEF IsStrictPrefix
  <2>2. Len(old) # Len(c)
    BY <2>1, SameCode
  <2>3. Len(old) <= Len(c) - 1
    BY <1>1, <1>2, <2>1, <2>2
  <2> QED
    BY <1>1, <1>2, <2>1, <2>3, PrefixByElements
<1>4. ASSUME IsPrefix(old, Front(c)) PROVE IsStrictPrefix(old, c)
  <2>1. Len(old) <= Len(c) - 1 /\ \A i \in 1..Len(old) : old[i] = Front(c)[i]
    BY <1>1, <1>4, PrefixByElements
  <2>2. Len(old) <= Len(c) /\ (\A i \in 1..Len(old) : old[i] = c[i]) /\ old # c
    BY <1>1, <1>2, <2>1
  <2> QED
    BY <2>2, PrefixByElements DEF IsStrictPrefix
<1> QED
  BY <1>3, <1>4

\* A code whose first numbers old are replaced by new.
Moved(old, new, c) == new \o SubSeq(c, Len(old) + 1, Len(c))

LEMMA MovedElements ==
  ASSUME NEW old \in Codes, NEW new \in Codes, NEW c \in Codes, Len(old) < Len(c)
  PROVE  /\ Moved(old, new, c) \in Codes /\ Moved(old, new, c) # <<>>
         /\ Len(Moved(old, new, c)) = Len(new) + Len(c) - Len(old)
         /\ \A i \in 1..Len(new) + Len(c) - Len(old) :
              Moved(old, new, c)[i] = IF i <= Len(new) THEN new[i] ELSE c[Len(old) + i - Len(new)]
<1> DEFINE s == SubSeq(c, Len(old) + 1, Len(c))
<1>1. Len(old) \in Nat /\ Len(new) \in Nat /\ Len(c) \in Nat
  BY DEF Codes
<1>2. \A i \in Len(old) + 1..Len(c) : c[i] \in Nat \ {0}
  BY <1>1 DEF Codes
<1>3. s \in Seq(Nat \ {0}) /\ Len(s) = Len(c) - Len(old)
      /\ \A i \in 1..Len(c) - Len(old) : s[i] = c[Len(old) + i]
  BY <1>1, <1>2, SubSeqProperties
<1>4. Moved(old, new, c) = new \o s
  BY DEF Moved
<1> HIDE DEF s
<1>5. /\ new \o s \in Seq(Nat \ {0}) /\ Len(new \o s) = Len(new) + Len(s)
      /\ \A i \in 1..Len(new) + Len(s) :
           (new \o s)[i] = IF i <= Len(new) THEN new[i] ELSE s[i - Len(new)]
  BY <1>3, ConcatProperties DEF Codes
<1> DEFINE m == Moved(old, new, c)
<1>6. m \in Codes /\ Len(m) = Len(new) + Len(c) - Len(old)
  BY <1>1, <1>3, <1>4, <1>5 DEF Codes
<1>7. ASSUME NEW i \in 1..Len(new) + Len(c) - Len(old)
      PROVE  m[i] = IF i <= Len(new) THEN new[i] ELSE c[Len(old) + i - Len(new)]
  <2>1. i \in 1..Len(new) + Len(s)
    BY <1>1, <1>3
  <2>2. CASE i <= Len(new)
    BY <1>4, <1>5, <2>1, <2>2
  <2>3. CASE ~(i <= Len(new))
    <3>1. m[i] = s[i - Len(new)]
      BY <1>4, <1>5, <2>1, <2>3
    <3>2. i - Len(new) \in 1..Len(c) - Len(old)
      BY <1>1, <1>3, <2>1, <2>3
    <3>3. Len(old) + (i - Len(new)) = Len(old) + i - Len(new)
      BY <1>1
    <3> QED
      BY <1>3, <2>3, <3>1, <3>2, <3>3
  <2> QED
    BY <2>2, <2>3
<1>8. m # <<>>
  BY <1>1, <1>6
<1> HIDE DEF m
<1> QED
  BY <1>6, <1>7, <1>8 DEF m

LEMMA MovedCode ==
  ASSUME NEW old \in Codes, NEW new \in Codes, NEW c \in Codes, IsStrictPrefix(old, c)
  PROVE  /\ Moved(old, new, c) \in Codes /\ Moved(old, new, c) # <<>>
         /\ Front(Moved(old, new, c)) = IF Front(c) = old THEN new ELSE Moved(old, new, Front(c))
<1> DEFINE f == Front(c)
           m == Moved(old, new, c)
<1>1. Len(old) \in Nat /\ Len(new) \in Nat /\ Len(c) \in Nat
  BY DEF Codes
<1>2. Len(old) < Len(c)
  <2>1. Len(old) <= Len(c) /\ (\A i \in 1..Len(old) : old[i] = c[i]) /\ old # c
    BY PrefixByElements DEF IsStrictPrefix
  <2> QED
    BY <1>1, <2>1, SameCode
<1>3. c # <<>>
  BY <1>1, <1>2
<1>4. f \in Codes /\ Len(f) = Len(c) - 1 /\ \A i \in 1..Len(c) - 1 : f[i] = c[i]
  BY <1>3, FrontOfCode
<1>5. /\ m \in Codes /\ m # <<>> /\ Len(m) = Len(new) + Len(c) - Len(old)
      /\ \A i \in 1..Len(new) + Len(c) - Len(old) :
           m[i] = IF i <= Len(new) THEN new[i] ELSE c[Len(old) + i - Len(new)]
  BY <1>2, MovedElements
<1> HIDE DEF m, f
<1>6. Front(m) \in Codes /\ Len(Front(m)) = Len(m) - 1 /\ \A i \in 1..Len(m) - 1 : Front(m)[i] = m[i]
  BY <1>5, FrontOfCode
<1>7. ASSUME f = old PROVE Front(m) = new
  <2>1. Len(old) = Len(c) - 1
    BY <1>4, <1>7
  <2>2. Len(Front(m)) = Len(new)
    BY <1>1, <1>5, <1>6, <2>1
  <2>3. \A i \in 1..Len(new) : Front(m)[i] = new[i]
    BY <1>1, <1>5, <1>6, <2>1
  <2> QED
    BY <1>6, <2>2, <2>3, SameCode
<1>8. ASSUME f # old PROVE Front(m) = Moved(old, new, f)
  <2>1. Len(old) < Len(f)
    <3>1. IsPrefix(old, f)
      BY <1>3, BelowByFront DEF f
    <3>2. Len(old) <= Len(f) /\ \A i \in 1..Len(old) : old[i] = f[i]
      BY <1>4, <3>1, PrefixByElements
    <3> QED
      BY <1>1, <1>4, <1>8, <3>2, SameCode
  <2>2. /\ Moved(old, new, f) \in Codes /\ Len(Moved(old, new, f)) = Len(new) + Len(f) - Len(old)
        /\ \A i \in 1..Len(new) + Len(f) - Len(old) :
             Moved(old, new, f)[i] = IF i <= Len(new) THEN new[i] ELSE f[Len(old) + i - Len(new)]
    BY <1>4, <2>1, MovedElements
  <2>3. Len(Front(m)) = Len(Moved(old, new, f))
    BY <1>1, <1>4, <1>5, <1>6, <2>2
  <2>4. ASSUME NEW i \in 1..Len(Front(m)) PROVE Front(m)[i] = Moved(old, new, f)[i]
    <3>1. i \in 1..Len(new) + Len(f) - Len(old) /\ i \in 1..Len(new) + Len(c) - Len(old) /\ i \in 1..Len(m) - 1
      BY <1>1, <1>4, <1>5, <1>6
    <3>2. ~(i <= Len(new)) => Len(old) + i - Len(new) \in 1..Len(c) - 1
      BY <1>1, <1>4, <3>1
    <3> QED
      BY <1>4, <1>5, <1>6, <2>2, <3>1, <3>2
  <2> QED
    BY <1>6, <2>2, <2>3, <2>4, SameCode
<1> QED
  BY <1>5, <1>7, <1>8 DEF m, f

(***************************************************************************)
(* What a request knows, as it goes on and as others do.                   *)
(***************************************************************************)
LEMMA KnowsSame ==
  ASSUME NEW q, NEW rw, NEW us, NEW cd, NEW rw2 \in SUBSET rw, NEW us2, us \subseteq us2, NEW cd2,
         \A x \in rw2 : cd2[x] = cd[x], Knows(q, rw, us, cd)
  PROVE  Knows(q, rw2, us2, cd2)
  BY DEF Knows

LEMMA KnowsUnplaced ==
  ASSUME NEW q, NEW rw, NEW us, NEW cd, NEW rw2, NEW us2, NEW cd2,
         Knows(q, rw, us, cd), ~Places(q)
  PROVE  Knows(q, rw2, us2, cd2)
  BY DEF Knows, Places, Moves

CodeSteps == {"target", "depth", "codes", "generate", "ownCode", "write", "insert"}

\* A request for something else than a place.
LEMMA KnowsNothing ==
  ASSUME NEW q, NEW rw, NEW us, NEW cd, q.op \notin {"move", "update", "create"}, q.pc \notin CodeSteps
  PROVE  Knows(q, rw, us, cd) /\ ~Renumbering(q)
  BY DEF Knows, CodeSteps, Renumbering, Moves

LEMMA KnowsIdle ==
  ASSUME NEW rw, NEW us, NEW cd
  PROVE  Knows(Idle, rw, us, cd) /\ ~Renumbering(Idle) /\ ~Moves(Idle) /\ ~Places(Idle)
  BY DEF Knows, Renumbering, Moves, Places, Idle

\* One that goes from a step to a step where nothing is done with a code.
LEMMA KnowsOn ==
  ASSUME NEW q \in RequestType, NEW pc \in Steps \ CodeSteps, NEW rw, NEW us, NEW cd,
         Knows(q, rw, us, cd), ~Renumbering(q)
  PROVE  Knows([q EXCEPT !.pc = pc], rw, us, cd) /\ ~Renumbering([q EXCEPT !.pc = pc])
<1> DEFINE p == [q EXCEPT !.pc = pc]
<1>1. /\ p.pc = pc /\ p.op = q.op /\ p.org = q.org /\ p.to = q.to /\ p.own = q.own
      /\ p.old = q.old /\ p.prefix = q.prefix /\ p.new = q.new
  BY DEF RequestType
<1> HIDE DEF p
<1>2. Knows(p, rw, us, cd) /\ ~Renumbering(p)
  BY <1>1 DEF Knows, CodeSteps, Renumbering, Moves, Places
<1> QED
  BY <1>2 DEF p

LEMMA FollowsFewer ==
  ASSUME NEW rw, NEW cd, NEW pr, NEW rw2 \in SUBSET rw, NEW cd2, NEW pr2, Follows(rw, cd, pr),
         \A x \in rw2 : cd2[x] = cd[x] /\ pr2[x] = pr[x] /\ pr2[x] \in rw2 \cup {None}
  PROVE  Follows(rw2, cd2, pr2)
  BY DEF Follows

LEMMA LeveledFewer ==
  ASSUME Leveled, ParentsExist', rows' \subseteq rows, \A x \in rows' : parent'[x] = parent[x]
  PROVE  Leveled'
<1>1. PICK level \in [rows -> 1..CodeLevels] :
        \A o \in rows : level[o] = IF parent[o] = None THEN 1 ELSE level[parent[o]] + 1
  BY DEF Leveled, LeveledBy
<1> DEFINE fewer == [o \in rows' |-> level[o]]
<1>2. fewer \in [rows' -> 1..CodeLevels]
  BY <1>1
<1>3. \A o \in rows' : fewer[o] = IF parent'[o] = None THEN 1 ELSE fewer[parent'[o]] + 1
  BY <1>1 DEF ParentsExist
<1> QED
  BY <1>2, <1>3 DEF Leveled, LeveledBy

\* A step that leaves the codes and the parents of those that stay as they are.
LEMMA CodesStay ==
  ASSUME IInv, IInv', CodeInv, NEW r \in Requests, \A s \in Requests \ {r} : req'[s] = req[s],
         rows' \subseteq rows, used \subseteq used',
         \A x \in rows' : code'[x] = code[x] /\ parent'[x] = parent[x],
         torn => torn', crossed => crossed',
         ~torn /\ ~crossed /\ Knows(req[r], rows, used, code) => Knows(req'[r], rows', used', code'),
         ~torn' /\ Renumbering(req[r]) => Renumbering(req'[r]),
         ~torn /\ ~crossed /\ Knows(req[r], rows, used, code) /\ Renumbering(req'[r]) =>
           /\ Renumbering(req[r]) /\ req'[r].own = req[r].own
           /\ req[r].own = <<>> => /\ req'[r].org = req[r].org /\ req'[r].to = req[r].to
                                   /\ req'[r].new = req[r].new
  PROVE  CodeInv'
<1> SUFFICES ASSUME ~torn', ~crossed'
             PROVE  (UniqueCodes /\ CodesFit /\ Leveled /\ KnowsCodes /\ Steady /\ UnderWay)'
  BY DEF CodeInv
<1>1. /\ UniqueCodes /\ CodesFit /\ Leveled /\ KnowsCodes /\ Steady /\ UnderWay
      /\ ~torn /\ ~crossed
  BY DEF CodeInv
<1>2. /\ \A o \in rows' : parent'[o] \in rows' \cup {None}
      /\ rows \subseteq Orgs /\ code \in [Orgs -> Codes] /\ parent \in [Orgs -> Orgs \cup {None}]
      /\ code' \in [Orgs -> Codes] /\ parent' \in [Orgs -> Orgs \cup {None}]
      /\ ParentsExist'
  BY DEF IInv, StoresOK, NothingDangles, ParentsExist
<1>3. UniqueCodes' /\ CodesFit'
  BY <1>1 DEF UniqueCodes, CodesFit
<1>4. Leveled'
  BY <1>1, <1>2, LeveledFewer
<1>5. Knows(req[r], rows, used, code)
  BY <1>1 DEF KnowsCodes
<1>6. KnowsCodes'
  <2>1. ASSUME NEW s \in Requests, s # r PROVE Knows(req'[s], rows', used', code')
    <3>1. Knows(req[s], rows, used, code) /\ req'[s] = req[s]
      BY <1>1, <2>1 DEF KnowsCodes
    <3> QED  BY <3>1, KnowsSame
  <2> QED  BY <1>1, <1>5, <2>1 DEF KnowsCodes
<1>7. Steady'
  <2> SUFFICES ASSUME \A s \in Requests : ~Renumbering(req'[s])
               PROVE  Follows(rows', code', parent')
    BY DEF Steady
  <2>1. \A s \in Requests : ~Renumbering(req[s])
    OBVIOUS
  <2>2. Follows(rows, code, parent)
    BY <1>1, <2>1 DEF Steady
  <2> QED  BY <1>2, <2>2, FollowsFewer
<1>8. UnderWay'
  <2> SUFFICES ASSUME NEW s \in Requests, Renumbering(req'[s]), req'[s].own = <<>>,
                      req'[s].org \in rows', req'[s].to \in rows' \cup {None}
               PROVE  Follows(rows', [code' EXCEPT ![req'[s].org] = req'[s].new],
                                     [parent' EXCEPT ![req'[s].org] = req'[s].to])
    BY DEF UnderWay
  <2>1. /\ Renumbering(req[s]) /\ req[s].own = <<>> /\ req'[s].org = req[s].org
        /\ req'[s].to = req[s].to /\ req'[s].new = req[s].new
    BY <1>1, <1>5
  <2> DEFINE o == req[s].org
             cd == [code EXCEPT ![o] = req[s].new]
             pr == [parent EXCEPT ![o] = req[s].to]
             cd2 == [code' EXCEPT ![o] = req[s].new]
             pr2 == [parent' EXCEPT ![o] = req[s].to]
  <2>2. Follows(rows, cd, pr)
    BY <1>1, <2>1 DEF UnderWay
  <2>3. \A x \in rows' : cd2[x] = cd[x] /\ pr2[x] = pr[x] /\ pr2[x] \in rows' \cup {None}
    BY <1>2, <2>1
  <2>4. cd2 = [code' EXCEPT ![req'[s].org] = req'[s].new] /\ pr2 = [parent' EXCEPT ![req'[s].org] = req'[s].to]
    BY <2>1
  <2> HIDE DEF cd, pr, cd2, pr2
  <2>5. Follows(rows', cd2, pr2)
    BY <2>2, <2>3, FollowsFewer
  <2> QED  BY <2>4, <2>5
<1> QED
  BY <1>3, <1>4, <1>6, <1>7, <1>8

\* A step of a request that is not between its two writes, and does not come there.
LEMMA GoesElsewhere ==
  ASSUME IInv, IInv', CodeInv, NEW r \in Requests, NEW q, req' = [req EXCEPT ![r] = q],
         rows' \subseteq rows, used' = used, torn' = torn, crossed => crossed',
         \A x \in rows' : code'[x] = code[x] /\ parent'[x] = parent[x],
         ~Renumbering(req[r]), ~Renumbering(q),
         Knows(req[r], rows, used, code) => Knows(q, rows, used, code)
  PROVE  CodeInv'
<1>1. req'[r] = q /\ \A s \in Requests \ {r} : req'[s] = req[s]
  BY DEF IInv, RequestsOK
<1>2. Knows(req[r], rows, used, code) => Knows(req'[r], rows', used', code')
  <2>1. rows' \in SUBSET rows /\ used \subseteq used'
    OBVIOUS
  <2> QED  BY <1>1, <2>1, KnowsSame
<1> QED
  BY <1>1, <1>2, CodesStay

LEMMA BeginsElse ==
  ASSUME IInv, IInv', CodeInv, NEW r \in Requests, NEW q, Begin(r, q), UNCHANGED tree,
         req[r].pc = "idle", q.op \notin {"move", "update", "create"}, q.pc \notin CodeSteps
  PROVE  CodeInv'
<1>1. Knows(q, rows, used, code) /\ ~Renumbering(q) /\ ~Renumbering(req[r])
  BY KnowsNothing DEF Renumbering
<1> QED
  BY <1>1, GoesElsewhere DEF Begin, tree

LEMMA GoesOnElse ==
  ASSUME IInv, IInv', CodeInv, NEW r \in Requests, NEW pc \in Steps \ CodeSteps, Goto(r, pc),
         req[r].pc \notin CodeSteps, rows' \subseteq rows, used' = used,
         \A x \in rows' : code'[x] = code[x] /\ parent'[x] = parent[x]
  PROVE  CodeInv'
<1> DEFINE q == [req[r] EXCEPT !.pc = pc]
<1>1. req[r] \in RequestType /\ ~Renumbering(req[r])
  BY DEF IInv, RequestsOK, CodeSteps, Renumbering
<1>2. /\ Knows(req[r], rows, used, code) => Knows(q, rows, used, code)
      /\ ~Renumbering(q)
  <2>1. ~Renumbering(q)
    BY <1>1 DEF Renumbering, CodeSteps, RequestType
  <2> QED  BY <1>1, <2>1, KnowsOn
<1>3. req' = [req EXCEPT ![r] = q] /\ torn' = torn /\ crossed' = crossed
  BY DEF Goto, Continue, history
<1> HIDE DEF q
<1> QED
  BY <1>1, <1>2, <1>3, GoesElsewhere

LEMMA TodoOfCodes ==
  ASSUME IInv, IInv', CodeInv, NEW r \in Requests, NEW q, Continue(r, q), UNCHANGED tree,
         q = Idle \/ (\E S : q = [req[r] EXCEPT !.todo = S]), req[r].pc \notin CodeSteps
  PROVE  CodeInv'
<1>1. req[r] \in RequestType /\ ~Renumbering(req[r])
  BY DEF IInv, RequestsOK, CodeSteps, Renumbering
<1>2. /\ Knows(req[r], rows, used, code) => Knows(q, rows, used, code)
      /\ ~Renumbering(q)
  <2>1. CASE q = Idle
    BY <2>1, KnowsIdle
  <2>2. ASSUME NEW S, q = [req[r] EXCEPT !.todo = S]
        PROVE  /\ Knows(req[r], rows, used, code) => Knows(q, rows, used, code)
               /\ ~Renumbering(q)
    <3>1. /\ q.op = req[r].op /\ q.to = req[r].to /\ q.org = req[r].org /\ q.own = req[r].own
          /\ q.pc = req[r].pc /\ q.old = req[r].old /\ q.prefix = req[r].prefix /\ q.new = req[r].new
      BY <1>1, <2>2 DEF RequestType
    <3> QED  BY <1>1, <3>1 DEF Knows, Renumbering, Moves, Places
  <2> QED  BY <2>1, <2>2
<1> QED
  BY <1>1, <1>2, GoesElsewhere DEF Continue, history, tree

LEMMA DeletionsKeepCodes ==
  ASSUME IInv, IInv', CodeInv, NEW r \in Requests, DeletionStep(r)
  PROVE  CodeInv'
<1>1. ASSUME NEW o \in Orgs, DeleteOrganization(r, o) PROVE CodeInv'
  <2> DEFINE q == [Request("delete", "hasChildren") EXCEPT !.org = o, !.todo = {name[o]}]
  <2>1. q.op = "delete" /\ q.pc = "hasChildren"
    BY DEF Request, Idle
  <2>2. Begin(r, q) /\ UNCHANGED tree /\ req[r].pc = "idle"
    BY <1>1 DEF DeleteOrganization, Free
  <2> HIDE DEF q
  <2> QED  BY <2>1, <2>2, BeginsElse DEF CodeSteps
<1>2. ASSUME NEW o \in Orgs, DeleteOrganizationCascade(r, o) PROVE CodeInv'
  <2> DEFINE q == [Request("cascade", "cascade") EXCEPT
                     !.org = o, !.todo = {name[x] : x \in Subtree(o)}]
  <2>1. q.op = "cascade" /\ q.pc = "cascade"
    BY DEF Request, Idle
  <2>2. Begin(r, q) /\ UNCHANGED tree /\ req[r].pc = "idle"
    BY <1>2 DEF DeleteOrganizationCascade, Free
  <2> HIDE DEF q
  <2> QED  BY <2>1, <2>2, BeginsElse DEF CodeSteps
<1>3. CASE HasChildren(r) \/ HasUsers(r)
  BY <1>3, GoesOnElse DEF HasChildren, HasUsers, At, CodeSteps, tree, Steps
<1>4. ASSUME NEW S, Erase(S)
      PROVE  /\ rows' \subseteq rows /\ used' = used
             /\ \A x \in rows' : code'[x] = code[x] /\ parent'[x] = parent[x]
  BY <1>4 DEF Erase, IInv, StoresOK
<1>5. CASE Delete(r)
  BY <1>4, <1>5, GoesOnElse DEF Delete, At, CodeSteps, Steps
<1>6. CASE DeleteCascade(r)
  BY <1>4, <1>6, GoesOnElse DEF DeleteCascade, At, CodeSteps, Steps
<1>7. CASE DeleteGroup(r) \/ KeepGroup(r)
  <2>1. PICK n : Continue(r, Without(r, n)) /\ UNCHANGED tree /\ req[r].pc = "kcDelete"
    BY <1>7 DEF DeleteGroup, KeepGroup, At
  <2> QED  BY <2>1, TodoOfCodes DEF Without, CodeSteps
<1> QED
  BY <1>1, <1>2, <1>3, <1>5, <1>6, <1>7 DEF DeletionStep

LEMMA MembersKeepCodes ==
  ASSUME IInv, IInv', CodeInv, NEW r \in Requests, MemberStep(r)
  PROVE  CodeInv'
<1>0. req[r] \in RequestType /\ Carries(req[r])
  BY DEF IInv, RequestsOK
<1>1. ASSUME NEW u \in Users, NEW gs \in SUBSET Orgs,
             AssignUserToGroups(r, u, gs) \/ ReplaceUserGroups(r, u, gs)
      PROVE  CodeInv'
  <2> DEFINE q1 == [Request("assign", "join") EXCEPT !.user = u, !.todo = gs]
             q2 == [Request("replace", "replace") EXCEPT
                      !.user = u, !.chosen = gs,
                      !.todo = {g \in rows : <<u, g>> \in members /\ Grounded(g)}]
  <2>1. q1.op = "assign" /\ q2.op = "replace" /\ q1.pc = "join" /\ q2.pc = "replace"
    BY DEF Request, Idle
  <2>2. (Begin(r, q1) \/ Begin(r, q2)) /\ UNCHANGED tree /\ req[r].pc = "idle"
    BY <1>1 DEF AssignUserToGroups, ReplaceUserGroups, Free
  <2> HIDE DEF q1, q2
  <2> QED  BY <2>1, <2>2, BeginsElse DEF CodeSteps
<1>2. ASSUME NEW u \in Users, NEW g \in Orgs, RemoveUserFromGroup(r, u, g) PROVE CodeInv'
  <2> DEFINE q == [Request("unassign", "kcLeave") EXCEPT !.user = u, !.name = name[g]]
  <2>1. q.op = "unassign" /\ q.pc = "kcLeave"
    BY DEF Request, Idle
  <2>2. Begin(r, q) /\ UNCHANGED tree /\ req[r].pc = "idle"
    BY <1>2 DEF RemoveUserFromGroup, Free
  <2> HIDE DEF q
  <2> QED  BY <2>1, <2>2, BeginsElse DEF CodeSteps
<1>3. ASSUME NEW q, Continue(r, q), UNCHANGED tree, q.op \notin {"move", "update", "create"},
             q.pc \notin CodeSteps, req[r].pc \notin CodeSteps
      PROVE  CodeInv'
  <2>1. Knows(q, rows, used, code) /\ ~Renumbering(q) /\ ~Renumbering(req[r])
    BY <1>3, KnowsNothing DEF Renumbering, CodeSteps
  <2> QED  BY <1>3, <2>1, GoesElsewhere DEF Continue, history, tree
<1>4. CASE JoinGroup(r)
  <2>1. PICK g : Continue(r, [req[r] EXCEPT !.org = g, !.name = name[g], !.pc = "kcJoin"])
    BY <1>4 DEF JoinGroup
  <2> DEFINE q == [req[r] EXCEPT !.org = g, !.name = name[g], !.pc = "kcJoin"]
  <2>2. /\ q.op = "assign" /\ q.pc = "kcJoin" /\ req[r].pc = "join"
        /\ UNCHANGED tree /\ Continue(r, q)
    BY <1>0, <1>4, <2>1 DEF JoinGroup, At, Carries, RequestType
  <2> HIDE DEF q
  <2> QED  BY <1>3, <2>2 DEF CodeSteps
<1>5. CASE EnsureGroupExistsAndAssignUser(r)
  <2> DEFINE q == IF req[r].todo = {req[r].org} THEN Idle
                  ELSE [req[r] EXCEPT !.todo = @ \ {req[r].org}, !.pc = "join"]
  <2>1. /\ q.op \in {"assign", "none"} /\ q.pc \in {"idle", "join"} /\ req[r].pc = "kcJoin"
        /\ UNCHANGED tree /\ Continue(r, q)
    BY <1>0, <1>5 DEF EnsureGroupExistsAndAssignUser, At, Carries, RequestType, Idle
  <2> HIDE DEF q
  <2> QED  BY <1>3, <2>1 DEF CodeSteps
<1>6. CASE RemoveFromKeycloakGroup(r) \/ PutIn(r)
  BY <1>6, TodoOfCodes DEF RemoveFromKeycloakGroup, PutIn, Finish, At, CodeSteps
<1>7. CASE TakeOut(r)
  BY <1>7, TodoOfCodes DEF TakeOut, At, CodeSteps
<1> QED
  BY <1>1, <1>2, <1>4, <1>5, <1>6, <1>7 DEF MemberStep

LEMMA AbortKeepsCodes ==
  ASSUME IInv, IInv', CodeInv, NEW r \in Requests, Abort(r)
  PROVE  CodeInv'
<1>1. CASE Renumbering(req[r])
  <2>1. torn'
    BY <1>1 DEF Abort, Renumbering
  <2> QED  BY <2>1 DEF CodeInv
<1>2. CASE ~Renumbering(req[r])
  <2>1. torn' = torn
    BY <1>2 DEF Abort, Renumbering, IInv, StoresOK
  <2> QED  BY <1>2, <2>1, KnowsIdle, GoesElsewhere DEF Abort, tree
<1> QED
  BY <1>1, <1>2

LEMMA HandlersKeepCodes ==
  ASSUME IInv, IInv', CodeInv, NEW r \in Requests,
         \/ \E n \in Names, p \in Orgs \cup {None}, own \in OwnCodes : CreateOrganization(r, n, p, own)
         \/ \E o \in Orgs, p \in Orgs \cup {None} : MoveOrganization(r, o, p)
         \/ \E o \in Orgs, n \in Names \cup {None}, p \in Orgs \cup {None}, own \in OwnCodes :
              UpdateOrganization(r, o, n, p, own)
  PROVE  CodeInv'
<1>0. None \notin rows /\ rows \subseteq used
  BY NoneAssumption DEF IInv, StoresOK
<1>1. ASSUME NEW q, Begin(r, q), UNCHANGED tree, req[r].pc = "idle",
             Knows(q, rows, used, code), ~Renumbering(q)
      PROVE  CodeInv'
  <2>1. ~Renumbering(req[r])
    BY <1>1 DEF Renumbering
  <2> QED  BY <1>1, <2>1, GoesElsewhere DEF Begin, tree
<1>2. ASSUME NEW n \in Names, NEW p \in Orgs \cup {None}, NEW own \in OwnCodes,
             CreateOrganization(r, n, p, own)
      PROVE  CodeInv'
  <2> DEFINE q == [Request("create", "name") EXCEPT
                     !.name = n, !.under = p, !.to = p, !.own = own,
                     !.prefix = IF p = None THEN <<>> ELSE code[p]]
  <2>1. /\ q.op = "create" /\ q.pc = "name" /\ q.to = p
        /\ q.prefix = IF p = None THEN <<>> ELSE code[p]
    BY DEF Request, Idle
  <2>2. Begin(r, q) /\ UNCHANGED tree /\ req[r].pc = "idle" /\ p \in rows \cup {None}
    BY <1>2 DEF CreateOrganization, Free
  <2> HIDE DEF q
  <2>3. Knows(q, rows, used, code) /\ ~Renumbering(q)
    BY <1>0, <2>1, <2>2 DEF Knows, Renumbering, Moves
  <2> QED  BY <1>1, <2>2, <2>3
<1>3. ASSUME NEW o \in Orgs, NEW p \in Orgs \cup {None}, MoveOrganization(r, o, p)
      PROVE  CodeInv'
  <2> DEFINE q == [Request("move", IF p = None THEN "depth" ELSE "walk") EXCEPT
                     !.org = o, !.to = p, !.at = p, !.old = code[o]]
  <2>1. /\ q.op = "move" /\ q.pc = (IF p = None THEN "depth" ELSE "walk") /\ q.to = p
        /\ q.org = o /\ q.old = code[o] /\ q.own = <<>> /\ q.prefix = <<>>
    BY DEF Request, Idle
  <2>2. Begin(r, q) /\ UNCHANGED tree /\ req[r].pc = "idle"
    BY <1>3 DEF MoveOrganization, Free
  <2> HIDE DEF q
  <2>3. Knows(q, rows, used, code) /\ ~Renumbering(q)
    BY <1>0, <2>1 DEF Knows, Renumbering, Moves
  <2> QED  BY <1>1, <2>2, <2>3
<1>4. ASSUME NEW o \in Orgs, NEW n \in Names \cup {None}, NEW p \in Orgs \cup {None},
             NEW own \in OwnCodes, UpdateOrganization(r, o, n, p, own)
      PROVE  CodeInv'
  <2> DEFINE q == [Request("update", "idle") EXCEPT
                     !.org = o, !.old = code[o], !.under = p,
                     !.name = IF n = name[o] THEN None ELSE n,
                     !.to = IF p = parent[o] THEN None ELSE p,
                     !.at = IF p = parent[o] THEN None ELSE p,
                     !.own = IF own = code[o] THEN <<>> ELSE own]
             q2 == [q EXCEPT !.pc = FirstOf(q)]
  <2>1. /\ q2.op = "update" /\ q2.pc = FirstOf(q) /\ q2.to = q.to /\ q2.org = o
        /\ q2.old = code[o] /\ q2.own = q.own /\ q2.new = <<>>
    BY DEF Request, Idle
  <2>2. Begin(r, q2) /\ UNCHANGED tree /\ req[r].pc = "idle"
        /\ (q.name # None \/ q.to # None \/ q.own # <<>>)
    BY <1>4 DEF UpdateOrganization, Free
  <2> HIDE DEF q, q2
  <2>3. /\ FirstOf(q) \in {"name", "walk", "ownCode"}
        /\ FirstOf(q) = "ownCode" => q.to = None /\ q.own # <<>>
    BY <2>2 DEF FirstOf
  <2>4. Knows(q2, rows, used, code) /\ ~Renumbering(q2)
    BY <1>0, <2>1, <2>3 DEF Knows, Renumbering, Moves
  <2> QED  BY <1>1, <2>2, <2>4
<1> QED
  BY <1>2, <1>3, <1>4

LEMMA ChecksKeepCodes ==
  ASSUME IInv, IInv', CodeInv, NEW r \in Requests,
         \/ CheckName(r) \/ WalkUp(r) \/ ReadTarget(r) \/ CheckDepth(r)
         \/ GenerateOrganizationCode(r) \/ CheckOwnCode(r)
  PROVE  CodeInv'
<1>0. req[r] \in RequestType /\ Carries(req[r]) /\ None \notin rows
  BY NoneAssumption DEF IInv, StoresOK, RequestsOK
<1>1. ASSUME NEW q, Continue(r, q), UNCHANGED tree, req[r].pc \notin {"ownCode", "write"},
             ~Renumbering(q), Knows(req[r], rows, used, code) => Knows(q, rows, used, code)
      PROVE  CodeInv'
  <2>1. ~Renumbering(req[r])
    BY <1>1 DEF Renumbering
  <2> QED  BY <1>1, <2>1, GoesElsewhere DEF Continue, history, tree
<1>2. CASE CheckName(r)
  <2> DEFINE q == [req[r] EXCEPT !.pc = AfterName(req[r])]
  <2>1. /\ Continue(r, q) /\ UNCHANGED tree /\ req[r].pc = "name"
    BY <1>2 DEF CheckName, Goto, At
  <2>2. /\ q.op = req[r].op /\ q.to = req[r].to /\ q.org = req[r].org /\ q.own = req[r].own
        /\ q.old = req[r].old /\ q.prefix = req[r].prefix /\ q.new = req[r].new
        /\ q.pc = AfterName(req[r])
    BY <1>0 DEF RequestType
  <2> HIDE DEF q
  <2>3. /\ req[r].op \in {"create", "update"}
        /\ q.pc \in {"generate", "ownCode", "walk", "write"}
        /\ q.pc = "generate" => req[r].op = "create"
        /\ q.pc = "ownCode" => req[r].own # <<>> /\ ~Moves(req[r])
        /\ q.pc = "write" => req[r].op = "update" /\ ~Moves(req[r])
    BY <1>0, <2>1, <2>2 DEF AfterName, Carries, Moves
  <2>4. ~Renumbering(q)
    BY <2>2, <2>3 DEF Renumbering, Moves
  <2>5. Knows(req[r], rows, used, code) => Knows(q, rows, used, code)
    BY <2>1, <2>2, <2>3 DEF Knows, Renumbering, Moves, Places
  <2> QED  BY <1>1, <2>1, <2>4, <2>5
<1>3. CASE WalkUp(r)
  <2> DEFINE up == IF req[r].at \in rows THEN parent[req[r].at] ELSE None
             q == [req[r] EXCEPT !.seen = @ \cup {req[r].at}, !.at = up,
                                 !.pc = IF up = None THEN "target" ELSE "walk"]
  <2>1. Continue(r, q) /\ UNCHANGED tree /\ req[r].pc = "walk"
    BY <1>3 DEF WalkUp, At
  <2>2. /\ q.op = req[r].op /\ q.to = req[r].to /\ q.org = req[r].org /\ q.own = req[r].own
        /\ q.old = req[r].old /\ q.prefix = req[r].prefix /\ q.new = req[r].new
        /\ q.pc \in {"target", "walk"}
    BY <1>0 DEF RequestType
  <2> HIDE DEF q
  <2>3. ~Renumbering(q) /\ Moves(req[r])
    BY <1>0, <2>1, <2>2 DEF Renumbering, Carries
  <2>4. Knows(req[r], rows, used, code) => Knows(q, rows, used, code)
    BY <2>1, <2>2, <2>3 DEF Knows, Renumbering, Moves, Places
  <2> QED  BY <1>1, <2>1, <2>3, <2>4
<1>4. CASE ReadTarget(r)
  <2> DEFINE q == [req[r] EXCEPT !.prefix = code[req[r].to],
                                 !.pc = IF req[r].op = "move" THEN "depth" ELSE "generate"]
  <2>1. Continue(r, q) /\ UNCHANGED tree /\ req[r].pc = "target" /\ req[r].to \in rows
    BY <1>4 DEF ReadTarget, At
  <2>2. /\ q.op = req[r].op /\ q.to = req[r].to /\ q.org = req[r].org /\ q.own = req[r].own
        /\ q.old = req[r].old /\ q.prefix = code[req[r].to] /\ q.new = req[r].new
        /\ q.pc \in {"depth", "generate"}
    BY <1>0 DEF RequestType
  <2> HIDE DEF q
  <2>3. ~Renumbering(q)
    BY <2>2 DEF Renumbering
  <2>4. Knows(req[r], rows, used, code) => Knows(q, rows, used, code)
    BY <1>0, <2>1, <2>2 DEF Knows, Renumbering, Moves, Places
  <2> QED  BY <1>1, <2>1, <2>3, <2>4
<1>5. CASE CheckDepth(r)
  <2> DEFINE q == [req[r] EXCEPT !.pc = "generate"]
  <2>1. Continue(r, q) /\ UNCHANGED tree /\ req[r].pc = "depth"
    BY <1>5 DEF CheckDepth, Goto, At
  <2>2. /\ q.op = req[r].op /\ q.to = req[r].to /\ q.org = req[r].org /\ q.own = req[r].own
        /\ q.old = req[r].old /\ q.prefix = req[r].prefix /\ q.new = req[r].new
        /\ q.pc = "generate"
    BY <1>0 DEF RequestType
  <2> HIDE DEF q
  <2>3. ~Renumbering(q)
    BY <2>2 DEF Renumbering
  <2>4. Knows(req[r], rows, used, code) => Knows(q, rows, used, code)
    BY <1>0, <2>1, <2>2 DEF Knows, Renumbering, Moves, Places
  <2> QED  BY <1>1, <2>1, <2>3, <2>4
<1>6. CASE GenerateOrganizationCode(r)
  <2>1. PICK n \in 1..PerLevel :
          Continue(r, [req[r] EXCEPT !.new = Append(req[r].prefix, n), !.pc = AfterCode(req[r])])
    BY <1>6 DEF GenerateOrganizationCode
  <2> DEFINE q == [req[r] EXCEPT !.new = Append(req[r].prefix, n), !.pc = AfterCode(req[r])]
  <2>2. Continue(r, q) /\ UNCHANGED tree /\ req[r].pc = "generate"
    BY <1>6, <2>1 DEF GenerateOrganizationCode, At
  <2>3. /\ q.op = req[r].op /\ q.to = req[r].to /\ q.org = req[r].org /\ q.own = req[r].own
        /\ q.old = req[r].old /\ q.prefix = req[r].prefix /\ q.new = Append(req[r].prefix, n)
        /\ q.pc = IF req[r].op = "create" THEN "insert" ELSE "codes"
    BY <1>0 DEF RequestType, AfterCode
  <2> HIDE DEF q
  <2>4. ~Renumbering(q)
    BY <2>3 DEF Renumbering
  <2>5. Knows(req[r], rows, used, code) => Knows(q, rows, used, code)
    BY <1>0, <2>2, <2>3 DEF Knows, Renumbering, Moves, Places
  <2> QED  BY <1>1, <2>2, <2>4, <2>5
<1>7. CASE CheckOwnCode(r)
  <2> DEFINE q == [req[r] EXCEPT !.new = req[r].own,
                                 !.pc = IF req[r].op = "create" THEN "insert" ELSE "write"]
  <2>1. /\ req' = [req EXCEPT ![r] = q] /\ UNCHANGED tree /\ UNCHANGED history
        /\ req[r].pc = "ownCode"
    BY <1>7 DEF CheckOwnCode, At, Continue
  <2>2. /\ q.op = req[r].op /\ q.to = req[r].to /\ q.org = req[r].org /\ q.own = req[r].own
        /\ q.old = req[r].old /\ q.prefix = req[r].prefix /\ q.new = req[r].own
        /\ q.pc = IF req[r].op = "create" THEN "insert" ELSE "write"
    BY <1>0 DEF RequestType
  <2> HIDE DEF q
  <2>3. Renumbering(q) <=> Renumbering(req[r])
    BY <2>1, <2>2 DEF Renumbering, Moves
  <2>4. Knows(req[r], rows, used, code) => Knows(q, rows, used, code) /\ req[r].own # <<>>
    BY <1>0, <2>1, <2>2, <2>3 DEF Knows, Moves, Places
  <2>5. req'[r] = q /\ \A s \in Requests \ {r} : req'[s] = req[s]
    BY <2>1 DEF IInv, RequestsOK
  <2>6. UNCHANGED <<rows, used, parent, code, torn, crossed>>
    BY <2>1 DEF tree, history
  <2>7. Knows(req[r], rows, used, code) => Knows(req'[r], rows', used', code') /\ req[r].own # <<>>
    BY <2>4, <2>5, <2>6
  <2> QED  BY <2>2, <2>3, <2>5, <2>6, <2>7, CodesStay
<1> QED
  BY <1>2, <1>3, <1>4, <1>5, <1>6, <1>7

(***************************************************************************)
(* The statements that write codes.                                        *)
(***************************************************************************)
\* The levels of a tree are the lengths of its codes.
LEMMA LevelOfCodes ==
  ASSUME NEW rw \in SUBSET Orgs, NEW cd \in [Orgs -> Codes], NEW pr,
         \A o \in rw : pr[o] \in rw \cup {None} /\ Fits(cd[o]), Follows(rw, cd, pr)
  PROVE  LeveledBy(rw, pr)
<1> DEFINE level == [o \in rw |-> Len(cd[o])]
<1>1. \A o \in rw : /\ cd[o] \in Codes /\ cd[o] # <<>>
                    /\ Len(cd[o]) \in Nat \ {0} /\ Len(Front(cd[o])) = Len(cd[o]) - 1
  BY FrontOfCode DEF Follows
<1>2. CodeLevels \in Nat \ {0}
  BY BoundAssumption
<1>3. level \in [rw -> 1..CodeLevels]
  BY <1>1, <1>2 DEF Fits
<1>4. ASSUME NEW o \in rw PROVE level[o] = IF pr[o] = None THEN 1 ELSE level[pr[o]] + 1
  <2>1. PICK n \in Nat \ {0} : n = Len(cd[o])
    BY <1>1
  <2>2. CASE pr[o] = None
    <3>1. Len(Front(cd[o])) = 0
      BY <2>2 DEF Follows
    <3>2. n - 1 = 0
      BY <1>1, <2>1, <3>1
    <3> QED  BY <2>1, <2>2, <3>2
  <2>3. CASE pr[o] # None
    <3>1. Front(cd[o]) = cd[pr[o]] /\ pr[o] \in rw
      BY <2>3 DEF Follows
    <3>2. Len(cd[pr[o]]) = n - 1
      BY <1>1, <2>1, <3>1
    <3> QED  BY <2>1, <2>3, <3>1, <3>2
  <2> QED  BY <2>2, <2>3
<1> QED
  BY <1>3, <1>4 DEF LeveledBy

\* Rows that come do not disturb what a creation has read.
LEMMA KnowsMore ==
  ASSUME NEW q, NEW rw, NEW us, NEW cd, NEW rw2, NEW us2, us \subseteq us2, NEW cd2, None \notin rw2,
         \A x \in us \cap rw2 : x \in rw /\ cd2[x] = cd[x], Knows(q, rw, us, cd), ~Moves(q)
  PROVE  Knows(q, rw2, us2, cd2)
<1>1. CASE ~Places(q)
  BY <1>1, KnowsUnplaced
<1>2. CASE q.op = "create"
  BY <1>2 DEF Knows, Moves
<1> QED
  BY <1>1, <1>2 DEF Places

LEMMA InsertKeepsCodes ==
  ASSUME IInv, IInv', ForestInv, CodeInv, NEW r \in Requests, InsertOrganization(r)
  PROVE  CodeInv'
<1> SUFFICES ASSUME ~torn', ~crossed'
             PROVE  (UniqueCodes /\ CodesFit /\ Leveled /\ KnowsCodes /\ Steady /\ UnderWay)'
  BY DEF CodeInv
<1> DEFINE q == req[r]
<1>1. PICK o \in Orgs \ used : /\ rows' = rows \cup {o} /\ used' = used \cup {o}
                               /\ parent' = [parent EXCEPT ![o] = q.to]
                               /\ code' = [code EXCEPT ![o] = q.new]
  BY DEF InsertOrganization
<1>2. /\ req' = [req EXCEPT ![r] = Idle] /\ ~crossed /\ ~torn /\ q.own = <<>>
      /\ q.to \in rows \cup {None} /\ q.pc = "insert" /\ Fits(q.new)
      /\ \A x \in rows \ {None} : code[x] # q.new
  BY DEF InsertOrganization, Written, HasParent, At, ExistsCode
<1>3. /\ UniqueCodes /\ CodesFit /\ KnowsCodes /\ Steady /\ Unmixed
  BY <1>2 DEF CodeInv, ForestInv
<1>4. /\ q \in RequestType /\ q.op = "create" /\ ~Moves(q)
      /\ \A s \in Requests : req'[s] = IF s = r THEN Idle ELSE req[s]
  BY <1>2 DEF IInv, RequestsOK, Carries, Moves
<1>5. \A s \in Requests : ~Moves(req[s])
  BY <1>3, <1>4 DEF Unmixed, Crosses, Places
<1>6. \A s \in Requests : ~Renumbering(req[s]) /\ ~Renumbering(req'[s])
  BY <1>4, <1>5, KnowsIdle DEF Renumbering
<1>7. Follows(rows, code, parent)
  BY <1>3, <1>6 DEF Steady
<1>8. /\ code \in [Orgs -> Codes] /\ parent \in [Orgs -> Orgs \cup {None}] /\ rows \subseteq used
      /\ \A x \in rows : parent[x] \in rows \cup {None}
      /\ code' \in [Orgs -> Codes] /\ rows' \subseteq Orgs /\ None \notin rows'
      /\ \A x \in rows' : parent'[x] \in rows' \cup {None}
      /\ used \subseteq Orgs /\ None \notin Orgs
  BY NoneAssumption DEF IInv, StoresOK, NothingDangles, ParentsExist
<1>9. /\ q.prefix \in Codes /\ q.prefix = (IF q.to = None THEN <<>> ELSE code[q.to])
      /\ \E n \in 1..PerLevel : q.new = Append(q.prefix, n)
  BY <1>2, <1>3, <1>4 DEF KnowsCodes, Knows, RequestType
<1>10. q.new # <<>> /\ Front(q.new) = q.prefix
  <2>1. PICK n \in 1..PerLevel : q.new = Append(q.prefix, n)
    BY <1>9
  <2>2. n \in Nat \ {0}
    BY BoundAssumption
  <2> QED  BY <1>9, <2>1, <2>2, FrontOfAppend
<1>11. q.new \in Codes /\ q.to \in Orgs \cup {None}
  BY <1>4 DEF RequestType
<1> HIDE DEF q
<1>12. /\ \A x \in rows : code'[x] = code[x] /\ parent'[x] = parent[x] /\ x # o
       /\ code'[o] = q.new /\ parent'[o] = q.to /\ o \notin rows
  BY <1>1, <1>8
<1>13. UniqueCodes' /\ CodesFit'
  BY <1>1, <1>2, <1>3, <1>8, <1>12 DEF UniqueCodes, CodesFit
<1>14. Follows(rows', code', parent')
  BY <1>1, <1>2, <1>7, <1>8, <1>9, <1>10, <1>12 DEF Follows
<1>15. Leveled'
  <2>1. rows' \in SUBSET Orgs /\ \A x \in rows' : Fits(code'[x])
    BY <1>8, <1>13 DEF CodesFit
  <2> QED  BY <1>8, <1>14, <2>1, LevelOfCodes DEF Leveled
<1>16. KnowsCodes'
  <2>1. \A x \in used \cap rows' : x \in rows /\ code'[x] = code[x]
    BY <1>1, <1>12
  <2>2. used \subseteq used'
    BY <1>1
  <2>3. ASSUME NEW s \in Requests, s # r PROVE Knows(req'[s], rows', used', code')
    <3>1. Knows(req[s], rows, used, code) /\ ~Moves(req[s]) /\ req'[s] = req[s]
      BY <1>3, <1>4, <1>5, <2>3 DEF KnowsCodes
    <3> QED  BY <1>8, <2>1, <2>2, <3>1, KnowsMore
  <2> QED  BY <1>4, <2>3, KnowsIdle DEF KnowsCodes
<1> QED
  BY <1>6, <1>13, <1>14, <1>15, <1>16 DEF Steady, UnderWay

LEMMA WriteKeepsCodes ==
  ASSUME IInv, IInv', ForestInv, CodeInv, NEW r \in Requests, WriteOrganization(r)
  PROVE  CodeInv'
<1> DEFINE q == req[r]
<1>1. /\ parent' = IF Moves(q) THEN [parent EXCEPT ![q.org] = q.to] ELSE parent
      /\ code' = IF q.new = <<>> THEN code ELSE [code EXCEPT ![q.org] = q.new]
      /\ req' = [req EXCEPT ![r] = Idle] /\ crossed' = crossed /\ torn' = (torn \/ q.own # <<>>)
      /\ rows' = rows /\ used' = used /\ q.org \in rows /\ q.pc = "write"
      /\ q.to \in rows \cup {None} /\ Fits(q.new) /\ \A x \in rows \ {q.org} : code[x] # q.new
  BY DEF WriteOrganization, Written, At, HasParent, ExistsCode
<1>2. CASE torn' \/ crossed'
  BY <1>2 DEF CodeInv
<1>3. CASE ~Moves(q) /\ ~torn' /\ ~crossed'
  <2>1. Knows(q, rows, used, code) /\ q.own = <<>>
    BY <1>1, <1>3 DEF CodeInv, KnowsCodes
  <2>2. q.new = <<>>
    BY <1>1, <1>3, <2>1 DEF Knows, Moves
  <2>3. code' = code /\ parent' = parent /\ torn' = torn
    BY <1>1, <1>3, <2>2 DEF IInv, StoresOK
  <2>4. ~Renumbering(q)
    BY <1>3 DEF Renumbering
  <2> QED  BY <1>1, <2>3, <2>4, KnowsIdle, GoesElsewhere
<1>4. CASE Moves(q) /\ ~torn' /\ ~crossed'
  <2> SUFFICES (UniqueCodes /\ CodesFit /\ Leveled /\ KnowsCodes /\ Steady /\ UnderWay)'
    BY DEF CodeInv
  <2>1. UniqueCodes /\ CodesFit /\ KnowsCodes /\ UnderWay /\ Unmixed /\ q.own = <<>>
    BY <1>1, <1>4 DEF CodeInv, ForestInv
  <2>2. \A s \in Requests : req'[s] = IF s = r THEN Idle ELSE req[s]
    BY <1>1 DEF IInv, RequestsOK
  <2>3. \A s \in Requests \ {r} : ~Places(req[s]) /\ ~Moves(req[s])
    BY <1>4, <2>1 DEF Unmixed, Crosses, Places
  <2>4. \A s \in Requests : ~Renumbering(req'[s])
    BY <2>2, <2>3, KnowsIdle DEF Renumbering
  <2>5. Renumbering(q)
    BY <1>1, <1>4 DEF Renumbering
  <2>6. Follows(rows, [code EXCEPT ![q.org] = q.new], [parent EXCEPT ![q.org] = q.to])
    BY <1>1, <2>1, <2>5 DEF UnderWay
  <2>7. /\ code \in [Orgs -> Codes] /\ rows \in SUBSET Orgs /\ code' \in [Orgs -> Codes]
        /\ \A x \in rows' : parent'[x] \in rows' \cup {None}
    BY DEF IInv, StoresOK, NothingDangles, ParentsExist
  <2> HIDE DEF q
  <2>8. q.new # <<>>
    BY <1>1, <2>6, <2>7 DEF Follows
  <2>9. code' = [code EXCEPT ![q.org] = q.new] /\ Follows(rows', code', parent')
    BY <1>1, <1>4, <2>6, <2>8
  <2>10. UniqueCodes' /\ CodesFit'
    BY <1>1, <2>1, <2>7, <2>9 DEF UniqueCodes, CodesFit
  <2>11. Leveled'
    <3>1. rows' \in SUBSET Orgs /\ \A x \in rows' : Fits(code'[x])
      BY <1>1, <2>7, <2>10 DEF CodesFit
    <3> QED  BY <2>7, <2>9, <3>1, LevelOfCodes DEF Leveled
  <2>12. KnowsCodes'
    <3>1. ASSUME NEW s \in Requests, s # r PROVE Knows(req'[s], rows', used', code')
      <4>1. Knows(req[s], rows, used, code) /\ ~Places(req[s]) /\ req'[s] = req[s]
        BY <2>1, <2>2, <2>3, <3>1 DEF KnowsCodes
      <4> QED  BY <4>1, KnowsUnplaced
    <3> QED  BY <2>2, <3>1, KnowsIdle DEF KnowsCodes
  <2> QED  BY <2>4, <2>9, <2>10, <2>11, <2>12 DEF Steady, UnderWay
<1> QED
  BY <1>2, <1>3, <1>4

\* A tree whose organization org has come below to, with what is below it.
LEMMA RenumberedTree ==
  ASSUME NEW rw \in SUBSET Orgs, NEW cd \in [Orgs -> Codes], NEW pr,
         \A x \in rw : pr[x] \in rw \cup {None}, \A x, y \in rw : cd[x] = cd[y] => x = y,
         Follows(rw, cd, pr), NEW org \in rw, NEW to \in rw \cup {None}, NEW new \in Codes,
         new # <<>>, Front(new) = IF to = None THEN <<>> ELSE cd[to],
         to # None => ~IsPrefix(cd[org], cd[to]),
         NEW cd2, NEW pr2, cd2[org] = new, pr2[org] = to,
         \A x \in rw \ {org} :
           /\ pr2[x] = pr[x]
           /\ cd2[x] = IF IsStrictPrefix(cd[org], cd[x]) THEN Moved(cd[org], new, cd[x]) ELSE cd[x]
  PROVE  Follows(rw, cd2, pr2)
<1> DEFINE old == cd[org]
<1>1. old \in Codes /\ old # <<>> /\ IsPrefix(old, old) /\ None \notin rw
  <2>1. old \in Codes /\ old # <<>> /\ None \notin rw
    BY NoneAssumption DEF Follows
  <2>2. Len(old) <= Len(old)
    BY <2>1 DEF Codes
  <2> QED  BY <2>1, <2>2, PrefixByElements
<1>2. \A x \in rw : cd[x] \in Codes /\ cd[x] # <<>>
                    /\ Front(cd[x]) = IF pr[x] = None THEN <<>> ELSE cd[pr[x]]
  BY DEF Follows
<1>3. ~IsPrefix(old, <<>>)
  <2>1. <<>> \in Codes /\ Len(<<>>) = 0 /\ Len(old) \in Nat \ {0}
    BY <1>1, EmptySeq DEF Codes
  <2>2. ~(Len(old) <= Len(<<>>))
    BY <2>1
  <2> QED  BY <1>1, <2>1, <2>2, PrefixByElements
<1>4. \A x \in rw : IsStrictPrefix(old, cd[x]) <=> pr[x] # None /\ IsPrefix(old, cd[pr[x]])
  BY <1>1, <1>2, <1>3, BelowByFront
<1>5. ASSUME NEW x \in rw, x # org
      PROVE  cd2[x] # <<>> /\ Front(cd2[x]) = IF pr2[x] = None THEN <<>> ELSE cd2[pr2[x]]
  <2> DEFINE y == pr[x]
  <2>1. CASE IsStrictPrefix(old, cd[x])
    <3>1. y \in rw /\ IsPrefix(old, cd[y]) /\ Front(cd[x]) = cd[y] /\ y # None
      BY <1>2, <1>4, <2>1
    <3>2. cd2[x] # <<>> /\ Front(cd2[x]) = IF cd[y] = old THEN new ELSE Moved(old, new, cd[y])
      BY <1>1, <1>2, <1>5, <2>1, <3>1, MovedCode
    <3>3. cd2[y] = IF cd[y] = old THEN new ELSE Moved(old, new, cd[y])
      BY <1>1, <3>1 DEF IsStrictPrefix
    <3> QED  BY <1>5, <3>1, <3>2, <3>3
  <2>2. CASE ~IsStrictPrefix(old, cd[x])
    <3>1. cd2[x] = cd[x] /\ pr2[x] = y
      BY <1>5, <2>2
    <3>2. y # None => y \in rw /\ y # org /\ ~IsStrictPrefix(old, cd[y])
      BY <1>1, <1>4, <2>2 DEF IsStrictPrefix
    <3>3. y # None => cd2[y] = cd[y]
      BY <3>2
    <3> QED  BY <1>2, <3>1, <3>3
  <2> QED  BY <2>1, <2>2
<1>6. Front(cd2[org]) = IF pr2[org] = None THEN <<>> ELSE cd2[pr2[org]]
  <2>1. CASE to # None
    <3>1. to # org /\ ~IsStrictPrefix(old, cd[to]) /\ to \in rw
      BY <1>1, <2>1 DEF IsStrictPrefix
    <3>2. cd2[to] = cd[to]
      BY <3>1
    <3> QED  BY <2>1, <3>2
  <2>2. CASE to = None
    BY <2>2
  <2> QED  BY <2>1, <2>2
<1> QED
  BY <1>5, <1>6 DEF Follows

\* The new parent is not below the organization that moves, by its code either.
LEMMA TargetOutside ==
  ASSUME IInv, UniqueCodes, Follows(rows, code, parent), Rooted, NEW q \in RequestType,
         Climb(q), q.at = None, q.org \in rows, q.to \in rows
  PROVE  ~IsPrefix(code[q.org], code[q.to])
<1> DEFINE old == code[q.org]
           T == {x \in q.seen \cap rows : IsPrefix(old, code[x])}
<1>1. /\ code \in [Orgs -> Codes] /\ rows \subseteq Orgs /\ None \notin rows
      /\ \A x \in rows : parent[x] \in rows \cup {None} /\ code[x] # <<>>
      /\ \A x \in rows : Front(code[x]) = IF parent[x] = None THEN <<>> ELSE code[parent[x]]
  BY NoneAssumption DEF IInv, StoresOK, NothingDangles, ParentsExist, Follows
<1>2. old \in Codes /\ old # <<>> /\ ~IsPrefix(old, <<>>)
  <2>1. old \in Codes /\ old # <<>>
    BY <1>1
  <2>2. <<>> \in Codes /\ Len(<<>>) = 0 /\ Len(old) \in Nat \ {0}
    BY <2>1, EmptySeq DEF Codes
  <2>3. ~(Len(old) <= Len(<<>>))
    BY <2>2
  <2> QED  BY <2>1, <2>2, <2>3, PrefixByElements
<1>3. ASSUME NEW x \in T PROVE parent[x] \in T
  <2>1. x # q.org /\ x \in rows /\ code[x] # old
    BY DEF Climb, UniqueCodes
  <2>2. IsStrictPrefix(old, code[x])
    BY <2>1 DEF IsStrictPrefix
  <2>3. code[x] \in Codes /\ code[x] # <<>>
    BY <1>1, <2>1
  <2>4. IsPrefix(old, Front(code[x]))
    BY <1>2, <2>2, <2>3, BelowByFront
  <2>5. parent[x] \in rows /\ IsPrefix(old, code[parent[x]]) /\ parent[x] # None
    BY <1>1, <1>2, <2>1, <2>4
  <2>6. parent[x] \in q.seen
    BY <2>5 DEF Climb
  <2> QED  BY <2>5, <2>6
<1>4. T = {}
  BY <1>3 DEF Rooted
<1>5. q.to \in q.seen
  BY <1>1 DEF Climb
<1> QED
  BY <1>4, <1>5

LEMMA RenumberingKeepsCodes ==
  ASSUME IInv, IInv', ForestInv, CodeInv, NEW r \in Requests, UpdateDescendantCodes(r)
  PROVE  CodeInv'
<1> SUFFICES ASSUME ~torn', ~crossed'
             PROVE  (UniqueCodes /\ CodesFit /\ Leveled /\ KnowsCodes /\ Steady /\ UnderWay)'
  BY DEF CodeInv
<1> DEFINE q == req[r]
           p == [q EXCEPT !.pc = IF q.own = <<>> THEN "write" ELSE "ownCode"]
<1>1. /\ code' = Renumbered(q.old, q.new) /\ req' = [req EXCEPT ![r] = p] /\ q.pc = "codes"
      /\ \A x, y \in rows : Fits(code'[x]) /\ (code'[x] = code'[y] => x = y)
      /\ UNCHANGED <<rows, used, parent>> /\ ~torn /\ ~crossed
  BY DEF UpdateDescendantCodes, At, Goto, Continue, history
<1>2. /\ UniqueCodes /\ CodesFit /\ Leveled /\ KnowsCodes /\ Steady /\ Unmixed
      /\ MovesClimb /\ Rooted
  BY <1>1 DEF CodeInv, ForestInv
<1>3. q \in RequestType /\ Knows(q, rows, used, code) /\ Moves(q) /\ ~Renumbering(q)
  BY <1>1, <1>2 DEF IInv, RequestsOK, KnowsCodes, Knows, Renumbering
<1>4. \A s \in Requests \ {r} : ~Places(req[s]) /\ ~Moves(req[s])
  BY <1>2, <1>3 DEF Unmixed, Crosses, Places
<1>5. \A s \in Requests : req'[s] = IF s = r THEN p ELSE req[s]
  BY <1>1 DEF IInv, RequestsOK
<1>6. /\ p.op = q.op /\ p.to = q.to /\ p.org = q.org /\ p.own = q.own /\ p.old = q.old
      /\ p.prefix = q.prefix /\ p.new = q.new
      /\ p.pc = IF q.own = <<>> THEN "write" ELSE "ownCode"
  BY <1>3 DEF RequestType
<1> HIDE DEF p
<1>7. Renumbering(p) /\ Moves(p)
  BY <1>3, <1>6 DEF Renumbering, Moves
<1>8. UniqueCodes' /\ CodesFit' /\ Leveled'
  BY <1>1, <1>2 DEF UniqueCodes, CodesFit, Leveled
<1>9. Steady'
  BY <1>5, <1>7 DEF Steady
<1>10. KnowsCodes'
  <2>1. ASSUME NEW s \in Requests, s # r PROVE Knows(req'[s], rows', used', code')
    <3>1. Knows(req[s], rows, used, code) /\ ~Places(req[s]) /\ req'[s] = req[s]
      BY <1>2, <1>4, <1>5, <2>1 DEF KnowsCodes
    <3> QED  BY <3>1, KnowsUnplaced
  <2>2. Knows(p, rows', used', code')
    BY <1>3, <1>6, <1>7 DEF Knows, Moves
  <2> QED  BY <1>5, <2>1, <2>2 DEF KnowsCodes
<1>11. ASSUME q.own = <<>>, q.org \in rows, q.to \in rows \cup {None}
       PROVE  Follows(rows, [code' EXCEPT ![q.org] = q.new], [parent EXCEPT ![q.org] = q.to])
  <2>1. Follows(rows, code, parent)
    BY <1>2, <1>3, <1>4 DEF Steady, Renumbering
  <2>2. /\ rows \in SUBSET Orgs /\ code \in [Orgs -> Codes] /\ None \notin rows
        /\ parent \in [Orgs -> Orgs \cup {None}] /\ code' \in [Orgs -> Codes]
        /\ \A x \in rows : parent[x] \in rows \cup {None}
    BY NoneAssumption DEF IInv, StoresOK, NothingDangles, ParentsExist
  <2>3. /\ q.old = code[q.org] /\ q.new \in Codes /\ q.prefix \in Codes
        /\ q.prefix = IF q.to = None THEN <<>> ELSE code[q.to]
        /\ \E n \in 1..PerLevel : q.new = Append(q.prefix, n)
    BY <1>1, <1>3, <1>11, <2>2 DEF Knows, RequestType
  <2>4. q.new # <<>> /\ Front(q.new) = q.prefix
    <3>1. PICK n \in 1..PerLevel : q.new = Append(q.prefix, n)
      BY <2>3
    <3>2. n \in Nat \ {0}
      BY BoundAssumption
    <3> QED  BY <2>3, <3>1, <3>2, FrontOfAppend
  <2>5. q.to # None => ~IsPrefix(code[q.org], code[q.to])
    <3>1. q.to # None => Climb(q) /\ q.at = None
      BY <1>1, <1>2, <1>3 DEF MovesClimb, Walking
    <3> HIDE DEF q
    <3> QED  BY <1>2, <1>3, <1>11, <2>1, <3>1, TargetOutside
  <2> DEFINE cd2 == [code' EXCEPT ![q.org] = q.new]
             pr2 == [parent EXCEPT ![q.org] = q.to]
  <2> HIDE DEF q
  <2>6. /\ cd2[q.org] = q.new /\ pr2[q.org] = q.to
        /\ \A x \in rows \ {q.org} : pr2[x] = parent[x] /\ cd2[x] = code'[x]
    BY <1>11, <2>2
  <2>7. ASSUME NEW x \in rows \ {q.org}
        PROVE  code'[x] = IF IsStrictPrefix(code[q.org], code[x])
                          THEN Moved(code[q.org], q.new, code[x]) ELSE code[x]
    BY <1>1, <2>2, <2>3 DEF Renumbered, Moved
  <2> HIDE DEF cd2, pr2
  <2>8. \A x \in rows \ {q.org} :
          /\ pr2[x] = parent[x]
          /\ cd2[x] = IF IsStrictPrefix(code[q.org], code[x])
                      THEN Moved(code[q.org], q.new, code[x]) ELSE code[x]
    BY <2>6, <2>7
  <2>9. Front(q.new) = IF q.to = None THEN <<>> ELSE code[q.to]
    BY <2>3, <2>4
  <2>10. \A x, y \in rows : code[x] = code[y] => x = y
    BY <1>2 DEF UniqueCodes
  <2>11. Follows(rows, cd2, pr2)
    <3> DEFINE org == q.org
               to == q.to
               new == q.new
    <3>1. /\ org \in rows /\ to \in rows \cup {None} /\ new \in Codes /\ new # <<>>
          /\ Front(new) = (IF to = None THEN <<>> ELSE code[to])
          /\ to # None => ~IsPrefix(code[org], code[to])
          /\ cd2[org] = new /\ pr2[org] = to
      BY <1>11, <2>3, <2>4, <2>5, <2>6, <2>9
    <3>2. \A x \in rows \ {org} :
            /\ pr2[x] = parent[x]
            /\ cd2[x] = IF IsStrictPrefix(code[org], code[x]) THEN Moved(code[org], new, code[x]) ELSE code[x]
      BY <2>8
    <3> HIDE DEF org, to, new
    <3>3. \A x \in rows : parent[x] \in rows \cup {None}
      BY <2>2
    <3> QED  BY <2>1, <2>2, <2>10, <3>1, <3>2, <3>3, RenumberedTree
  <2> QED  BY <2>11 DEF cd2, pr2
<1>12. UnderWay'
  <2>1. \A s \in Requests \ {r} : ~Renumbering(req'[s])
    BY <1>4, <1>5 DEF Renumbering
  <2> SUFFICES ASSUME req'[r].own = <<>>, req'[r].org \in rows', req'[r].to \in rows' \cup {None}
               PROVE  Follows(rows', [code' EXCEPT ![req'[r].org] = req'[r].new],
                                     [parent' EXCEPT ![req'[r].org] = req'[r].to])
    BY <2>1 DEF UnderWay
  <2>2. req'[r] = p /\ rows' = rows /\ parent' = parent
    BY <1>1, <1>5
  <2> HIDE DEF q
  <2> QED  BY <1>6, <1>11, <2>2
<1> QED
  BY <1>8, <1>9, <1>10, <1>12

LEMMA SeedKeepsCodes ==
  ASSUME IInv, IInv', CodeInv, UpsertOrganizations
  PROVE  CodeInv'
<1> SUFFICES ASSUME ~torn', ~crossed'
             PROVE  (UniqueCodes /\ CodesFit /\ Leveled /\ KnowsCodes /\ Steady /\ UnderWay)'
  BY DEF CodeInv
<1>1. PICK at : SeedAt(at) /\ IsInjective(at)
  BY DEF UpsertOrganizations, SeedAt
<1>2. /\ req' = req /\ ~torn /\ ~crossed /\ \A r \in Requests : ~Moves(req[r])
      /\ \A c \in DOMAIN Seed : Fits(c)
  BY DEF UpsertOrganizations
<1>3. UniqueCodes /\ CodesFit /\ KnowsCodes /\ Steady
  BY <1>2 DEF CodeInv
<1>4. \A r \in Requests : ~Renumbering(req[r]) /\ ~Renumbering(req'[r])
  BY <1>2 DEF Renumbering
<1>5. Follows(rows, code, parent)
  BY <1>3, <1>4 DEF Steady
<1>6. /\ code \in [Orgs -> Codes] /\ rows \subseteq used /\ used \subseteq Orgs
      /\ \A x \in rows : parent[x] \in rows \cup {None}
      /\ code' \in [Orgs -> Codes] /\ rows' \in SUBSET Orgs /\ None \notin Orgs
      /\ \A x \in rows' : parent'[x] \in rows' \cup {None}
  BY NoneAssumption DEF IInv, StoresOK, NothingDangles, ParentsExist
<1> DEFINE new == Range(at) \ rows
           c(o) == SeededAs(at, o)
<1>7. /\ rows' = rows \cup new /\ used' = used \cup new /\ at \in [DOMAIN Seed -> Orgs]
      /\ \A o \in rows : code'[o] = code[o] /\ parent'[o] = parent[o]
  BY <1>1, <1>6 DEF SeedAt
<1>8. ASSUME NEW o \in new
      PROVE  /\ c(o) \in DOMAIN Seed /\ c(o) \in Codes /\ at[c(o)] = o /\ code'[o] = c(o)
             /\ c(o) # <<>> /\ Len(c(o)) \in Nat \ {0}
             /\ Len(c(o)) # 1 => Front(c(o)) \in DOMAIN Seed
             /\ parent'[o] = IF Len(c(o)) = 1 THEN None ELSE at[Front(c(o))]
  <2>1. o \in Range(at) /\ o \in Orgs
    BY <1>7 DEF Range
  <2>2. /\ c(o) \in DOMAIN Seed /\ c(o) \in Codes /\ at[c(o)] = o
        /\ Len(c(o)) \in Nat \ {0} /\ Len(c(o)) # 1 => Front(c(o)) \in DOMAIN Seed
    BY <1>1, <2>1, SeedCodes DEF IInv
  <2>3. c(o) # <<>>
    BY <2>2, SeedAssumption
  <2>4. /\ code'[o] = c(o)
        /\ parent'[o] = IF Len(c(o)) = 1 THEN None ELSE at[Front(c(o))]
    BY <1>1, <2>1 DEF SeedAt
  <2> QED  BY <2>2, <2>3, <2>4
<1>9. \A d \in DOMAIN Seed : IF \E x \in rows \ {None} : code[x] = d
                             THEN at[d] \in rows /\ code[at[d]] = d ELSE at[d] \notin used
  BY <1>1 DEF SeedAt, ExistsCode
<1>10. ASSUME NEW d \in DOMAIN Seed PROVE at[d] \in rows' /\ code'[at[d]] = d
  <2>1. at[d] \in Range(at)
    BY <1>7 DEF Range
  <2>2. CASE at[d] \in rows
    BY <1>6, <1>7, <1>9, <2>2
  <2>3. CASE at[d] \notin rows
    <3>1. at[d] \in new
      BY <2>1, <2>3
    <3>2. at[c(at[d])] = at[d] /\ c(at[d]) \in DOMAIN Seed /\ code'[at[d]] = c(at[d])
      BY <1>8, <3>1
    <3> HIDE DEF c
    <3>3. c(at[d]) = d
      BY <1>1, <1>7, <3>2 DEF IsInjective
    <3> QED  BY <1>7, <3>1, <3>2, <3>3
  <2> QED  BY <2>2, <2>3
<1> HIDE DEF c
<1>11. ASSUME NEW o \in new PROVE \A x \in rows : code[x] # code'[o]
  <2>1. at[c(o)] \notin rows /\ c(o) \in DOMAIN Seed /\ code'[o] = c(o)
    BY <1>8
  <2> QED  BY <1>6, <1>9, <2>1
<1>12. UniqueCodes'
  <2>1. ASSUME NEW x \in new, NEW y \in new, code'[x] = code'[y] PROVE x = y
    BY <1>8, <2>1
  <2> QED  BY <1>3, <1>7, <1>11, <2>1 DEF UniqueCodes
<1>13. CodesFit'
  BY <1>2, <1>3, <1>7, <1>8 DEF CodesFit
<1>14. Follows(rows', code', parent')
  <2>1. ASSUME NEW o \in rows
        PROVE  code'[o] # <<>> /\ Front(code'[o]) = IF parent'[o] = None THEN <<>> ELSE code'[parent'[o]]
    BY <1>5, <1>6, <1>7 DEF Follows
  <2>2. ASSUME NEW o \in new
        PROVE  code'[o] # <<>> /\ Front(code'[o]) = IF parent'[o] = None THEN <<>> ELSE code'[parent'[o]]
    <3>1. code'[o] = c(o) /\ c(o) # <<>> /\ c(o) \in Codes
      BY <1>8
    <3>2. CASE Len(c(o)) = 1
      <4>1. Front(c(o)) \in Codes /\ Len(Front(c(o))) = Len(c(o)) - 1 /\ Len(c(o)) \in Nat
        BY <3>1, FrontOfCode
      <4>2. PICK n \in Nat : n = Len(c(o))
        BY <4>1
      <4>3. n = 1
        BY <3>2, <4>2
      <4>4. Len(Front(c(o))) = 0
        BY <4>1, <4>2, <4>3
      <4>5. Front(c(o)) = <<>>
        BY <4>1, <4>4, EmptySeq DEF Codes
      <4> QED  BY <1>8, <3>1, <3>2, <4>5
    <3>3. CASE Len(c(o)) # 1
      <4>1. Front(c(o)) \in DOMAIN Seed /\ parent'[o] = at[Front(c(o))]
        BY <1>8, <3>3
      <4>2. parent'[o] # None /\ code'[parent'[o]] = Front(c(o))
        BY <1>6, <1>10, <4>1
      <4> QED  BY <3>1, <4>2
    <3> QED  BY <3>2, <3>3
  <2> QED  BY <1>7, <2>1, <2>2 DEF Follows
<1>15. Leveled'
  <2>1. \A x \in rows' : Fits(code'[x])
    BY <1>13 DEF CodesFit
  <2> QED  BY <1>6, <1>14, <2>1, LevelOfCodes DEF Leveled
<1>16. KnowsCodes'
  <2>1. ASSUME NEW o \in new PROVE o \notin used
    <3>1. at[c(o)] = o /\ o \notin rows /\ c(o) \in DOMAIN Seed
      BY <1>8
    <3> QED  BY <1>9, <3>1
  <2>2. /\ \A x \in used \cap rows' : x \in rows /\ code'[x] = code[x]
        /\ used \subseteq used' /\ None \notin rows'
    BY <1>6, <1>7, <2>1
  <2>3. ASSUME NEW s \in Requests PROVE Knows(req'[s], rows', used', code')
    <3>1. Knows(req[s], rows, used, code) /\ ~Moves(req[s]) /\ req'[s] = req[s]
      BY <1>2, <1>3 DEF KnowsCodes
    <3> QED  BY <2>2, <3>1, KnowsMore
  <2> QED  BY <2>3 DEF KnowsCodes
<1> QED
  BY <1>4, <1>12, <1>13, <1>14, <1>15, <1>16 DEF Steady, UnderWay

LEMMA InitCodeInv == Init => CodeInv
<1> SUFFICES ASSUME Init PROVE CodeInv
  OBVIOUS
<1>1. UniqueCodes /\ CodesFit /\ Steady /\ UnderWay
  BY DEF Init, UniqueCodes, CodesFit, Steady, UnderWay, Follows
<1>2. KnowsCodes
  BY KnowsIdle DEF Init, KnowsCodes
<1>3. Leveled
  <2>1. [o \in {} |-> 1] \in [{} -> 1..CodeLevels]
    OBVIOUS
  <2> QED  BY <2>1 DEF Init, Leveled, LeveledBy
<1> QED
  BY <1>1, <1>2, <1>3 DEF CodeInv

LEMMA NextCodeInv == IInv /\ ForestInv /\ CodeInv /\ [Next]_vars => CodeInv'
<1> SUFFICES ASSUME IInv, ForestInv, CodeInv, [Next]_vars PROVE CodeInv'
  OBVIOUS
<1>0. IInv'
  BY NextIInv
<1>1. CASE UNCHANGED <<rows, used, parent, code, req, torn, crossed>>
  BY <1>1 DEF CodeInv, UniqueCodes, CodesFit, Leveled, KnowsCodes, Steady, UnderWay
<1>2. ASSUME NEW r \in Requests, TreeStep(r) PROVE CodeInv'
  BY <1>0, <1>2, HandlersKeepCodes, ChecksKeepCodes, InsertKeepsCodes, RenumberingKeepsCodes,
     WriteKeepsCodes DEF TreeStep
<1>3. ASSUME NEW r \in Requests, DeletionStep(r) \/ MemberStep(r) \/ Abort(r) PROVE CodeInv'
  BY <1>0, <1>3, DeletionsKeepCodes, MembersKeepCodes, AbortKeepsCodes
<1>4. CASE UpsertOrganizations
  BY <1>0, <1>4, SeedKeepsCodes
<1> QED
  BY <1>1, <1>2, <1>3, <1>4
  DEF Next, vars, AssignUserToOrganizations, RemoveUserFromOrganization, tree, history

LEMMA AlwaysCodeInv == Spec => []CodeInv
<1>1. Spec => [](IInv /\ ForestInv /\ CodeInv)
  BY InitIInv, NextIInv, InitForestInv, NextForestInv, InitCodeInv, NextCodeInv, PTL DEF Spec
<1> QED  BY <1>1, PTL

\* However many organizations there are, however deep, and whatever requests
\* overlap: unless a renumbering stopped half way, a code was given by hand, or
\* a move overlapped with another, a creation or the seed, the code of an
\* organization is the code of its parent with one number more whenever no move
\* is between its two writes.
THEOREM CodesFollow == Spec => []CodesFollowTree
<1>1. CodeInv => CodesFollowTree
  BY DEF CodeInv, Steady, Follows, CodesFollowTree
<1> QED  BY <1>1, AlwaysCodeInv, PTL

(***************************************************************************)
(* The depth.                                                              *)
(***************************************************************************)
LEMMA GreatestNumber ==
  ASSUME NEW n \in Nat, NEW N \in SUBSET (1..n), N # {}
  PROVE  \E g \in N : \A m \in N : m <= g
<1> DEFINE D == {n - m : m \in N}
<1>1. D \in SUBSET Nat /\ D # {}
  OBVIOUS
<1>2. PICK d \in D : \A e \in D : d <= e
  BY <1>1, LeastNumber
<1>3. PICK g \in N : d = n - g
  BY <1>2
<1>4. ASSUME NEW m \in N PROVE m <= g
  <2>1. n - m \in D
    BY <1>4
  <2>2. n - g <= n - m
    BY <1>2, <1>3, <2>1
  <2> QED  BY <2>2
<1> QED
  BY <1>4

\* Above an organization the levels fall by one, so none is taken twice.
LEMMA AncestorsLevels ==
  ASSUME NEW level \in [rows -> 1..CodeLevels], NEW o \in rows, None \notin rows, ParentsExist,
         \A x \in rows : level[x] = IF parent[x] = None THEN 1 ELSE level[parent[x]] + 1
  PROVE  \A x, y \in Ancestors(o) : level[x] = level[y] => x = y
<1> DEFINE A == Ancestors(o)
<1>1. /\ A \subseteq rows /\ o \in A
      /\ \A S \in SUBSET rows : UpClosed(S) /\ o \in S => A \subseteq S
  BY DEF Ancestors
<1>2. \A x \in A : parent[x] \in A \cup {None}
  <2>1. ASSUME NEW x \in A, parent[x] # None PROVE parent[x] \in A
    <3>1. parent[x] \in rows
      BY <1>1, <2>1 DEF ParentsExist
    <3>2. ASSUME NEW S \in SUBSET rows, UpClosed(S), o \in S PROVE parent[x] \in S
      <4>1. x \in S
        BY <1>1, <3>2
      <4> QED  BY <2>1, <3>2, <4>1 DEF UpClosed
    <3> QED  BY <3>1, <3>2 DEF Ancestors
  <2> QED  BY <2>1
<1> HIDE DEF A
<1>3. CodeLevels \in Nat /\ \A x \in A : level[x] \in 1..CodeLevels
  BY <1>1, BoundAssumption
<1>4. ASSUME NEW x \in A, x # o PROVE \E y \in A : parent[y] = x /\ level[y] = level[x] + 1
  <2>1. PICK y \in A : parent[y] = x
    <3>1. A \ {x} \in SUBSET rows /\ o \in A \ {x} /\ ~(A \subseteq A \ {x})
      BY <1>1, <1>4
    <3>2. ~UpClosed(A \ {x})
      BY <1>1, <3>1
    <3> QED  BY <1>1, <1>2, <3>2 DEF UpClosed
  <2>2. level[y] = level[x] + 1
    BY <1>1, <2>1
  <2> QED  BY <2>1, <2>2
<1>5. \A x \in A : level[x] <= level[o]
  <2> DEFINE B == {x \in A : level[x] <= level[o]}
  <2>1. o \in B /\ B \in SUBSET rows
    BY <1>1, <1>3
  <2>2. ASSUME NEW x \in B, parent[x] # None PROVE parent[x] \in B
    <3>1. parent[x] \in A /\ level[x] = level[parent[x]] + 1
      BY <1>1, <1>2, <2>2
    <3>2. level[x] \in Nat /\ level[parent[x]] \in Nat /\ level[o] \in Nat /\ level[x] <= level[o]
      BY <1>1, <1>3, <3>1
    <3> QED  BY <3>1, <3>2
  <2>3. UpClosed(B)
    BY <2>1, <2>2 DEF UpClosed
  <2>4. A \subseteq B
    BY <1>1, <2>1, <2>3
  <2> QED  BY <2>4
<1> DEFINE N == {n \in 1..CodeLevels : \E x, y \in A : level[x] = n /\ level[y] = n /\ x # y}
<1>6. N = {}
  <2> SUFFICES ASSUME N # {} PROVE FALSE
    OBVIOUS
  <2>1. PICK n \in N : \A m \in N : m <= n
    BY <1>3, GreatestNumber
  <2>2. PICK x \in A, y \in A : level[x] = n /\ level[y] = n /\ x # y
    BY <2>1
  <2>3. x # o /\ y # o
    <3>1. ASSUME NEW u \in A, u # o, level[u] = level[o] PROVE FALSE
      <4>1. PICK v \in A : level[v] = level[u] + 1
        BY <1>4, <3>1
      <4> QED  BY <1>1, <1>3, <1>5, <3>1, <4>1
    <3> QED  BY <2>2, <3>1
  <2>4. PICK v \in A : parent[v] = x /\ level[v] = n + 1
    BY <1>4, <2>2, <2>3
  <2>5. PICK w \in A : parent[w] = y /\ level[w] = n + 1
    BY <1>4, <2>2, <2>3
  <2>6. n + 1 \in N
    BY <1>3, <2>2, <2>4, <2>5
  <2> QED  BY <2>1, <2>6
<1>7. \A x, y \in A : level[x] = level[y] => x = y
  BY <1>3, <1>6
<1> QED
  BY <1>7 DEF A

LEMMA DepthOfLevels ==
  ASSUME IInv, Leveled, NEW o \in rows
  PROVE  GetAncestorDepth(o) <= MaxDepth
<1>1. PICK level \in [rows -> 1..CodeLevels] :
        \A x \in rows : level[x] = IF parent[x] = None THEN 1 ELSE level[parent[x]] + 1
  BY DEF Leveled, LeveledBy
<1>2. None \notin rows /\ ParentsExist
  BY NoneAssumption DEF IInv, StoresOK, NothingDangles
<1> DEFINE A == Ancestors(o)
           f == [x \in A |-> level[x]]
<1>3. A \subseteq rows
  BY DEF Ancestors
<1>4. \A x, y \in A : level[x] = level[y] => x = y
  BY <1>1, <1>2, AncestorsLevels
<1> HIDE DEF A
<1>5. f \in Injection(A, 1..CodeLevels)
  BY <1>1, <1>3, <1>4 DEF Injection, IsInjective
<1>6. {CodeLevels, MaxDepth} \subseteq Nat \ {0}
  BY BoundAssumption
<1>7. IsFiniteSet(1..CodeLevels) /\ Cardinality(1..CodeLevels) = CodeLevels
  BY <1>6, FS_Interval
<1>8. IsFiniteSet(A) /\ Cardinality(A) <= CodeLevels
  BY <1>5, <1>7, FS_Injection
<1>9. Cardinality(A) \in Nat
  BY <1>8, FS_CardinalityType
<1> QED
  BY <1>6, <1>8, <1>9, WidthAssumption DEF GetAncestorDepth, A

\* What an update and a creation do not count, the width of the column does:
\* no organization is deeper than the levels a move keeps to, under the same
\* conditions as its code follows the tree.
THEOREM DepthStaysBounded == Spec => []DepthBounded
<1>1. IInv /\ CodeInv => DepthBounded
  BY DepthOfLevels DEF CodeInv, DepthBounded
<1> QED  BY <1>1, AlwaysIInv, AlwaysCodeInv, PTL

=============================================================================
