----------------------------- MODULE CloudProofs -----------------------------
(***************************************************************************)
(* The roles of the clouds and the credentials that are given for them.    *)
(***************************************************************************)
EXTENDS CspRole, TempCredential, CredentialIssue, WellFoundedInduction, TLAPS

------------------------------------------------------------------------------
(***************************************************************************)
(* Credentials of the clouds: one is active, and each was given for a CSP  *)
(* role that was the user's, for any number of requests, rows and roles.   *)
(***************************************************************************)
(***************************************************************************)
(* For any number of requests and rows.  What makes OneActive inductive is *)
(* what a request between its two statements relies on: all rows active    *)
(* then were inserted since it switched the others off, while it stood     *)
(* there, and so are rivals.                                               *)
(***************************************************************************)
AloneBeforeInsert == \A c \in CredCalls : CredAt(c, "insert") => active \subseteq rivals
CredInv == CredTypeOK /\ AloneBeforeInsert /\ OneActive

LEMMA CredInitially == CredInit => CredInv
  BY CredAssumption DEF CredInit, CredInv, CredTypeOK, AloneBeforeInsert, OneActive, CredAt

LEMMA CredTypeStep == CredInv /\ [CredNext]_credVars => CredTypeOK'
<1> SUFFICES ASSUME CredInv, [CredNext]_credVars PROVE CredTypeOK'
  OBVIOUS
<1> USE CredAssumption DEF CredInv, CredTypeOK, CredAt, CredGoes, CredRows
<1>1. ASSUME NEW c \in CredCalls, GetOrCreateValidCredential(c) \/ CreateNewAwsCredential(c)
      PROVE CredTypeOK'
  BY <1>1 DEF GetOrCreateValidCredential, CreateNewAwsCredential
<1>2. ASSUME NEW c \in CredCalls, SwitchOff(c) \/ CredCallStops(c)
      PROVE CredTypeOK'
  BY <1>2 DEF SwitchOff, CredCallStops
<1>3. ASSUME NEW c \in CredCalls, CreateCredential(c)
      PROVE CredTypeOK'
  BY <1>3 DEF CreateCredential
<1>4. ASSUME NEW i \in CredRows, Expire(i)
      PROVE CredTypeOK'
  BY <1>4 DEF Expire
<1>5. CASE UNCHANGED credVars
  BY <1>5 DEF credVars
<1> QED
  BY <1>1, <1>2, <1>3, <1>4, <1>5 DEF CredNext

LEMMA CredStep == CredInv /\ [CredNext]_credVars => AloneBeforeInsert' /\ OneActive'
<1> SUFFICES ASSUME CredInv, [CredNext]_credVars PROVE AloneBeforeInsert' /\ OneActive'
  OBVIOUS
<1> USE DEF CredInv, CredAt, CredGoes
<1>1. ASSUME NEW c \in CredCalls,
             GetOrCreateValidCredential(c) \/ CreateNewAwsCredential(c) \/ CredCallStops(c)
      PROVE AloneBeforeInsert' /\ OneActive'
  <2>1. active' = active /\ rivals' = rivals
    BY <1>1 DEF GetOrCreateValidCredential, CreateNewAwsCredential, CredCallStops
  <2>2. \A d \in CredCalls : credStep'[d] = "insert" => credStep[d] = "insert"
    BY <1>1 DEF GetOrCreateValidCredential, CreateNewAwsCredential, CredCallStops, CredTypeOK
  <2> QED
    BY <2>1, <2>2 DEF AloneBeforeInsert, OneActive
<1>2. ASSUME NEW c \in CredCalls, SwitchOff(c)
      PROVE AloneBeforeInsert' /\ OneActive'
  BY <1>2 DEF SwitchOff, AloneBeforeInsert, OneActive
<1>3. ASSUME NEW c \in CredCalls, CreateCredential(c)
      PROVE AloneBeforeInsert' /\ OneActive'
  <2>1. active \subseteq rivals /\ active' = active \cup {credNext} /\ rivals \subseteq rivals'
    BY <1>3 DEF CreateCredential, AloneBeforeInsert
  <2>2. ASSUME NEW d \in CredCalls, credStep'[d] = "insert"
        PROVE credNext \in rivals'
    <3>1. d # c /\ credStep[d] = "insert"
      BY <1>3, <2>2 DEF CreateCredential, CredTypeOK
    <3> QED
      BY <1>3, <3>1 DEF CreateCredential
  <2> QED
    BY <2>1, <2>2 DEF AloneBeforeInsert, OneActive
<1>4. ASSUME NEW i \in CredRows, Expire(i)
      PROVE AloneBeforeInsert' /\ OneActive'
  BY <1>4 DEF Expire, AloneBeforeInsert, OneActive
<1>5. CASE UNCHANGED credVars
  BY <1>5 DEF credVars, AloneBeforeInsert, OneActive
<1> QED
  BY <1>1, <1>2, <1>3, <1>4, <1>5 DEF CredNext

\* However many requests look for a credential at once, and wherever they fail:
\* two rows of mcmp_temp_credentials are active only when one was inserted while
\* another request stood between CreateCredential's two statements.
THEOREM OneCredentialActive == CredSpec => []OneActive
<1>1. CredInv /\ [CredNext]_credVars => CredInv'
  BY CredTypeStep, CredStep DEF CredInv
<1>2. CredInv => OneActive
  BY DEF CredInv
<1> QED
  BY CredInitially, <1>1, <1>2, PTL DEF CredSpec

------------------------------------------------------------------------------
(***************************************************************************)
(* A credential is given for a CSP role that was the user's, whatever the  *)
(* tables do between the reads of the request.                             *)
(***************************************************************************)
\* While a request looks for its role or mapping it knows all that is the user's now.
KnowsEntitled ==
    \A c \in IssueCalls :
        issue[c].pc \in {"role", "mapping"} => Entitled(held, mapped) \subseteq issue[c].entitled
\* Whatever is mapped to the role a request has read is accounted for.
RoleAccounted ==
    \A c \in IssueCalls :
        IssueAt(c, "mapping") =>
            \A m \in mapped : m[1] = issue[c].role => m[2] \in issue[c].entitled \cup issue[c].late
\* The CSP role that was chosen, till the answer.
ChosenAccounted ==
    \A c \in IssueCalls :
        issue[c].pc \in {"load", "keycloak", "cloud", "issued"} =>
            /\ IssueCloud[issue[c].csp] = issue[c].cloud
            /\ issue[c].csp \in issue[c].entitled \cup issue[c].late
Records == issue \in [IssueCalls -> IssueType]
IssueInv == Records /\ KnowsEntitled /\ RoleAccounted /\ ChosenAccounted

TablesMove ==
    \/ \E r \in WsRoles : AssignWorkspaceRole(r) \/ RemoveWorkspaceRole(r)
    \/ \E r \in WsRoles, k \in IssueCsp, method \in Methods : MapCspRole(r, k, method)
    \/ \E m \in mapped : UnmapCspRole(m)

LEMMA IssueInitially == IssueInit => IssueTypeOK /\ IssueInv
  BY DEF IssueInit, IssueTypeOK, IssueInv, Records, KnowsEntitled, RoleAccounted, ChosenAccounted,
         IssueAt, NoIssue, IssueType

(***************************************************************************)
(* The tables keep their types: a mapping is a triple, which says whose    *)
(* CSP role it makes.                                                      *)
(***************************************************************************)
LEMMA MovesKeepTypes ==
  ASSUME IssueTypeOK, TablesMove
  PROVE  /\ Watch(held', mapped') /\ held' \subseteq WsRoles /\ cspConfig' = cspConfig
         /\ mapped' \subseteq WsRoles \X IssueCsp \X Methods
         /\ mapped' \subseteq mapped \/ held' = held
<1> USE DEF IssueTypeOK
<1>1. ASSUME NEW r \in WsRoles, AssignWorkspaceRole(r) \/ RemoveWorkspaceRole(r)
      PROVE  mapped' = mapped /\ held' \subseteq WsRoles /\ Watch(held', mapped')
               /\ cspConfig' = cspConfig
  <2>1. /\ mapped' = mapped /\ cspConfig' = cspConfig /\ Watch(held', mapped)
        /\ held' = held \cup {r} \/ held' = held \ {r}
    BY <1>1 DEF AssignWorkspaceRole, RemoveWorkspaceRole
  <2>2. Watch(held', mapped')
    BY <2>1 DEF Watch, Entitled
  <2> QED
    BY <2>1, <2>2
<1>2. ASSUME NEW r \in WsRoles, NEW k \in IssueCsp, NEW method \in Methods,
             MapCspRole(r, k, method)
      PROVE  mapped' \subseteq WsRoles \X IssueCsp \X Methods /\ held' = held
               /\ Watch(held', mapped') /\ cspConfig' = cspConfig
  <2>1. /\ mapped' = mapped \cup {<<r, k, method>>} /\ held' = held /\ cspConfig' = cspConfig
        /\ Watch(held, mapped')
    BY <1>2 DEF MapCspRole
  <2>2. Watch(held', mapped')
    BY <2>1 DEF Watch, Entitled
  <2> QED
    BY <2>1, <2>2
<1>3. ASSUME NEW m \in mapped, UnmapCspRole(m)
      PROVE  mapped' \subseteq mapped /\ held' = held /\ Watch(held', mapped')
               /\ cspConfig' = cspConfig
  <2>1. /\ mapped' = mapped \ {m} /\ held' = held /\ cspConfig' = cspConfig
        /\ Watch(held, mapped')
    BY <1>3 DEF UnmapCspRole
  <2>2. Watch(held', mapped')
    BY <2>1 DEF Watch, Entitled
  <2> QED
    BY <2>1, <2>2
<1> QED
  BY <1>1, <1>2, <1>3 DEF TablesMove

LEMMA StepsAre ==
  ASSUME [IssueNext]_issueVars
  PROVE  \/ \E c \in IssueCalls : IssueStep(c)
         \/ TablesMove
         \/ \E k \in IssueCsp, config \in Config \cup {NoRow} : Configure(k, config)
         \/ UNCHANGED issueVars
  BY DEF IssueNext, TablesMove

LEMMA RequestsLeaveTables ==
  ASSUME NEW c \in IssueCalls, IssueStep(c)
  PROVE  held' = held /\ mapped' = mapped /\ cspConfig' = cspConfig
  BY DEF issueTables, IssueStep, GetTemporaryCredentials, FindUserRoleInWorkspace,
         FindCspRoleMappingsByRoleIDAndCspType, LoadCspRole, GetToken, AssumeRole, IssueEnds

LEMMA IssueTablesStep ==
  ASSUME IssueTypeOK, [IssueNext]_issueVars
  PROVE  /\ held' \subseteq WsRoles /\ mapped' \subseteq WsRoles \X IssueCsp \X Methods
         /\ cspConfig' \in [IssueCsp -> Config \cup {NoRow}]
<1> USE DEF IssueTypeOK
<1>1. ASSUME NEW c \in IssueCalls, IssueStep(c)
      PROVE  held' = held /\ mapped' = mapped /\ cspConfig' = cspConfig
  BY <1>1, RequestsLeaveTables
<1>2. ASSUME NEW k \in IssueCsp, NEW config \in Config \cup {NoRow}, Configure(k, config)
      PROVE  held' = held /\ mapped' = mapped
               /\ cspConfig' \in [IssueCsp -> Config \cup {NoRow}]
  BY <1>2 DEF Configure
<1>3. CASE TablesMove
  BY <1>3, MovesKeepTypes
<1>4. CASE UNCHANGED issueVars
  BY <1>4 DEF issueVars
<1> QED
  BY <1>1, <1>2, <1>3, <1>4, StepsAre

LEMMA EntitledAreCsp ==
  ASSUME NEW roles, NEW maps \in SUBSET (WsRoles \X IssueCsp \X Methods)
  PROVE  Entitled(roles, maps) \subseteq IssueCsp
  BY DEF Entitled

\* A step of one request leaves the others and the tables alone.
LEMMA RequestsKeepInv ==
  ASSUME IssueTypeOK, IssueInv, NEW c \in IssueCalls, IssueStep(c)
  PROVE  IssueInv'
<1> USE DEF IssueTypeOK, IssueInv, Records, IssueAt
<1>0. ASSUME NEW new, IssueGoes(c, new), UNCHANGED issueTables, new \in IssueType,
             new.pc \in {"role", "mapping"} => Entitled(held, mapped) \subseteq new.entitled,
             new.pc = "mapping" =>
                 \A m \in mapped : m[1] = new.role => m[2] \in new.entitled \cup new.late,
             new.pc \in {"load", "keycloak", "cloud", "issued"} =>
                 IssueCloud[new.csp] = new.cloud /\ new.csp \in new.entitled \cup new.late
      PROVE  IssueInv'
  <2>1. issue' = [issue EXCEPT ![c] = new] /\ held' = held /\ mapped' = mapped
    BY <1>0 DEF IssueGoes, issueTables
  <2>2. Records'
    BY <2>1, <1>0
  <2>3. \A d \in IssueCalls : issue'[d] = IF d = c THEN new ELSE issue[d]
    BY <2>1
  <2>4. KnowsEntitled'
    BY <2>1, <2>3, <1>0 DEF KnowsEntitled, Entitled
  <2>5. RoleAccounted'
    BY <2>1, <2>3, <1>0 DEF RoleAccounted
  <2>6. ChosenAccounted'
    BY <2>3, <1>0 DEF ChosenAccounted
  <2> QED
    BY <2>2, <2>4, <2>5, <2>6
<1>t. issue[c] \in IssueType
  OBVIOUS
<1>1. ASSUME NEW cloud \in Clouds, NEW asked \in Methods \cup {"none"},
             GetTemporaryCredentials(c, cloud, asked)
      PROVE  IssueInv'
  <2> DEFINE new == [NoIssue EXCEPT !.pc = "role", !.cloud = cloud, !.asked = asked,
                                    !.entitled = Entitled(held, mapped)]
  <2>1. new \in IssueType /\ new.pc = "role" /\ new.entitled = Entitled(held, mapped)
    BY EntitledAreCsp DEF NoIssue, IssueType
  <2>2. IssueGoes(c, new) /\ UNCHANGED issueTables
    BY <1>1 DEF GetTemporaryCredentials
  <2> HIDE DEF new
  <2> QED
    BY <1>0, <2>1, <2>2
<1>2. CASE FindUserRoleInWorkspace(c)
  <2>1. PICK r \in held : IssueGoes(c, [issue[c] EXCEPT !.pc = "mapping", !.role = r])
    BY <1>2 DEF FindUserRoleInWorkspace
  <2> DEFINE new == [issue[c] EXCEPT !.pc = "mapping", !.role = r]
  <2>2. new \in IssueType /\ new.pc = "mapping" /\ new.role = r
          /\ new.entitled = issue[c].entitled
    BY <1>t DEF IssueType
  <2>3. Entitled(held, mapped) \subseteq issue[c].entitled
    BY <1>2 DEF FindUserRoleInWorkspace, KnowsEntitled
  <2>4. \A m \in mapped : m[1] = r => m[2] \in Entitled(held, mapped)
    BY DEF Entitled
  <2>5. UNCHANGED issueTables
    BY <1>2 DEF FindUserRoleInWorkspace
  <2>6. IssueGoes(c, new)
    BY <2>1
  <2> HIDE DEF new
  <2> QED
    BY <1>0, <2>2, <2>3, <2>4, <2>5, <2>6
<1>3. CASE FindCspRoleMappingsByRoleIDAndCspType(c)
  <2>1. PICK m \in mapped : /\ m[1] = issue[c].role /\ Suits(c, m)
                            /\ IssueGoes(c, Chosen(c, m[2]))
    BY <1>3 DEF FindCspRoleMappingsByRoleIDAndCspType
  <2>2. m[2] \in issue[c].entitled \cup issue[c].late
    BY <1>3, <2>1 DEF FindCspRoleMappingsByRoleIDAndCspType, RoleAccounted
  <2>3. m[2] \in IssueCsp
    OBVIOUS
  <2> DEFINE new == Chosen(c, m[2])
  <2>4. new \in IssueType /\ new.pc = "load" /\ new.csp = m[2] /\ new.cloud = issue[c].cloud
          /\ new.entitled = issue[c].entitled \cap {m[2]} /\ new.late = issue[c].late \cap {m[2]}
    BY <1>t, <2>3 DEF Chosen, IssueType
  <2>5. IssueCloud[m[2]] = issue[c].cloud
    BY <2>1 DEF Suits
  <2>6. UNCHANGED issueTables
    BY <1>3 DEF FindCspRoleMappingsByRoleIDAndCspType
  <2>7. IssueGoes(c, new)
    BY <2>1
  <2> HIDE DEF new
  <2> QED
    BY <1>0, <2>2, <2>4, <2>5, <2>6, <2>7
<1>4. CASE LoadCspRole(c)
  <2> DEFINE method == Resolved(issue[c].cloud, cspConfig[issue[c].csp].method)
             new == [issue[c] EXCEPT !.method = method,
                                     !.pc = IF method = "key" THEN "issued" ELSE "keycloak"]
  <2>1. IssueAt(c, "load") /\ <<issue[c].cloud, method>> \in Supported
          /\ IssueGoes(c, new) /\ UNCHANGED issueTables
    BY <1>4 DEF LoadCspRole
  <2>2. method \in Methods
    BY <2>1 DEF Supported, Methods
  <2> HIDE DEF method
  <2>3. new \in IssueType /\ new.pc \in {"issued", "keycloak"} /\ new.csp = issue[c].csp
          /\ new.cloud = issue[c].cloud /\ new.entitled = issue[c].entitled
          /\ new.late = issue[c].late
    BY <1>t, <2>2 DEF IssueType
  <2> HIDE DEF new
  <2> QED
    BY <1>0, <2>1, <2>3 DEF ChosenAccounted
<1>5. CASE GetToken(c) \/ AssumeRole(c)
  <2>1. PICK pc \in {"cloud", "issued"} : IssueGoes(c, [issue[c] EXCEPT !.pc = pc])
    BY <1>5 DEF GetToken, AssumeRole
  <2> DEFINE new == [issue[c] EXCEPT !.pc = pc]
  <2>2. new \in IssueType /\ new.pc = pc /\ new.csp = issue[c].csp
          /\ new.cloud = issue[c].cloud /\ new.entitled = issue[c].entitled
          /\ new.late = issue[c].late
    BY <1>t, <2>1 DEF IssueType
  <2>3. issue[c].pc \in {"keycloak", "cloud"} /\ UNCHANGED issueTables
    BY <1>5 DEF GetToken, AssumeRole
  <2>4. IssueGoes(c, new)
    BY <2>1
  <2> HIDE DEF new
  <2> QED
    BY <1>0, <2>1, <2>2, <2>3, <2>4 DEF ChosenAccounted
<1>6. CASE IssueEnds(c)
  <2>1. NoIssue \in IssueType /\ NoIssue.pc = "idle"
    BY DEF NoIssue, IssueType
  <2> QED
    BY <1>0, <1>6, <2>1 DEF IssueEnds
<1> QED
  BY <1>1, <1>2, <1>3, <1>4, <1>5, <1>6 DEF IssueStep

\* While roles and mappings change, Watch notes what becomes the user's.
LEMMA TablesKeepInv ==
  ASSUME IssueTypeOK, IssueInv, TablesMove
  PROVE  IssueInv'
<1> USE DEF IssueTypeOK, IssueInv, Records
<1>1. Watch(held', mapped') /\ held' \subseteq WsRoles
        /\ mapped' \in SUBSET (WsRoles \X IssueCsp \X Methods)
        /\ (mapped' \subseteq mapped \/ held' = held)
  BY MovesKeepTypes
<1> DEFINE Late(c) == {m[2] : m \in {n \in mapped' \ mapped :
                                        n[1] = issue[c].role /\ n[1] \notin held'}}
           Watched(c) == [issue[c] EXCEPT !.entitled = @ \cup Entitled(held', mapped'),
                                          !.late = @ \cup Late(c)]
<1>2. \A c \in IssueCalls :
        issue'[c] = IF issue[c].pc \in {"role", "mapping"} THEN Watched(c) ELSE issue[c]
  BY <1>1 DEF Watch
<1>3. \A c \in IssueCalls : issue[c] \in IssueType
  OBVIOUS
<1>4. Entitled(held', mapped') \subseteq IssueCsp
  BY <1>1, EntitledAreCsp
<1>5. \A c \in IssueCalls : Late(c) \subseteq IssueCsp
  BY <1>1
<1>6. \A c \in IssueCalls :
        /\ Watched(c) \in IssueType
        /\ Watched(c).pc = issue[c].pc /\ Watched(c).role = issue[c].role
        /\ Watched(c).entitled = issue[c].entitled \cup Entitled(held', mapped')
        /\ Watched(c).late = issue[c].late \cup Late(c)
  <2> TAKE c \in IssueCalls
  <2> HIDE DEF Late
  <2> QED
    BY <1>3, <1>4, <1>5 DEF IssueType
<1>7. \A c \in IssueCalls :
        issue[c].pc = "mapping" =>
          \A m \in mapped' : m[1] = issue[c].role =>
            m[2] \in issue[c].entitled \cup issue[c].late \cup Entitled(held', mapped') \cup Late(c)
  <2> SUFFICES ASSUME NEW c \in IssueCalls, issue[c].pc = "mapping", NEW m \in mapped',
                      m[1] = issue[c].role
               PROVE  m[2] \in issue[c].entitled \cup issue[c].late
                                 \cup Entitled(held', mapped') \cup Late(c)
    OBVIOUS
  <2>1. CASE m \in mapped
    BY <2>1 DEF RoleAccounted, IssueAt
  <2>2. CASE m \notin mapped /\ m[1] \in held'
    BY <2>2 DEF Entitled
  <2>3. CASE m \notin mapped /\ m[1] \notin held'
    BY <2>3
  <2> QED
    BY <2>1, <2>2, <2>3
<1> HIDE DEF Watched, Late
<1>8. Records'
  <2>1. DOMAIN issue' = IssueCalls /\ issue' = [c \in IssueCalls |-> issue'[c]]
    BY <1>1 DEF Watch
  <2> QED
    BY <2>1, <1>2, <1>3, <1>6
<1>9. KnowsEntitled'
  BY <1>2, <1>6 DEF KnowsEntitled
<1>10. RoleAccounted'
  BY <1>2, <1>6, <1>7 DEF RoleAccounted, IssueAt
<1>11. ChosenAccounted'
  BY <1>2, <1>6 DEF ChosenAccounted
<1> QED
  BY <1>8, <1>9, <1>10, <1>11

LEMMA IssueInvStep == IssueTypeOK /\ IssueInv /\ [IssueNext]_issueVars => IssueTypeOK' /\ IssueInv'
<1> SUFFICES ASSUME IssueTypeOK, IssueInv, [IssueNext]_issueVars PROVE IssueTypeOK' /\ IssueInv'
  OBVIOUS
<1>1. ASSUME NEW c \in IssueCalls, IssueStep(c) PROVE IssueInv'
  BY <1>1, RequestsKeepInv
<1>2. ASSUME TablesMove PROVE IssueInv'
  BY <1>2, TablesKeepInv
<1>3. ASSUME UNCHANGED <<held, mapped, issue>> PROVE IssueInv'
  BY <1>3 DEF IssueInv, Records, KnowsEntitled, RoleAccounted, ChosenAccounted, IssueAt, Entitled
<1>4. ASSUME NEW k \in IssueCsp, NEW config \in Config \cup {NoRow}, Configure(k, config)
      PROVE  UNCHANGED <<held, mapped, issue>>
  BY <1>4 DEF Configure
<1>5. IssueInv'
  BY <1>1, <1>2, <1>3, <1>4, StepsAre DEF issueVars
<1>6. /\ held' \subseteq WsRoles /\ mapped' \subseteq WsRoles \X IssueCsp \X Methods
      /\ cspConfig' \in [IssueCsp -> Config \cup {NoRow}]
  BY IssueTablesStep
<1> QED
  BY <1>5, <1>6 DEF IssueTypeOK, IssueInv, Records

(***************************************************************************)
(* For any number of requests, roles and CSP roles: what is issued was     *)
(* the user's at some moment of his request, or was mapped to a role he    *)
(* had just lost.                                                          *)
(***************************************************************************)
THEOREM IssuedOnlyToEntitled == IssueSpec => []IssuedWasEntitled
<1>1. IssueInv => IssuedWasEntitled
  BY DEF IssueInv, ChosenAccounted, IssuedWasEntitled, IssueAt
<1> QED
  BY <1>1, IssueInitially, IssueInvStep, PTL DEF IssueSpec

------------------------------------------------------------------------------
(***************************************************************************)
(* A row at "creating" is being made, whatever requests overlap and        *)
(* wherever they stop.  The property lacks what a request brings to the    *)
(* statement that writes "creating": that its role is one of AWS, so that  *)
(* it goes on from there and waits for the cloud.                          *)
(***************************************************************************)
Watching == {"make", "poll", "confirm", "giveUp"}
\* The steps of a request after it has begun, and those with a row or with AWS only.
WithRow == Watching \cup {"sync", "save", "drop", "erase"}
WithAws == Watching \cup {"find", "look", "sync", "drop"}
Carries(call) ==
    /\ call.pc # "idle" => call.key \in CspKeys
    /\ call.pc \in WithRow => call.row \in CspRows
    /\ call.pc \in WithAws => call.key \in OnAws
    /\ call.pc = "record" /\ call.status = "creating" => call.key \in OnAws
CallsCarry == \A c \in CspCalls : Carries(cspCall[c])
Tables ==
    /\ cspNextId \in 1..CspMax + 1
    /\ cspKey \in [CspRows -> CspKeys \cup {"none"}]
    /\ cspStatus \in [CspRows -> Statuses]
    /\ inCloud \subseteq OnAws
    /\ cutRows \subseteq CspRows /\ lostKeys \subseteq CspKeys /\ mixedKeys \subseteq CspKeys
CspInv == CspTypeOK /\ CallsCarry /\ CreatingIsWatched

LEMMA LeastOf ==
  ASSUME NEW N \in SUBSET Nat, N # {}
  PROVE  \E n \in N : \A m \in N : n <= m
<1> DEFINE R == OpToRel(<, Nat)
<1>1. IsWellFoundedOn(R, Nat)
  BY NatLessThanWellFounded
<1> HIDE DEF R
<1>2. PICK n \in N : \A m \in N : ~(<<m, n>> \in R)
  BY <1>1, WFMin
<1>3. ASSUME NEW m \in N PROVE n <= m
  <2>1. m < n => <<m, n>> \in R
    BY DEF R, OpToRel
  <2> QED
    BY <1>2, <2>1
<1> QED
  BY <1>3

LEMMA FoundIsRow ==
  ASSUME NEW k
  PROVE  GetCspRoleByName(k) \in CspRows \cup {0}
<1>1. RowsOf(k) \in SUBSET Nat /\ RowsOf(k) \subseteq CspRows
  BY CspAssumption DEF RowsOf, CspRows
<1>2. CASE RowsOf(k) = {}
  BY <1>2 DEF GetCspRoleByName
<1>3. CASE RowsOf(k) # {}
  <2>1. \E i \in RowsOf(k) : \A j \in RowsOf(k) : i <= j
    BY <1>1, <1>3, LeastOf
  <2> QED
    BY <2>1, <1>1, <1>3 DEF GetCspRoleByName
<1> QED
  BY <1>2, <1>3

LEMMA CspInitially == CspInit => CspInv
  BY CspAssumption DEF CspInit, CspInv, CspTypeOK, CallsCarry, Carries, CreatingIsWatched, NoCspCall,
     CspCallType, CspRows, Statuses, WithRow, WithAws, Watching

NoCallIsSound == NoCspCall \in CspCallType /\ Carries(NoCspCall)

LEMMA NoCall == NoCallIsSound
  BY DEF NoCallIsSound, NoCspCall, CspCallType, Carries, Statuses, WithRow, WithAws, Watching

(***************************************************************************)
(* What is left to show of a step of request c, when new is what it        *)
(* becomes: the tables, new itself, and that no row is left behind.  A row *)
(* is left behind when it is given "creating" and new does not watch it,   *)
(* or when c watched it, new does not, and it stays as it was.             *)
(***************************************************************************)
LEMMA OneCallMoves ==
  ASSUME CspInv, NEW c \in CspCalls, NEW new, Goes(c, new), Tables',
         new \in CspCallType, Carries(new), cutRows \subseteq cutRows',
         \A i \in CspRows \ cutRows' :
             cspKey'[i] # "none" /\ cspStatus'[i] = "creating" =>
                 \/ new.row = i /\ new.pc \in Watching
                 \/ /\ cspKey[i] # "none" /\ cspStatus[i] = "creating"
                    /\ ~(cspCall[c].row = i /\ cspCall[c].pc \in Watching)
  PROVE  CspInv'
<1> USE DEF CspInv, CspTypeOK
<1>1. cspCall' = [cspCall EXCEPT ![c] = new]
  BY DEF Goes
<1>2. cspCall' \in [CspCalls -> CspCallType]
  BY <1>1
<1>3. \A d \in CspCalls : cspCall'[d] = IF d = c THEN new ELSE cspCall[d]
  BY <1>1
<1>4. CallsCarry'
  BY <1>3 DEF CallsCarry, Carries
<1>5. CspTypeOK'
  BY <1>2 DEF Tables
<1>6. CreatingIsWatched'
  <2> SUFFICES ASSUME NEW i \in CspRows \ cutRows', cspKey'[i] # "none", cspStatus'[i] = "creating"
               PROVE  \E d \in CspCalls : cspCall'[d].row = i /\ cspCall'[d].pc \in Watching
    BY DEF CreatingIsWatched, Watching
  <2>1. CASE new.row = i /\ new.pc \in Watching
    BY <2>1, <1>3
  <2>2. CASE /\ cspKey[i] # "none" /\ cspStatus[i] = "creating"
             /\ ~(cspCall[c].row = i /\ cspCall[c].pc \in Watching)
    <3>1. PICK d \in CspCalls : cspCall[d].row = i /\ cspCall[d].pc \in Watching
      BY <2>2 DEF CreatingIsWatched, Watching
    <3> QED
      BY <3>1, <2>2, <1>3
  <2> QED
    BY <2>1, <2>2
<1> QED
  BY <1>4, <1>5, <1>6

LEMMA BeginsKeepsInv ==
  ASSUME CspInv, NEW c \in CspCalls, NEW op \in {"create", "update", "delete"},
         NEW pc \in {"find", "record", "save", "drop", "erase"}, NEW k \in CspKeys,
         NEW i \in CspRows \cup {0}, Begins(c, op, pc, k, i),
         pc \in {"save", "drop", "erase"} => i # 0, pc \in {"find", "drop"} => k \in OnAws,
         pc = "record" => i = 0
  PROVE  CspInv'
<1> DEFINE status == IF i = 0 THEN "created" ELSE cspStatus[i]
           new == [op |-> op, pc |-> pc, key |-> k, row |-> i, status |-> status]
<1>1. CspAt(c, "idle") /\ Goes(c, new) /\ UNCHANGED <<cspTable, inCloud, cutRows, lostKeys>>
        /\ mixedKeys' \subseteq mixedKeys \cup {k}
  BY DEF Begins
<1>2. status \in Statuses
  BY DEF CspInv, CspTypeOK, Statuses
<1>3. new \in CspCallType /\ Carries(new)
  BY <1>2, CspAssumption DEF CspCallType, Carries, WithRow, WithAws, Watching, CspRows
<1> HIDE DEF new
<1>4. Tables'
  BY <1>1 DEF Tables, CspInv, CspTypeOK, cspTable
<1> QED
  BY <1>1, <1>3, <1>4, OneCallMoves DEF cspTable, CspAt, Watching

\* Asking: the look-ups, and the calls that make the role and watch it.
LEMMA AskingKeepsInv ==
  ASSUME CspInv, NEW c \in CspCalls,
         FindFailed(c) \/ GetRole(c) \/ CreateIamRole(c) \/ Poll(c) \/ DeleteAwsIamRole(c)
  PROVE  CspInv'
<1> USE DEF CspInv, CspTypeOK
<1>t. cspCall[c] \in CspCallType /\ Carries(cspCall[c])
  BY DEF CallsCarry
<1>1. CASE FindFailed(c)
  <2> DEFINE found == GetCspRoleByName(cspCall[c].key)
             row == IF HasFailed(found) THEN found ELSE 0
             new == [cspCall[c] EXCEPT !.pc = "look", !.row = row]
  <2>1. CspAt(c, "find") /\ Goes(c, new) /\ UNCHANGED <<cspTable, inCloud, cspHistory>>
    BY <1>1 DEF FindFailed
  <2>2. row \in CspRows \cup {0}
    BY FoundIsRow
  <2> HIDE DEF row
  <2>3. new \in CspCallType /\ Carries(new)
    BY <1>t, <2>1, <2>2 DEF CspCallType, Carries, CspAt, WithRow, WithAws, Watching
  <2> HIDE DEF new
  <2>4. Tables'
    BY <2>1 DEF Tables, cspTable, cspHistory
  <2> QED
    BY <2>1, <2>3, <2>4, OneCallMoves DEF cspTable, cspHistory, CspAt, Watching
<1>2. CASE GetRole(c)
  <2>1. PICK status \in {"creating", "created"} :
          Goes(c, [cspCall[c] EXCEPT !.pc = "record", !.status = status])
    BY <1>2 DEF GetRole
  <2> DEFINE new == [cspCall[c] EXCEPT !.pc = "record", !.status = status]
  <2>2. CspAt(c, "look") /\ Goes(c, new) /\ UNCHANGED <<cspTable, inCloud, cspHistory>>
    BY <1>2, <2>1 DEF GetRole
  <2>3. new \in CspCallType /\ Carries(new)
    BY <1>t, <2>2 DEF CspCallType, Carries, CspAt, WithRow, WithAws, Watching, Statuses
  <2> HIDE DEF new
  <2>4. Tables'
    BY <2>2 DEF Tables, cspTable, cspHistory
  <2> QED
    BY <2>2, <2>3, <2>4, OneCallMoves DEF cspTable, cspHistory, CspAt, Watching
<1>3. CASE CreateIamRole(c) \/ Poll(c)
  <2>1. PICK pc \in {"poll", "confirm", "giveUp"} : Goes(c, [cspCall[c] EXCEPT !.pc = pc])
    BY <1>3 DEF CreateIamRole, Poll
  <2> DEFINE new == [cspCall[c] EXCEPT !.pc = pc]
  <2>2. /\ cspCall[c].pc \in Watching /\ Goes(c, new)
        /\ UNCHANGED <<cspTable, cutRows, mixedKeys>>
    BY <1>3, <2>1 DEF CreateIamRole, Poll, CspAt, Watching, cspHistory
  <2>3. new \in CspCallType /\ Carries(new) /\ new.row = cspCall[c].row /\ new.pc \in Watching
    BY <1>t, <2>2 DEF CspCallType, Carries, WithRow, WithAws, Watching
  <2> HIDE DEF new
  <2>4. inCloud' \subseteq inCloud \cup {cspCall[c].key} /\ lostKeys' \subseteq lostKeys
    BY <1>3 DEF CreateIamRole, Poll, cspHistory
  <2>5. cspCall[c].key \in OnAws
    BY <1>t, <2>2 DEF Carries, WithAws
  <2>6. Tables'
    BY <2>2, <2>4, <2>5 DEF Tables, cspTable
  <2> QED
    BY <2>2, <2>3, <2>6, OneCallMoves DEF cspTable
<1>4. CASE DeleteAwsIamRole(c)
  <2> DEFINE new == [cspCall[c] EXCEPT !.pc = "erase"]
  <2>1. CspAt(c, "drop") /\ Goes(c, new) /\ UNCHANGED <<cspTable, cspHistory>>
          /\ inCloud' \subseteq inCloud
    BY <1>4 DEF DeleteAwsIamRole
  <2>2. new \in CspCallType /\ Carries(new)
    BY <1>t, <2>1 DEF CspCallType, Carries, CspAt, WithRow, WithAws, Watching
  <2> HIDE DEF new
  <2>3. Tables'
    BY <2>1 DEF Tables, cspTable, cspHistory
  <2> QED
    BY <2>1, <2>2, <2>3, OneCallMoves DEF cspTable, cspHistory, CspAt, Watching
<1> QED
  BY <1>1, <1>2, <1>3, <1>4

\* The statement that writes "creating": the request that makes it watches the row.
LEMMA RecordingKeepsInv ==
  ASSUME CspInv, NEW c \in CspCalls, CreateCspRoleRecord(c) \/ RecordAgain(c)
  PROVE  CspInv'
<1> USE DEF CspInv, CspTypeOK
<1>t. cspCall[c] \in CspCallType /\ Carries(cspCall[c]) /\ cspCall[c].pc = "record"
  BY DEF CallsCarry, CreateCspRoleRecord, RecordAgain, CspAt
<1>1. PICK i \in CspRows :
        /\ RecordedAs(c, i) /\ UNCHANGED <<inCloud, cspHistory>>
        /\ cspKey' = [cspKey EXCEPT ![i] = cspCall[c].key]
        /\ cspStatus' = [cspStatus EXCEPT ![i] = cspCall[c].status]
        /\ cspNextId' \in 1..CspMax + 1
  <2>1. CASE CreateCspRoleRecord(c)
    <3>1. /\ cspNextId \in CspRows /\ cspNextId' = cspNextId + 1 /\ RecordedAs(c, cspNextId)
          /\ cspKey' = [cspKey EXCEPT ![cspNextId] = cspCall[c].key]
          /\ cspStatus' = [cspStatus EXCEPT ![cspNextId] = cspCall[c].status]
          /\ UNCHANGED <<inCloud, cspHistory>>
      BY <2>1 DEF CreateCspRoleRecord
    <3>2. cspNextId' \in 1..CspMax + 1
      BY <3>1, CspAssumption DEF CspRows
    <3> HIDE DEF CspInv, CspTypeOK
    <3> QED
      BY <3>1, <3>2
  <2>2. CASE RecordAgain(c)
    BY <2>2, <1>t DEF RecordAgain, UpdateCspRoleRecord, CspCallType
  <2> QED
    BY <2>1, <2>2
<1> DEFINE on == [cspCall[c] EXCEPT !.row = i,
                     !.pc = IF cspCall[c].status = "creating" THEN "make" ELSE "sync"]
           new == IF cspCall[c].key \notin OnAws THEN NoCspCall ELSE on
<1>2. Goes(c, new)
  BY <1>1 DEF RecordedAs
<1>3. cspCall[c].key \in OnAws => on \in CspCallType /\ Carries(on)
  BY <1>t DEF CspCallType, Carries, WithRow, WithAws, Watching
<1>4. new \in CspCallType /\ Carries(new)
  BY <1>3, NoCall DEF NoCallIsSound
<1>5. cspCall[c].status = "creating" => new.row = i /\ new.pc \in Watching
  BY <1>t DEF Carries, CspCallType, Watching
<1> HIDE DEF new
<1>6. cspCall[c].key \in CspKeys /\ cspCall[c].status \in Statuses
  BY <1>t DEF Carries, CspCallType
<1>7. Tables'
  BY <1>1, <1>6 DEF Tables, cspHistory
<1>8. cutRows' = cutRows /\ cspCall[c].pc \notin Watching
  BY <1>1, <1>t DEF cspHistory, Watching
<1>9. \A j \in CspRows \ cutRows' :
        cspKey'[j] # "none" /\ cspStatus'[j] = "creating" =>
            (new.row = j /\ new.pc \in Watching)
              \/ (cspKey[j] # "none" /\ cspStatus[j] = "creating")
  BY <1>1, <1>5
<1> QED
  BY <1>2, <1>4, <1>7, <1>8, <1>9, OneCallMoves

\* A request that ends: it has written something else, or what it leaves is noted.
LEMMA EndingKeepsInv ==
  ASSUME CspInv, NEW c \in CspCalls,
         \/ Confirm(c) \/ GiveUp(c) \/ UpdateCspRole(c) \/ DeleteCspRoleRecord(c)
         \/ CspCallStops(c)
  PROVE  CspInv'
<1> USE DEF CspInv, CspTypeOK
<1>t. cspCall[c] \in CspCallType /\ Carries(cspCall[c])
  BY DEF CallsCarry
<1> DEFINE i == cspCall[c].row
<1>1. ASSUME Goes(c, NoCspCall), Tables', cutRows \subseteq cutRows',
             \A j \in CspRows \ {i} : cspKey'[j] = cspKey[j] /\ cspStatus'[j] = cspStatus[j],
             i \in CspRows \ cutRows' =>
                 \/ cspKey'[i] = "none" \/ cspStatus'[i] # "creating"
                 \/ /\ cspKey'[i] = cspKey[i] /\ cspStatus'[i] = cspStatus[i]
                    /\ cspCall[c].pc \notin Watching
      PROVE  CspInv'
  BY <1>1, NoCall, OneCallMoves DEF NoCallIsSound
<1>2. CASE Confirm(c) \/ GiveUp(c)
  <2>1. PICK status \in {"created", "failed"} : Written(c, status)
    BY <1>2 DEF Confirm, GiveUp
  <2>2. cspCall[c].pc \in WithRow
    BY <1>2 DEF Confirm, GiveUp, CspAt, WithRow, Watching
  <2>3. i \in CspRows /\ cspCall[c].key \in CspKeys
    BY <1>t, <2>2 DEF Carries, WithRow, Watching
  <2>4. /\ cspKey' = [cspKey EXCEPT ![i] = cspCall[c].key]
        /\ cspStatus' = [cspStatus EXCEPT ![i] = status]
        /\ Goes(c, NoCspCall) /\ UNCHANGED <<cspNextId, inCloud, cspHistory>>
    BY <2>1 DEF Written, UpdateCspRoleRecord, CspEnds
  <2>5. Tables'
    BY <2>3, <2>4 DEF Tables, Statuses, cspHistory
  <2> QED
    BY <1>1, <2>3, <2>4, <2>5 DEF cspHistory
<1>3. CASE UpdateCspRole(c)
  <2>1. PICK k \in CspKeys : /\ UpdateCspRoleRecord(i, k, cspCall[c].status)
                             /\ mixedKeys' \subseteq mixedKeys \cup {k}
    BY <1>3 DEF UpdateCspRole
  <2>2. i \in CspRows /\ cspCall[c].status \in Statuses
    BY <1>3, <1>t DEF UpdateCspRole, CspAt, Carries, WithRow, CspCallType
  <2>3. /\ cspKey' = [cspKey EXCEPT ![i] = k]
        /\ cspStatus' = [cspStatus EXCEPT ![i] = cspCall[c].status]
        /\ Goes(c, NoCspCall) /\ UNCHANGED <<cspNextId, inCloud, lostKeys>>
        /\ cutRows' = IF cspCall[c].status = "creating" THEN cutRows \cup {i} ELSE cutRows
    BY <1>3, <2>1 DEF UpdateCspRole, UpdateCspRoleRecord, CspEnds
  <2>4. Tables'
    BY <2>1, <2>2, <2>3 DEF Tables
  <2> QED
    BY <1>1, <2>2, <2>3, <2>4
<1>4. CASE DeleteCspRoleRecord(c)
  <2>1. i \in CspRows
    BY <1>4, <1>t DEF DeleteCspRoleRecord, CspAt, Carries, WithRow
  <2>2. /\ cspKey' = [cspKey EXCEPT ![i] = "none"]
        /\ cspStatus' = [cspStatus EXCEPT ![i] = "created"]
        /\ Goes(c, NoCspCall) /\ UNCHANGED <<cspNextId, inCloud, cspHistory>>
    BY <1>4 DEF DeleteCspRoleRecord, CspEnds
  <2>3. Tables'
    BY <2>1, <2>2 DEF Tables, Statuses, cspHistory
  <2> QED
    BY <1>1, <2>1, <2>2, <2>3 DEF cspHistory
<1>5. CASE CspCallStops(c)
  <2>1. /\ Goes(c, NoCspCall) /\ UNCHANGED <<cspTable, inCloud, mixedKeys>>
        /\ cutRows' = IF cspCall[c].pc \in Watching THEN cutRows \cup {i} ELSE cutRows
        /\ lostKeys' \subseteq lostKeys \cup {cspCall[c].key}
        /\ cspCall[c].pc # "idle"
    BY <1>5 DEF CspCallStops, CspEnds, Watching, CspAt
  <2>2. cspCall[c].pc \in Watching => i \in CspRows
    BY <1>t DEF Carries, WithRow
  <2>3. cspCall[c].key \in CspKeys
    BY <1>t, <2>1 DEF Carries
  <2>4. Tables'
    BY <2>1, <2>2, <2>3 DEF Tables, cspTable
  <2> QED
    BY <1>1, <2>1, <2>4 DEF cspTable
<1> QED
  BY <1>2, <1>3, <1>4, <1>5

LEMMA CspInvStep == CspInv /\ [CspNext]_cspVars => CspInv'
<1> SUFFICES ASSUME CspInv, [CspNext]_cspVars PROVE CspInv'
  OBVIOUS
<1>1. ASSUME NEW c \in CspCalls, NEW k \in CspKeys, BeginCreation(c, k) PROVE CspInv'
  <2>1. CASE k \in OnAws
    BY <1>1, <2>1, BeginsKeepsInv DEF BeginCreation
  <2>2. CASE k \notin OnAws
    BY <1>1, <2>2, BeginsKeepsInv DEF BeginCreation
  <2> QED
    BY <2>1, <2>2
<1>2. ASSUME NEW c \in CspCalls, NEW i \in CspRows, BeginUpdate(c, i) \/ BeginDeletion(c, i)
      PROVE  CspInv'
  <2>1. cspKey[i] \in CspKeys /\ i # 0
    BY <1>2, CspAssumption DEF BeginUpdate, BeginDeletion, CspInv, CspTypeOK, CspRows
  <2>2. CASE BeginUpdate(c, i)
    BY <2>1, <2>2, BeginsKeepsInv DEF BeginUpdate
  <2>3. CASE BeginDeletion(c, i) /\ cspKey[i] \in OnAws
    BY <2>1, <2>3, BeginsKeepsInv DEF BeginDeletion
  <2>4. CASE BeginDeletion(c, i) /\ cspKey[i] \notin OnAws
    BY <2>1, <2>4, BeginsKeepsInv DEF BeginDeletion
  <2> QED
    BY <1>2, <2>2, <2>3, <2>4
<1>3. ASSUME NEW c \in CspCalls, CspStep(c) PROVE CspInv'
  BY <1>1, <1>2, <1>3, AskingKeepsInv, RecordingKeepsInv, EndingKeepsInv DEF CspStep
<1>4. ASSUME NEW k \in OnAws, CloudChanges(k) PROVE CspInv'
  BY <1>4, CspAssumption DEF CloudChanges, CspInv, CspTypeOK, CallsCarry, Carries,
     CreatingIsWatched, cspTable
<1>5. CASE UNCHANGED cspVars
  BY <1>5 DEF cspVars, CspInv, CspTypeOK, CallsCarry, Carries, CreatingIsWatched
<1> QED
  BY <1>3, <1>4, <1>5 DEF CspNext

(***************************************************************************)
(* For any number of rows and overlapping requests: no answer of the cloud *)
(* leaves a row at "creating" that nobody waits for.                       *)
(***************************************************************************)
THEOREM CreatingStaysWatched == CspSpec => []CreatingIsWatched
<1>1. CspInv => CreatingIsWatched
  BY DEF CspInv
<1> QED
  BY <1>1, CspInitially, CspInvStep, PTL DEF CspSpec

(***************************************************************************)
(* One row per role.  A key that is not in mixedKeys is worked on by one   *)
(* request at most, so that what this request found of its rows is still   *)
(* so when it writes.                                                      *)
(***************************************************************************)
\* What a request knows of the table while its key is its own.
Found(call) ==
    /\ call.row # 0 => call.row < cspNextId /\ call.key \in CspKeys
    /\ call.row # 0 /\ call.key \notin mixedKeys => cspKey[call.row] = call.key
    /\ call.row # 0 /\ cspKey[call.row] \notin mixedKeys \cup {"none"} => cspKey[call.row] = call.key
    /\ call.row = 0 /\ call.pc \in {"look", "record"} /\ call.key \notin mixedKeys =>
          RowsOf(call.key) = {}
    /\ call.pc = "find" /\ call.key \notin mixedKeys =>
          RowsOf(call.key) = {} \/ HasFailed(GetCspRoleByName(call.key))
    /\ call.status = "failed" => call.key \in OnAws
CallsFound == \A c \in CspCalls : Found(cspCall[c])
OwnKeys ==
    \A c, d \in CspCalls :
        c # d /\ cspCall[c].key = cspCall[d].key => cspCall[c].key \in mixedKeys \cup {"none"}
RowsKept ==
    \A i \in CspRows :
        /\ cspKey[i] # "none" => i < cspNextId
        /\ cspStatus[i] = "failed" => cspKey[i] \in OnAws
KeyInv == CallsFound /\ OwnKeys /\ RowsKept /\ OneRowPerRole

LEMMA KeyInitially == CspInit => KeyInv
  BY CspAssumption DEF CspInit, KeyInv, CallsFound, Found, OwnKeys, RowsKept, OneRowPerRole, NoCspCall

LEMMA FoundOrNone ==
  ASSUME NEW k
  PROVE  IF RowsOf(k) = {} THEN GetCspRoleByName(k) = 0
         ELSE GetCspRoleByName(k) \in RowsOf(k) /\ GetCspRoleByName(k) # 0
<1>1. RowsOf(k) \in SUBSET Nat /\ 0 \notin RowsOf(k)
  BY CspAssumption DEF RowsOf, CspRows
<1>2. CASE RowsOf(k) = {}
  BY <1>2 DEF GetCspRoleByName
<1>3. CASE RowsOf(k) # {}
  <2>1. \E i \in RowsOf(k) : \A j \in RowsOf(k) : i <= j
    BY <1>1, <1>3, LeastOf
  <2> QED
    BY <2>1, <1>1, <1>3 DEF GetCspRoleByName
<1> QED
  BY <1>2, <1>3

\* A step that leaves the table alone.
LEMMA TableStays ==
  ASSUME CspInv, KeyInv, NEW c \in CspCalls, NEW new, Goes(c, new), UNCHANGED cspTable,
         mixedKeys \subseteq mixedKeys', Found(new)',
         \A d \in CspCalls \ {c} : cspCall[d].key = new.key => new.key \in mixedKeys' \cup {"none"}
  PROVE  KeyInv'
<1>1. \A d \in CspCalls : cspCall'[d] = IF d = c THEN new ELSE cspCall[d]
  BY DEF Goes, CspInv, CspTypeOK
<1>2. \A k : RowsOf(k)' = RowsOf(k) /\ GetCspRoleByName(k)' = GetCspRoleByName(k)
        /\ HasFailed(GetCspRoleByName(k))' = HasFailed(GetCspRoleByName(k))
  BY DEF cspTable, RowsOf, GetCspRoleByName, HasFailed
<1>3. ASSUME NEW d \in CspCalls PROVE Found(cspCall[d])'
  <2>1. CASE d = c
    BY <1>1, <2>1
  <2>2. CASE d # c
    <3>1. cspCall'[d] = cspCall[d] /\ Found(cspCall[d])
      BY <1>1, <2>2 DEF KeyInv, CallsFound
    <3> QED
      BY <3>1, <1>2 DEF Found, cspTable
  <2> QED
    BY <2>1, <2>2
<1>4. CallsFound'
  BY <1>3 DEF CallsFound
<1>5. OwnKeys'
  BY <1>1 DEF KeyInv, OwnKeys
<1>6. RowsKept' /\ OneRowPerRole'
  BY DEF KeyInv, RowsKept, OneRowPerRole, cspTable
<1> QED
  BY <1>4, <1>5, <1>6 DEF KeyInv

\* A request writes the row it works on: no other works on it while its key is unmixed.
LEMMA RowWritten ==
  ASSUME CspInv, KeyInv, NEW c \in CspCalls, NEW i \in CspRows, i = cspCall[c].row,
         NEW k \in CspKeys \cup {"none"}, NEW status, status = "failed" => k \in OnAws,
         cspKey' = [cspKey EXCEPT ![i] = k], cspStatus' = [cspStatus EXCEPT ![i] = status],
         cspNextId' = cspNextId, mixedKeys \subseteq mixedKeys',
         k \in mixedKeys' \cup {"none"} \/ cspKey[i] = k,
         NEW new, Goes(c, new),
         \/ new = NoCspCall
         \/ new.row = i /\ new.key = k /\ k \in CspKeys /\ new.key = cspCall[c].key
               /\ new.pc \in {"make", "sync"} /\ (new.status = "failed" => k \in OnAws)
  PROVE  KeyInv'
<1>t. cspCall \in [CspCalls -> CspCallType] /\ cspKey \in [CspRows -> CspKeys \cup {"none"}]
        /\ cspStatus \in [CspRows -> Statuses] /\ i # 0
  BY CspAssumption DEF CspInv, CspTypeOK, CspRows
<1>n. "none" \notin CspKeys
  BY CspAssumption
<1>1. \A d \in CspCalls : cspCall'[d] = IF d = c THEN new ELSE cspCall[d]
  BY <1>t DEF Goes
<1>2. \A j \in CspRows : /\ cspKey'[j] = IF j = i THEN k ELSE cspKey[j]
                         /\ cspStatus'[j] = IF j = i THEN status ELSE cspStatus[j]
  BY <1>t
<1>3. ASSUME NEW d \in CspCalls \ {c}, cspCall[d].key \in CspKeys, cspCall[d].key \notin mixedKeys
      PROVE  cspKey[i] # cspCall[d].key /\ cspCall[d].row # i
  <2>1. cspCall[c].key # cspCall[d].key
    BY <1>3, <1>n DEF KeyInv, OwnKeys
  <2>2. Found(cspCall[c]) /\ Found(cspCall[d])
    BY DEF KeyInv, CallsFound
  <2>3. cspKey[i] # cspCall[d].key
    BY <2>1, <2>2, <1>3, <1>n, <1>t DEF Found
  <2>4. cspCall[d].row = i => cspKey[i] = cspCall[d].key
    BY <2>2, <1>3, <1>t DEF Found
  <2> QED
    BY <2>3, <2>4
<1>4. ASSUME NEW k2 \in CspKeys, k2 \notin mixedKeys', cspKey[i] # k2
      PROVE  RowsOf(k2)' = RowsOf(k2)
               /\ HasFailed(GetCspRoleByName(k2))' = HasFailed(GetCspRoleByName(k2))
  <2>1. RowsOf(k2)' = RowsOf(k2) /\ i \notin RowsOf(k2)
    BY <1>2, <1>4, <1>n DEF RowsOf
  <2>2. GetCspRoleByName(k2)' = GetCspRoleByName(k2)
    BY <2>1 DEF GetCspRoleByName
  <2>3. GetCspRoleByName(k2) # 0 => GetCspRoleByName(k2) \in CspRows \ {i}
    BY <2>1, FoundOrNone DEF RowsOf
  <2> QED
    BY <1>2, <2>1, <2>2, <2>3 DEF HasFailed
<1>5. ASSUME NEW d \in CspCalls PROVE Found(cspCall[d])'
  <2>1. CASE d = c
    <3>1. Found(NoCspCall)'
      BY DEF Found, NoCspCall
    <3>2. CASE new # NoCspCall
      BY <1>1, <1>2, <2>1, <3>2, <1>t DEF Found, KeyInv, CallsFound
    <3> QED
      BY <1>1, <2>1, <3>1, <3>2
  <2>2. CASE d # c /\ cspCall[d].row # 0
    <3>1. cspCall'[d] = cspCall[d] /\ Found(cspCall[d]) /\ cspCall[d].row \in CspRows
      BY <1>1, <1>t, <2>2 DEF KeyInv, CallsFound, CspCallType
    <3>2. cspCall[d].pc # "find" \/ cspCall[d].key \in mixedKeys'
            \/ (cspCall[d].key \in CspKeys /\ cspKey[i] # cspCall[d].key
                 /\ cspCall[d].key \notin mixedKeys')
      BY <3>1, <1>3, <2>2 DEF Found
    <3>3. CASE cspCall[d].row # i
      <4>1. cspKey'[cspCall[d].row] = cspKey[cspCall[d].row]
        BY <1>2, <3>1, <3>3
      <4> QED
        BY <3>1, <3>2, <4>1, <2>2, <1>4 DEF Found
    <3>4. CASE cspCall[d].row = i
      <4>1. cspCall[d].key \in mixedKeys
        BY <3>1, <3>4, <2>2, <1>3 DEF Found
      <4>2. cspKey'[i] \notin mixedKeys' \cup {"none"} => cspKey[i] = cspKey'[i]
        BY <1>2
      <4> QED
        BY <3>1, <3>4, <4>1, <4>2 DEF Found
    <3> QED
      BY <3>3, <3>4
  <2>3. CASE d # c /\ cspCall[d].row = 0
    <3>1. cspCall'[d] = cspCall[d] /\ Found(cspCall[d]) /\ Carries(cspCall[d])
      BY <1>1, <2>3 DEF KeyInv, CallsFound, CspInv, CallsCarry
    <3>2. CASE cspCall[d].pc = "idle" \/ cspCall[d].key \in mixedKeys'
      BY <3>1, <3>2, <2>3 DEF Found
    <3>3. CASE cspCall[d].pc # "idle" /\ cspCall[d].key \notin mixedKeys'
      <4>1. cspCall[d].key \in CspKeys /\ cspKey[i] # cspCall[d].key
        BY <3>1, <3>3, <2>3, <1>3 DEF Carries
      <4> QED
        BY <3>1, <2>3, <3>3, <4>1, <1>4 DEF Found
    <3> QED
      BY <3>2, <3>3
  <2> QED
    BY <2>1, <2>2, <2>3
<1>6. CallsFound'
  BY <1>5 DEF CallsFound
<1>7. OwnKeys'
  BY <1>1 DEF KeyInv, OwnKeys, NoCspCall
<1>8. RowsKept'
  BY <1>2, <1>t DEF KeyInv, RowsKept, CallsFound, Found
<1>9. OneRowPerRole'
  BY <1>2 DEF KeyInv, OneRowPerRole
<1> QED
  BY <1>6, <1>7, <1>8, <1>9 DEF KeyInv

\* A request inserts a row: there was none of an unmixed key.
LEMMA RowInserted ==
  ASSUME CspInv, KeyInv, NEW c \in CspCalls, CreateCspRoleRecord(c)
  PROVE  KeyInv'
<1> DEFINE i == cspNextId
           k == cspCall[c].key
<1>t. cspCall \in [CspCalls -> CspCallType] /\ cspKey \in [CspRows -> CspKeys \cup {"none"}]
        /\ cspStatus \in [CspRows -> Statuses] /\ i \in CspRows /\ i # 0 /\ i \in Nat
        /\ "none" \notin CspKeys
  BY CspAssumption DEF CspInv, CspTypeOK, CspRows, CreateCspRoleRecord
<1>u. Found(cspCall[c]) /\ Carries(cspCall[c]) /\ cspCall[c].pc = "record" /\ cspCall[c].row = 0
  BY DEF KeyInv, CallsFound, CspInv, CallsCarry, CreateCspRoleRecord, CspAt
<1>v. k \in CspKeys /\ (k \notin mixedKeys => RowsOf(k) = {})
  BY <1>u DEF Found, Carries
<1> DEFINE on == [cspCall[c] EXCEPT !.row = i,
                     !.pc = IF cspCall[c].status = "creating" THEN "make" ELSE "sync"]
           new == IF k \notin OnAws THEN NoCspCall ELSE on
<1>1. /\ cspNextId' = i + 1 /\ mixedKeys' = mixedKeys /\ Goes(c, new)
      /\ \A j \in CspRows : /\ cspKey'[j] = IF j = i THEN k ELSE cspKey[j]
                            /\ cspStatus'[j] = IF j = i THEN cspCall[c].status ELSE cspStatus[j]
  BY <1>t DEF CreateCspRoleRecord, RecordedAs, cspHistory
<1>2. \A d \in CspCalls : cspCall'[d] = IF d = c THEN new ELSE cspCall[d]
  BY <1>1, <1>t DEF Goes
<1>w. new = NoCspCall \/ /\ new.row = i /\ new.key = k /\ new.pc \in {"make", "sync"}
                         /\ new.status = cspCall[c].status
  BY <1>t DEF CspCallType
<1> HIDE DEF new
<1>3. cspKey[i] = "none" /\ \A d \in CspCalls : cspCall[d].row # i
  <2>1. ~(i < i)
    BY <1>t
  <2> QED
    BY <2>1, <1>t DEF KeyInv, RowsKept, CallsFound, Found
<1>4. ASSUME NEW k2 \in CspKeys, k2 # k
      PROVE  RowsOf(k2)' = RowsOf(k2)
               /\ HasFailed(GetCspRoleByName(k2))' = HasFailed(GetCspRoleByName(k2))
  <2>1. RowsOf(k2)' = RowsOf(k2) /\ i \notin RowsOf(k2)
    BY <1>1, <1>3, <1>4, <1>t DEF RowsOf
  <2>2. GetCspRoleByName(k2)' = GetCspRoleByName(k2)
    BY <2>1 DEF GetCspRoleByName
  <2>3. GetCspRoleByName(k2) # 0 => GetCspRoleByName(k2) \in CspRows \ {i}
    BY <2>1, FoundOrNone DEF RowsOf
  <2> QED
    BY <1>1, <2>1, <2>2, <2>3 DEF HasFailed
<1>5. ASSUME NEW d \in CspCalls PROVE Found(cspCall[d])'
  <2>1. CASE d = c
    <3>1. Found(NoCspCall)'
      BY DEF Found, NoCspCall
    <3>2. CASE new # NoCspCall
      <4>1. cspKey'[i] = k /\ i < cspNextId'
        BY <1>1, <1>t
      <4> QED
        BY <1>2, <2>1, <3>2, <4>1, <1>t, <1>u, <1>v, <1>w DEF Found
    <3> QED
      BY <1>2, <2>1, <3>1, <3>2
  <2>2. CASE d # c
    <3>1. cspCall'[d] = cspCall[d] /\ Found(cspCall[d]) /\ Carries(cspCall[d])
            /\ cspCall[d] \in CspCallType
      BY <1>2, <1>t, <2>2 DEF KeyInv, CallsFound, CspInv, CallsCarry
    <3>2. cspCall[d].key # k \/ k \in mixedKeys
      BY <2>2, <1>v, <1>t DEF KeyInv, OwnKeys
    <3>3. cspCall[d].row # 0 => cspKey'[cspCall[d].row] = cspKey[cspCall[d].row]
                                 /\ cspCall[d].row < cspNextId'
      BY <3>1, <1>1, <1>3, <1>t DEF Found, CspCallType, CspRows
    <3>4. cspCall[d].pc \in {"find", "look", "record"} => cspCall[d].key \in CspKeys
      BY <3>1 DEF Carries
    <3> QED
      BY <3>1, <3>2, <3>3, <3>4, <1>1, <1>4 DEF Found
  <2> QED
    BY <2>1, <2>2
<1>6. CallsFound'
  BY <1>5 DEF CallsFound
<1>7. OwnKeys'
  BY <1>1, <1>2, <1>w DEF KeyInv, OwnKeys, NoCspCall
<1>8. RowsKept'
  <2>1. \A j \in CspRows : j < cspNextId => j < cspNextId'
    BY <1>1, <1>t DEF CspRows
  <2>2. i < cspNextId'
    BY <1>1, <1>t
  <2> QED
    BY <1>1, <1>u, <2>1, <2>2 DEF KeyInv, RowsKept, Found
<1>9. OneRowPerRole'
  BY <1>1, <1>v DEF KeyInv, OneRowPerRole, RowsOf
<1> QED
  BY <1>6, <1>7, <1>8, <1>9 DEF KeyInv

\* A request begins: the key becomes mixed when another has it.
LEMMA BeginsOwnKey ==
  ASSUME CspInv, KeyInv, NEW c \in CspCalls, NEW op, NEW pc, NEW k \in CspKeys,
         NEW i \in CspRows \cup {0}, Begins(c, op, pc, k, i),
         i # 0 => cspKey[i] = k,
         i = 0 /\ pc = "record" => RowsOf(k) = {}, pc # "look",
         pc = "find" => RowsOf(k) = {} \/ HasFailed(GetCspRoleByName(k))
  PROVE  KeyInv'
<1>0. "none" \notin CspKeys
  BY CspAssumption
<1>1. PICK new : new = [op |-> op, pc |-> pc, key |-> k, row |-> i,
                        status |-> IF i = 0 THEN "created" ELSE cspStatus[i]]
  OBVIOUS
<1>2. new.pc = pc /\ new.key = k /\ new.row = i /\ (new.status = "failed" => k \in OnAws)
        /\ (i # 0 => i < cspNextId)
  BY <1>0, <1>1 DEF KeyInv, RowsKept
<1>3. /\ Goes(c, new) /\ UNCHANGED cspTable /\ mixedKeys \subseteq mixedKeys'
      /\ \A d \in CspCalls : cspCall[d].key = k => k \in mixedKeys'
  BY <1>1 DEF Begins
<1>4. /\ RowsOf(k)' = RowsOf(k)
      /\ HasFailed(GetCspRoleByName(k))' = HasFailed(GetCspRoleByName(k))
  BY <1>3 DEF cspTable, RowsOf, GetCspRoleByName, HasFailed
<1>5. Found(new)'
  BY <1>2, <1>3, <1>4 DEF Found, cspTable
<1> QED
  BY <1>2, <1>3, <1>5, TableStays

\* A request goes on, or ends, without a write.
LEMMA AskingOwnKey ==
  ASSUME CspInv, KeyInv, NEW c \in CspCalls,
         \/ FindFailed(c) \/ GetRole(c) \/ CreateIamRole(c) \/ Poll(c) \/ DeleteAwsIamRole(c)
         \/ CspCallStops(c)
  PROVE  KeyInv'
<1>t. cspCall[c] \in CspCallType /\ Found(cspCall[c]) /\ Carries(cspCall[c])
  BY DEF KeyInv, CallsFound, CspInv, CspTypeOK, CallsCarry
<1>0. UNCHANGED cspTable /\ mixedKeys' = mixedKeys
  BY DEF FindFailed, GetRole, CreateIamRole, Poll, DeleteAwsIamRole, CspCallStops, cspHistory
<1>1. \A k : /\ RowsOf(k)' = RowsOf(k)
             /\ HasFailed(GetCspRoleByName(k))' = HasFailed(GetCspRoleByName(k))
  BY <1>0 DEF cspTable, RowsOf, GetCspRoleByName, HasFailed
<1>2. ASSUME NEW new, Goes(c, new), new.key \in {cspCall[c].key, "none"}, Found(new)'
      PROVE  KeyInv'
  BY <1>0, <1>2, TableStays DEF KeyInv, OwnKeys
<1>3. CASE FindFailed(c)
  <2> DEFINE k == cspCall[c].key
             found == GetCspRoleByName(k)
  <2>1. PICK new : new = [cspCall[c] EXCEPT !.pc = "look", !.row = IF HasFailed(found) THEN found ELSE 0]
    OBVIOUS
  <2>2. Goes(c, new) /\ cspCall[c].pc = "find"
    BY <1>3, <2>1 DEF FindFailed, CspAt
  <2>3. new.pc = "look" /\ new.key = k /\ new.status = cspCall[c].status /\ k \in CspKeys
          /\ new.row = IF HasFailed(found) THEN found ELSE 0
    BY <1>t, <2>1, <2>2 DEF CspCallType, Carries
  <2>4. HasFailed(found) => found \in RowsOf(k)
    BY FoundOrNone DEF HasFailed
  <2>5. new.row # 0 => new.row < cspNextId /\ cspKey[new.row] = k
    BY <2>3, <2>4, CspAssumption DEF RowsOf, KeyInv, RowsKept
  <2>6. new.row = 0 /\ k \notin mixedKeys => RowsOf(k) = {}
    BY <1>t, <2>2, <2>3 DEF Found, HasFailed
  <2>7. Found(new)'
    BY <1>0, <1>1, <1>t, <2>3, <2>5, <2>6 DEF Found, cspTable
  <2> QED
    BY <1>2, <2>2, <2>3, <2>7
<1>4. CASE GetRole(c)
  <2>1. PICK status \in {"creating", "created"} :
          Goes(c, [cspCall[c] EXCEPT !.pc = "record", !.status = status])
    BY <1>4 DEF GetRole
  <2>2. PICK new : new = [cspCall[c] EXCEPT !.pc = "record", !.status = status]
    OBVIOUS
  <2>3. new.pc = "record" /\ new.key = cspCall[c].key /\ new.row = cspCall[c].row
          /\ new.status = status
    BY <1>t, <2>2 DEF CspCallType
  <2>4. cspCall[c].pc = "look"
    BY <1>4 DEF GetRole, CspAt
  <2>5. Found(new)'
    BY <1>0, <1>1, <1>t, <2>3, <2>4 DEF Found, cspTable
  <2> QED
    BY <1>2, <2>1, <2>2, <2>3, <2>5
<1>5. CASE CreateIamRole(c) \/ Poll(c) \/ DeleteAwsIamRole(c)
  <2>1. PICK pc \in {"poll", "confirm", "giveUp", "erase"} : Goes(c, [cspCall[c] EXCEPT !.pc = pc])
    BY <1>5 DEF CreateIamRole, Poll, DeleteAwsIamRole
  <2>2. PICK new : new = [cspCall[c] EXCEPT !.pc = pc]
    OBVIOUS
  <2>3. new.pc = pc /\ new.key = cspCall[c].key /\ new.row = cspCall[c].row
          /\ new.status = cspCall[c].status
    BY <1>t, <2>2 DEF CspCallType
  <2>4. Found(new)'
    BY <1>0, <1>1, <1>t, <2>3 DEF Found, cspTable
  <2> QED
    BY <1>2, <2>1, <2>2, <2>3, <2>4
<1>6. CASE CspCallStops(c)
  <2>1. Found(NoCspCall)' /\ NoCspCall.key = "none"
    BY DEF Found, NoCspCall
  <2>2. Goes(c, NoCspCall)
    BY <1>6 DEF CspCallStops, CspEnds
  <2> QED
    BY <1>2, <2>1, <2>2
<1> QED
  BY <1>3, <1>4, <1>5, <1>6

\* A request writes its row.
LEMMA WritingOwnKey ==
  ASSUME CspInv, KeyInv, NEW c \in CspCalls,
         RecordAgain(c) \/ Confirm(c) \/ GiveUp(c) \/ UpdateCspRole(c) \/ DeleteCspRoleRecord(c)
  PROVE  KeyInv'
<1> DEFINE i == cspCall[c].row
           k == cspCall[c].key
<1>t. cspCall[c] \in CspCallType /\ Found(cspCall[c]) /\ Carries(cspCall[c])
  BY DEF KeyInv, CallsFound, CspInv, CspTypeOK, CallsCarry
<1>0. i \in CspRows
  BY <1>t DEF RecordAgain, Confirm, GiveUp, UpdateCspRole, DeleteCspRoleRecord, CspAt, Carries,
              WithRow, Watching, CspCallType
<1>1. i # 0 /\ k \in CspKeys /\ (k \in mixedKeys \/ cspKey[i] = k)
  BY <1>0, <1>t, CspAssumption DEF Found, CspRows
<1>2. CASE RecordAgain(c)
  <2>1. PICK new : new = IF k \notin OnAws THEN NoCspCall
                         ELSE [cspCall[c] EXCEPT !.row = i,
                                  !.pc = IF cspCall[c].status = "creating" THEN "make" ELSE "sync"]
    OBVIOUS
  <2>2. /\ Goes(c, new) /\ cspNextId' = cspNextId /\ mixedKeys' = mixedKeys
        /\ cspKey' = [cspKey EXCEPT ![i] = k]
        /\ cspStatus' = [cspStatus EXCEPT ![i] = cspCall[c].status]
    BY <1>2, <2>1 DEF RecordAgain, UpdateCspRoleRecord, RecordedAs, cspHistory
  <2>3. cspCall[c].status = "failed" => k \in OnAws
    BY <1>t DEF Found
  <2>4. \/ new = NoCspCall
        \/ new.row = i /\ new.key = k /\ new.pc \in {"make", "sync"} /\ new.status = cspCall[c].status
    BY <1>t, <2>1 DEF CspCallType
  <2>5. mixedKeys \subseteq mixedKeys' /\ (k \in mixedKeys' \cup {"none"} \/ cspKey[i] = k)
    BY <1>1, <2>2
  <2>6. new = NoCspCall
          \/ (new.row = i /\ new.key = k /\ k \in CspKeys /\ new.key = cspCall[c].key
                /\ new.pc \in {"make", "sync"} /\ (new.status = "failed" => k \in OnAws))
    BY <1>1, <2>3, <2>4
  <2> QED
    BY <1>0, <1>1, <2>2, <2>3, <2>5, <2>6, RowWritten
<1>3. CASE Confirm(c) \/ GiveUp(c)
  <2>1. PICK status \in {"created", "failed"} : Written(c, status)
    BY <1>3 DEF Confirm, GiveUp
  <2>2. k \in OnAws
    BY <1>3, <1>t DEF Confirm, GiveUp, CspAt, Carries, WithAws, Watching
  <2>3. /\ Goes(c, NoCspCall) /\ cspNextId' = cspNextId /\ mixedKeys' = mixedKeys
        /\ cspKey' = [cspKey EXCEPT ![i] = k] /\ cspStatus' = [cspStatus EXCEPT ![i] = status]
    BY <2>1 DEF Written, UpdateCspRoleRecord, CspEnds, cspHistory
  <2> QED
    BY <1>0, <1>1, <2>2, <2>3, RowWritten
<1>4. CASE UpdateCspRole(c)
  <2>1. PICK l \in CspKeys :
          /\ SameCloud(l, k) /\ UpdateCspRoleRecord(i, l, cspCall[c].status)
          /\ mixedKeys' = IF l = k THEN mixedKeys ELSE mixedKeys \cup {l}
    BY <1>4 DEF UpdateCspRole
  <2>2. /\ Goes(c, NoCspCall) /\ cspNextId' = cspNextId
        /\ cspKey' = [cspKey EXCEPT ![i] = l]
        /\ cspStatus' = [cspStatus EXCEPT ![i] = cspCall[c].status]
    BY <1>4, <2>1 DEF UpdateCspRole, UpdateCspRoleRecord, CspEnds
  <2>3. cspCall[c].status = "failed" => l \in OnAws
    BY <1>t, <2>1 DEF Found, SameCloud
  <2>4. mixedKeys \subseteq mixedKeys' /\ (l \in mixedKeys' \/ cspKey[i] = l)
    BY <1>1, <2>1
  <2> QED
    BY <1>0, <2>1, <2>2, <2>3, <2>4, RowWritten
<1>5. CASE DeleteCspRoleRecord(c)
  <2>1. /\ Goes(c, NoCspCall) /\ cspNextId' = cspNextId /\ mixedKeys' = mixedKeys
        /\ cspKey' = [cspKey EXCEPT ![i] = "none"] /\ cspStatus' = [cspStatus EXCEPT ![i] = "created"]
    BY <1>5 DEF DeleteCspRoleRecord, CspEnds, cspHistory
  <2> QED
    BY <1>0, <2>1, RowWritten
<1> QED
  BY <1>2, <1>3, <1>4, <1>5

LEMMA KeyInvStep == CspInv /\ KeyInv /\ [CspNext]_cspVars => KeyInv'
<1> SUFFICES ASSUME CspInv, KeyInv, [CspNext]_cspVars PROVE KeyInv'
  OBVIOUS
<1>1. ASSUME NEW c \in CspCalls, NEW k \in CspKeys, BeginCreation(c, k) PROVE KeyInv'
  <2>1. RowsOf(k) = {} \/ HasFailed(GetCspRoleByName(k))
    BY <1>1, FoundOrNone DEF BeginCreation
  <2>2. k \notin OnAws => RowsOf(k) = {}
    BY <1>1, <2>1, FoundOrNone DEF HasFailed, RowsOf, KeyInv, RowsKept
  <2>3. CASE k \in OnAws
    BY <1>1, <2>1, <2>3, BeginsOwnKey DEF BeginCreation
  <2>4. CASE k \notin OnAws
    BY <1>1, <2>2, <2>4, BeginsOwnKey DEF BeginCreation
  <2> QED
    BY <2>3, <2>4
<1>2. ASSUME NEW c \in CspCalls, NEW i \in CspRows, BeginUpdate(c, i) \/ BeginDeletion(c, i)
      PROVE  KeyInv'
  <2>1. cspKey[i] \in CspKeys /\ i # 0
    BY <1>2, CspAssumption DEF BeginUpdate, BeginDeletion, CspInv, CspTypeOK, CspRows
  <2>2. CASE BeginUpdate(c, i)
    BY <2>1, <2>2, BeginsOwnKey DEF BeginUpdate
  <2>3. CASE BeginDeletion(c, i) /\ cspKey[i] \in OnAws
    BY <2>1, <2>3, BeginsOwnKey DEF BeginDeletion
  <2>4. CASE BeginDeletion(c, i) /\ cspKey[i] \notin OnAws
    BY <2>1, <2>4, BeginsOwnKey DEF BeginDeletion
  <2> QED
    BY <1>2, <2>2, <2>3, <2>4
<1>3. ASSUME NEW c \in CspCalls, CspStep(c) PROVE KeyInv'
  BY <1>1, <1>2, <1>3, AskingOwnKey, WritingOwnKey, RowInserted DEF CspStep
<1>4. CASE UNCHANGED <<cspTable, cspCall, mixedKeys>>
  BY <1>4 DEF cspTable, KeyInv, CallsFound, Found, OwnKeys, RowsKept, OneRowPerRole, RowsOf,
              HasFailed, GetCspRoleByName
<1>5. ASSUME NEW k \in OnAws, CloudChanges(k) PROVE UNCHANGED <<cspTable, cspCall, mixedKeys>>
  BY <1>5 DEF CloudChanges
<1> QED
  BY <1>3, <1>4, <1>5 DEF CspNext, cspVars, cspTable

(***************************************************************************)
(* For any number of rows and overlapping requests: a role that is tried   *)
(* again, deleted and created is in the table once, unless two requests    *)
(* worked on it at once or another was given its name.                     *)
(***************************************************************************)
THEOREM RolesHaveOneRow == CspSpec => []OneRowPerRole
<1>1. KeyInv => OneRowPerRole
  BY DEF KeyInv
<1>2. CspInit => CspInv /\ KeyInv
  BY CspInitially, KeyInitially
<1>3. CspInv /\ KeyInv /\ [CspNext]_cspVars => CspInv' /\ KeyInv'
  BY CspInvStep, KeyInvStep
<1> QED
  BY <1>1, <1>2, <1>3, PTL DEF CspSpec

(***************************************************************************)
(* In the cloud.  A request that goes on as if the role were there has     *)
(* seen it, and nobody but itself takes it away before it writes: who does *)
(* is noted in lostKeys, or has the same key and so makes it mixed.        *)
(***************************************************************************)
Unexcused == OnAws \ (lostKeys \cup mixedKeys)
Trusts(call) == \/ call.pc \in {"confirm", "sync"}
                \/ call.pc = "record" /\ call.status # "creating"
                \/ call.pc = "save" /\ call.status = "created"
Saw(call) == Trusts(call) /\ call.key \in Unexcused => call.key \in inCloud
CloudInv == (\A c \in CspCalls : Saw(cspCall[c])) /\ CreatedIsInCloud

\* A step of request c: of the others' trust and of the rows that stay as they were
\* nothing is to show, when no unexcused role leaves the cloud.
LEMMA CloudStays ==
  ASSUME CspInv, KeyInv, CloudInv, NEW c \in CspCalls, NEW new, Goes(c, new), Saw(new)',
         \A k \in Unexcused' : k \in inCloud' \/ (k \in Unexcused /\ k \notin inCloud),
         \A i \in CspRows :
             cspStatus'[i] = "created" /\ cspKey'[i] \in Unexcused' =>
                 \/ cspKey'[i] \in inCloud'
                 \/ /\ cspKey'[i] = cspKey[i] /\ cspStatus[i] = "created"
                    /\ ~(CspAt(c, "erase") /\ cspCall[c].row = i)
  PROVE  CloudInv'
<1>1. \A d \in CspCalls : cspCall'[d] = IF d = c THEN new ELSE cspCall[d]
  BY DEF Goes, CspInv, CspTypeOK
<1>2. ASSUME NEW d \in CspCalls PROVE Saw(cspCall[d])'
  <2>1. CASE d = c
    BY <1>1, <2>1
  <2>2. CASE d # c
    BY <1>1, <2>2 DEF CloudInv, Saw, Trusts
  <2> QED
    BY <2>1, <2>2
<1>3. ASSUME NEW i \in CspRows, cspStatus'[i] = "created", cspKey'[i] \in Unexcused',
             cspKey'[i] \notin inCloud'
      PROVE  \E d \in CspCalls : CspAt(d, "erase")' /\ cspCall'[d].row = i
  <2>1. /\ cspKey'[i] = cspKey[i] /\ cspStatus[i] = "created"
        /\ ~(CspAt(c, "erase") /\ cspCall[c].row = i)
    BY <1>3
  <2>2. cspKey[i] \in Unexcused /\ cspKey[i] \notin inCloud
    BY <1>3, <2>1
  <2>3. PICK d \in CspCalls : CspAt(d, "erase") /\ cspCall[d].row = i
    BY <2>1, <2>2 DEF CloudInv, CreatedIsInCloud, Unexcused
  <2> QED
    BY <1>1, <2>1, <2>3 DEF CspAt
<1>4. CreatedIsInCloud'
  BY <1>3 DEF CreatedIsInCloud, Unexcused
<1> QED
  BY <1>2, <1>4 DEF CloudInv

\* What an unexcused row's request and its row know of one another.
LEMMA RowOfKey ==
  ASSUME CspInv, KeyInv, NEW c \in CspCalls, cspCall[c].row \in CspRows
  PROVE  /\ cspCall[c].key \notin mixedKeys => cspKey[cspCall[c].row] = cspCall[c].key
         /\ cspKey[cspCall[c].row] \in OnAws \ mixedKeys => cspKey[cspCall[c].row] = cspCall[c].key
<1>1. Found(cspCall[c]) /\ cspCall[c].row # 0 /\ "none" \notin OnAws
  BY CspAssumption DEF KeyInv, CallsFound, CspRows
<1> QED
  BY <1>1 DEF Found

LEMMA BeginsInCloud ==
  ASSUME CspInv, KeyInv, CloudInv, NEW c \in CspCalls, NEW op, NEW pc, NEW k \in CspKeys,
         NEW i \in CspRows \cup {0}, Begins(c, op, pc, k, i), pc \notin {"confirm", "sync"},
         pc = "record" => k \notin OnAws, pc = "save" => i # 0 /\ cspKey[i] = k
  PROVE  CloudInv'
<1>n. PICK new : new = [op |-> op, pc |-> pc, key |-> k, row |-> i,
                        status |-> IF i = 0 THEN "created" ELSE cspStatus[i]]
  OBVIOUS
<1>1. Goes(c, new) /\ UNCHANGED <<cspTable, inCloud, lostKeys>> /\ mixedKeys \subseteq mixedKeys'
        /\ ((\E d \in CspCalls : cspCall[d].key = k) => k \in mixedKeys') /\ CspAt(c, "idle")
  BY <1>n DEF Begins
<1>2. new.pc = pc /\ new.key = k /\ (i # 0 => new.status = cspStatus[i])
  BY <1>n
<1>3. \A l \in Unexcused' : l \in inCloud' \/ (l \in Unexcused /\ l \notin inCloud)
  BY <1>1 DEF Unexcused
<1>4. ASSUME pc = "save", cspStatus[i] = "created", k \in Unexcused' PROVE k \in inCloud'
  <2>1. i \in CspRows /\ cspKey[i] = k /\ k \in OnAws \ (lostKeys \cup mixedKeys)
    BY <1>1, <1>4 DEF Unexcused
  <2>2. ASSUME NEW d \in CspCalls, CspAt(d, "erase"), cspCall[d].row = i PROVE FALSE
    <3>1. cspCall[d].key = k
      BY <2>1, <2>2, RowOfKey
    <3> QED
      BY <1>1, <1>4, <3>1 DEF Unexcused
  <2> QED
    BY <1>1, <1>4, <2>1, <2>2 DEF CloudInv, CreatedIsInCloud
<1>5. Saw(new)'
  <2>1. new.pc = "record" => new.key \notin Unexcused'
    BY <1>2 DEF Unexcused
  <2> QED
    BY <1>2, <1>4, <2>1 DEF Saw, Trusts
<1>6. \A j \in CspRows : cspKey'[j] = cspKey[j] /\ cspStatus'[j] = cspStatus[j]
  BY <1>1 DEF cspTable
<1>7. ~CspAt(c, "erase")
  BY <1>1 DEF CspAt
<1> QED
  BY <1>1, <1>3, <1>5, <1>6, <1>7, CloudStays

\* The look-ups, the calls that make the role and watch it, and a request that stops.
LEMMA AskingInCloud ==
  ASSUME CspInv, KeyInv, CloudInv, NEW c \in CspCalls,
         FindFailed(c) \/ GetRole(c) \/ CreateIamRole(c) \/ Poll(c) \/ CspCallStops(c)
  PROVE  CloudInv'
<1>t. cspCall[c] \in CspCallType /\ Carries(cspCall[c])
  BY DEF CspInv, CspTypeOK, CallsCarry
<1>0. UNCHANGED <<cspTable, mixedKeys>>
  BY DEF FindFailed, GetRole, CreateIamRole, Poll, CspCallStops, cspHistory
<1>1. \A j \in CspRows : cspKey'[j] = cspKey[j] /\ cspStatus'[j] = cspStatus[j]
  BY <1>0 DEF cspTable
<1>2. \A l \in Unexcused' : l \in inCloud' \/ (l \in Unexcused /\ l \notin inCloud)
  BY <1>0 DEF Unexcused, FindFailed, GetRole, CreateIamRole, Poll, CspCallStops, cspHistory
<1>3. ASSUME NEW new, Goes(c, new), Saw(new)', ~CspAt(c, "erase") PROVE CloudInv'
  BY <1>1, <1>2, <1>3, CloudStays
<1>4. CASE FindFailed(c)
  <2>1. PICK row : Goes(c, [cspCall[c] EXCEPT !.pc = "look", !.row = row])
    BY <1>4 DEF FindFailed
  <2>2. PICK new : new = [cspCall[c] EXCEPT !.pc = "look", !.row = row]
    OBVIOUS
  <2>3. Goes(c, new) /\ new.pc = "look" /\ ~CspAt(c, "erase")
    BY <1>t, <1>4, <2>1, <2>2 DEF FindFailed, CspAt, CspCallType
  <2>4. Saw(new)'
    BY <2>3 DEF Saw, Trusts
  <2> QED
    BY <1>3, <2>3, <2>4
<1>5. CASE GetRole(c)
  <2>1. PICK status \in {"creating", "created"} :
          /\ Goes(c, [cspCall[c] EXCEPT !.pc = "record", !.status = status])
          /\ status = "created" => cspCall[c].key \in inCloud
    BY <1>5 DEF GetRole
  <2>n. PICK new : new = [cspCall[c] EXCEPT !.pc = "record", !.status = status]
    OBVIOUS
  <2>2. new.pc = "record" /\ new.status = status /\ new.key = cspCall[c].key
    BY <1>t, <2>n DEF CspCallType
  <2>3. inCloud' = inCloud /\ ~CspAt(c, "erase") /\ Goes(c, new)
    BY <1>5, <2>1, <2>n DEF GetRole, CspAt
  <2>4. Saw(new)'
    BY <2>1, <2>2, <2>3 DEF Saw, Trusts
  <2> QED
    BY <1>3, <2>3, <2>4
<1>6. CASE CreateIamRole(c) \/ Poll(c)
  <2>1. PICK pc \in {"poll", "confirm", "giveUp"} :
          /\ Goes(c, [cspCall[c] EXCEPT !.pc = pc])
          /\ pc = "confirm" => cspCall[c].key \in inCloud'
    BY <1>6 DEF CreateIamRole, Poll
  <2>n. PICK new : new = [cspCall[c] EXCEPT !.pc = pc]
    OBVIOUS
  <2>2. new.pc = pc /\ new.key = cspCall[c].key
    BY <1>t, <2>n DEF CspCallType
  <2>3. ~CspAt(c, "erase") /\ Goes(c, new)
    BY <1>6, <2>1, <2>n DEF CreateIamRole, Poll, CspAt
  <2>4. Saw(new)'
    BY <2>1, <2>2 DEF Saw, Trusts
  <2> QED
    BY <1>3, <2>3, <2>4
<1>7. CASE CspCallStops(c)
  <2>1. Goes(c, NoCspCall) /\ (CspAt(c, "erase") => cspCall[c].key \in lostKeys')
    BY <1>7 DEF CspCallStops, CspEnds
  <2>2. Saw(NoCspCall)'
    BY DEF Saw, Trusts, NoCspCall
  <2>3. ASSUME NEW i \in CspRows, CspAt(c, "erase"), cspCall[c].row = i, cspKey[i] \in Unexcused'
        PROVE  FALSE
    <3>1. cspKey[i] \in OnAws \ mixedKeys
      BY <1>0, <2>3 DEF Unexcused
    <3>2. cspKey[i] = cspCall[c].key
      BY <2>3, <3>1, RowOfKey
    <3> QED
      BY <2>1, <2>3, <3>2 DEF Unexcused
  <2> QED
    BY <1>1, <1>2, <2>1, <2>2, <2>3, CloudStays
<1> QED
  BY <1>4, <1>5, <1>6, <1>7

\* A row is written "created" by a request that trusts its key to be in the cloud.
LEMMA WritingInCloud ==
  ASSUME CspInv, KeyInv, CloudInv, NEW c \in CspCalls,
         \/ CreateCspRoleRecord(c) \/ RecordAgain(c)
         \/ Confirm(c) \/ GiveUp(c) \/ UpdateCspRole(c) \/ DeleteCspRoleRecord(c)
  PROVE  CloudInv'
<1>t. /\ cspCall[c] \in CspCallType /\ Carries(cspCall[c]) /\ Saw(cspCall[c])
      /\ cspKey \in [CspRows -> CspKeys \cup {"none"}] /\ cspStatus \in [CspRows -> Statuses]
      /\ "none" \notin OnAws
  BY CspAssumption DEF CspInv, CspTypeOK, CallsCarry, CloudInv
<1>0. UNCHANGED <<inCloud, lostKeys>> /\ mixedKeys \subseteq mixedKeys'
  BY DEF CreateCspRoleRecord, RecordAgain, Confirm, GiveUp, UpdateCspRole, DeleteCspRoleRecord,
         Written, cspHistory
<1>1. \A l \in Unexcused' : l \in inCloud' \/ (l \in Unexcused /\ l \notin inCloud)
  BY <1>0 DEF Unexcused
<1>2. ASSUME NEW i \in CspRows, NEW k, NEW status, NEW new, Goes(c, new), Saw(new)',
             cspKey' = [cspKey EXCEPT ![i] = k], cspStatus' = [cspStatus EXCEPT ![i] = status],
             status = "created" /\ k \in Unexcused' => k \in inCloud',
             CspAt(c, "erase") => cspCall[c].row = i
      PROVE  CloudInv'
  <2>1. ASSUME NEW j \in CspRows, cspStatus'[j] = "created", cspKey'[j] \in Unexcused'
        PROVE  \/ cspKey'[j] \in inCloud'
               \/ /\ cspKey'[j] = cspKey[j] /\ cspStatus[j] = "created"
                  /\ ~(CspAt(c, "erase") /\ cspCall[c].row = j)
    BY <1>t, <1>2, <2>1
  <2> QED
    BY <1>1, <1>2, <2>1, CloudStays
<1>3. ASSUME NEW i \in CspRows, RecordedAs(c, i), cspCall[c].pc = "record",
             cspKey' = [cspKey EXCEPT ![i] = cspCall[c].key],
             cspStatus' = [cspStatus EXCEPT ![i] = cspCall[c].status],
             mixedKeys' = mixedKeys
      PROVE  CloudInv'
  <2>1. PICK new : new = IF cspCall[c].key \notin OnAws THEN NoCspCall
                         ELSE [cspCall[c] EXCEPT !.row = i,
                                  !.pc = IF cspCall[c].status = "creating" THEN "make" ELSE "sync"]
    OBVIOUS
  <2>2. Goes(c, new) /\ ~CspAt(c, "erase")
    BY <1>3, <2>1 DEF RecordedAs, CspAt
  <2>3. cspCall[c].status # "creating" /\ cspCall[c].key \in Unexcused' =>
            cspCall[c].key \in inCloud'
    BY <1>0, <1>3, <1>t DEF Saw, Trusts, Unexcused
  <2>4. \/ new = NoCspCall
        \/ /\ new.pc = IF cspCall[c].status = "creating" THEN "make" ELSE "sync"
           /\ new.key = cspCall[c].key
    BY <1>t, <2>1 DEF CspCallType
  <2>5. Saw(new)'
    BY <2>3, <2>4 DEF Saw, Trusts, NoCspCall
  <2> QED
    BY <1>2, <1>3, <2>2, <2>3, <2>5
<1>4. ASSUME NEW i \in CspRows, NEW k, NEW status, CspEnds(c),
             cspKey' = [cspKey EXCEPT ![i] = k], cspStatus' = [cspStatus EXCEPT ![i] = status],
             status = "created" /\ k \in Unexcused' => k \in inCloud',
             CspAt(c, "erase") => cspCall[c].row = i
      PROVE  CloudInv'
  <2>1. Saw(NoCspCall)' /\ Goes(c, NoCspCall)
    BY <1>4 DEF Saw, Trusts, NoCspCall, CspEnds
  <2> QED
    BY <1>2, <1>4, <2>1
<1>5. CASE CreateCspRoleRecord(c)
  BY <1>3, <1>5 DEF CreateCspRoleRecord, CspAt, cspHistory
<1>6. CASE RecordAgain(c)
  <2>1. cspCall[c].row \in CspRows
    BY <1>6, <1>t DEF RecordAgain, CspCallType
  <2> QED
    BY <1>3, <1>6, <2>1 DEF RecordAgain, UpdateCspRoleRecord, CspAt, cspHistory
<1>7. CASE Confirm(c) \/ GiveUp(c)
  <2>1. PICK status \in {"created", "failed"} :
          Written(c, status) /\ (status = "created" => cspCall[c].pc \in {"confirm", "sync"})
    BY <1>7 DEF Confirm, GiveUp, CspAt
  <2>2. cspCall[c].row \in CspRows /\ ~CspAt(c, "erase")
    BY <1>7, <1>t DEF Confirm, GiveUp, CspAt, Carries, WithRow, Watching
  <2>3. status = "created" /\ cspCall[c].key \in Unexcused' => cspCall[c].key \in inCloud'
    BY <1>0, <1>t, <2>1 DEF Saw, Trusts, Unexcused
  <2> QED
    BY <1>4, <2>1, <2>2, <2>3 DEF Written, UpdateCspRoleRecord
<1>8. CASE UpdateCspRole(c)
  <2>1. PICK k \in CspKeys :
          /\ UpdateCspRoleRecord(cspCall[c].row, k, cspCall[c].status)
          /\ k # cspCall[c].key => k \in mixedKeys'
    BY <1>8 DEF UpdateCspRole
  <2>2. cspCall[c].row \in CspRows /\ cspCall[c].pc = "save"
    BY <1>8, <1>t DEF UpdateCspRole, CspAt, Carries, WithRow
  <2>3. cspCall[c].status = "created" /\ k \in Unexcused' => k \in inCloud'
    BY <1>0, <1>t, <2>1, <2>2 DEF Saw, Trusts, Unexcused
  <2> QED
    BY <1>4, <1>8, <2>1, <2>2, <2>3 DEF UpdateCspRole, UpdateCspRoleRecord, CspAt
<1>9. CASE DeleteCspRoleRecord(c)
  <2>1. cspCall[c].row \in CspRows
    BY <1>9, <1>t DEF DeleteCspRoleRecord, CspAt, Carries, WithRow
  <2> QED
    BY <1>4, <1>9, <1>t, <2>1 DEF DeleteCspRoleRecord, Unexcused
<1> QED
  BY <1>5, <1>6, <1>7, <1>8, <1>9

\* Its own deletion takes an unexcused role from the cloud, and goes on to its one row.
LEMMA DroppingInCloud ==
  ASSUME CspInv, KeyInv, CloudInv, NEW c \in CspCalls, DeleteAwsIamRole(c)
  PROVE  CloudInv'
<1> DEFINE k == cspCall[c].key
<1>t. cspCall \in [CspCalls -> CspCallType] /\ Carries(cspCall[c]) /\ cspCall[c].pc = "drop"
  BY DEF CspInv, CspTypeOK, CallsCarry, DeleteAwsIamRole, CspAt
<1>1. /\ inCloud' = inCloud \ {k} /\ UNCHANGED <<cspTable, cspHistory>> /\ Unexcused' = Unexcused
      /\ Goes(c, [cspCall[c] EXCEPT !.pc = "erase"])
  BY DEF DeleteAwsIamRole, cspHistory, Unexcused
<1>2. /\ cspCall[c].row \in CspRows
      /\ cspCall'[c].pc = "erase" /\ cspCall'[c].row = cspCall[c].row
      /\ \A d \in CspCalls : d # c => cspCall'[d] = cspCall[d]
  BY <1>1, <1>t DEF Goes, Carries, WithRow, CspCallType
<1>3. ASSUME NEW d \in CspCalls PROVE Saw(cspCall[d])'
  <2>1. CASE d = c
    BY <1>2, <2>1 DEF Saw, Trusts
  <2>2. CASE d # c
    <3>1. cspCall[d].key \in Unexcused => cspCall[d].key # k
      BY <2>2, CspAssumption DEF KeyInv, OwnKeys, Unexcused
    <3> QED
      BY <1>1, <1>2, <2>2, <3>1 DEF CloudInv, Saw, Trusts
  <2> QED
    BY <2>1, <2>2
<1>4. ASSUME NEW i \in CspRows, cspStatus[i] = "created", cspKey[i] \in Unexcused,
             cspKey[i] \notin inCloud'
      PROVE  \E d \in CspCalls : cspCall'[d].pc = "erase" /\ cspCall'[d].row = i
  <2>1. CASE cspKey[i] = k
    <3>1. cspKey[cspCall[c].row] = k
      BY <1>2, <1>4, <2>1, RowOfKey DEF Unexcused
    <3>2. i = cspCall[c].row
      BY <1>2, <1>4, <2>1, <3>1, CspAssumption DEF KeyInv, OneRowPerRole, Unexcused
    <3> QED
      BY <1>2, <3>2
  <2>2. CASE cspKey[i] # k
    <3>1. PICK d \in CspCalls : CspAt(d, "erase") /\ cspCall[d].row = i
      BY <1>1, <1>4, <2>2 DEF CloudInv, CreatedIsInCloud, Unexcused
    <3> QED
      BY <1>2, <1>t, <3>1 DEF CspAt
  <2> QED
    BY <2>1, <2>2
<1>5. CreatedIsInCloud'
  BY <1>1, <1>4 DEF CreatedIsInCloud, Unexcused, CspAt, cspTable
<1> QED
  BY <1>3, <1>5 DEF CloudInv

LEMMA CloudInvStep == CspInv /\ KeyInv /\ CloudInv /\ [CspNext]_cspVars => CloudInv'
<1> SUFFICES ASSUME CspInv, KeyInv, CloudInv, [CspNext]_cspVars PROVE CloudInv'
  OBVIOUS
<1>1. ASSUME NEW c \in CspCalls, NEW k \in CspKeys, BeginCreation(c, k) PROVE CloudInv'
  <2>1. PICK pc \in {"find", "record"} :
          Begins(c, "create", pc, k, 0) /\ (pc = "record" => k \notin OnAws)
    BY <1>1 DEF BeginCreation
  <2> QED
    BY <2>1, BeginsInCloud
<1>2. ASSUME NEW c \in CspCalls, NEW i \in CspRows, BeginUpdate(c, i) \/ BeginDeletion(c, i)
      PROVE  CloudInv'
  <2>1. cspKey[i] \in CspKeys /\ i # 0
    BY <1>2, CspAssumption DEF BeginUpdate, BeginDeletion, CspInv, CspTypeOK, CspRows
  <2>2. PICK op \in {"update", "delete"}, pc \in {"save", "drop", "erase"} :
          Begins(c, op, pc, cspKey[i], i)
    BY <1>2 DEF BeginUpdate, BeginDeletion
  <2> QED
    BY <2>1, <2>2, BeginsInCloud
<1>3. ASSUME NEW c \in CspCalls, CspStep(c) PROVE CloudInv'
  BY <1>1, <1>2, <1>3, AskingInCloud, WritingInCloud, DroppingInCloud DEF CspStep
<1>4. ASSUME NEW k \in OnAws, CloudChanges(k) PROVE CloudInv'
  <2>1. UNCHANGED <<cspTable, cspCall>>
    BY <1>4 DEF CloudChanges
  <2>2. \A l \in Unexcused' : l \in inCloud' \/ (l \in Unexcused /\ l \notin inCloud)
    BY <1>4 DEF CloudChanges, Unexcused
  <2>3. \A c \in CspCalls : Saw(cspCall[c])'
    BY <2>1, <2>2 DEF CloudInv, Saw, Trusts
  <2>4. CreatedIsInCloud'
    BY <2>1, <2>2 DEF CloudInv, CreatedIsInCloud, Unexcused, CspAt, cspTable
  <2> QED
    BY <2>3, <2>4 DEF CloudInv
<1>5. CASE UNCHANGED cspVars
  BY <1>5 DEF cspVars, CloudInv, Saw, Trusts, Unexcused, CreatedIsInCloud, CspAt
<1> QED
  BY <1>3, <1>4, <1>5 DEF CspNext

LEMMA CloudInitially == CspInit => CloudInv
  BY CspAssumption DEF CspInit, CloudInv, Saw, Trusts, CreatedIsInCloud, NoCspCall

(***************************************************************************)
(* For any number of rows and overlapping requests: what is "created" is   *)
(* in the cloud, or is being deleted, or is excused by name.               *)
(***************************************************************************)
THEOREM CreatedStaysInCloud == CspSpec => []CreatedIsInCloud
<1>1. CloudInv => CreatedIsInCloud
  BY DEF CloudInv
<1>2. CspInit => CspInv /\ KeyInv /\ CloudInv
  BY CspInitially, KeyInitially, CloudInitially
<1>3. CspInv /\ KeyInv /\ CloudInv /\ [CspNext]_cspVars => CspInv' /\ KeyInv' /\ CloudInv'
  BY CspInvStep, KeyInvStep, CloudInvStep
<1> QED
  BY <1>1, <1>2, <1>3, PTL DEF CspSpec

==============================================================================
