----------------------------- MODULE MCCatalogue -----------------------------
(***************************************************************************)
(* What the administrators edit besides roles, in one run: menus, CSP      *)
(* roles, the API registry with the permissions, the rows that are saved   *)
(* whole, the credentials and how they are given.  The parts share no      *)
(* state, so a behaviour works on one of them (part) and the others stay   *)
(* as they are: the run checks each part on its own.                       *)
(***************************************************************************)
EXTENDS MenuTree, CspRole, ApiRegistry, SavedRows, TempCredential, CredentialIssue, TLC

VARIABLE part

CONSTANTS
    home, m2, m3, ops, adm,                   \* menus
    kA, kB, kG,                               \* CSP roles
    f0, f1, f2, spec, act1, act2,             \* API documents
    label1, label2,                           \* names of rows
    viewer, admin, kAws, kTencent                  \* who is given a credential, for what

MCSeedParent == (home :> "none") @@ (m2 :> home) @@ (m3 :> m2)
MCSeedMapped == (ops :> {m2})
MCApiStamp == (f0 :> "none") @@ (f1 :> "a") @@ (f2 :> "b") @@ (spec :> "c")
MCApiActions == (f0 :> {act2}) @@ (f1 :> {act1}) @@ (f2 :> {act1, act2}) @@ (spec :> {act2})
MCAccountOf == (11 :> 1) @@ (21 :> 1) @@ (22 :> 1)
MCPolicyArn == (21 :> "arn") @@ (22 :> "arn")
MCIssueCloud == (kAws :> "aws") @@ (kTencent :> "tencent")

CatalogueVars == <<part, menuVars, cspVars, apiVars, rowVars, credVars, issueVars>>
CatalogueInit ==
    /\ part \in {"menus", "csp", "api", "rows", "credentials", "issue"}
    /\ MenuInit /\ CspInit /\ ApiInit /\ RowInit /\ CredInit /\ IssueInit

CatalogueNext ==
    /\ UNCHANGED part
    /\ \/ part = "menus" /\ MenuNext
          /\ UNCHANGED <<cspVars, apiVars, rowVars, credVars, issueVars>>
       \/ part = "csp" /\ CspNext
          /\ UNCHANGED <<menuVars, apiVars, rowVars, credVars, issueVars>>
       \/ part = "api" /\ ApiNext
          /\ UNCHANGED <<menuVars, cspVars, rowVars, credVars, issueVars>>
       \/ part = "rows" /\ RowNext
          /\ UNCHANGED <<menuVars, cspVars, apiVars, credVars, issueVars>>
       \/ part = "credentials" /\ CredNext
          /\ UNCHANGED <<menuVars, cspVars, apiVars, rowVars, issueVars>>
       \/ part = "issue" /\ IssueNext
          /\ UNCHANGED <<menuVars, cspVars, apiVars, rowVars, credVars>>

CatalogueSpec == CatalogueInit /\ [][CatalogueNext]_CatalogueVars

\* The requests of every part are the same two slots.
SlotSymmetry == Permutations(CspCalls)

CatalogueTypeOK ==
    MenuTypeOK /\ CspTypeOK /\ ApiTypeOK /\ RowTypeOK /\ CredTypeOK /\ IssueTypeOK

(***************************************************************************)
(* Bounds.                                                                 *)
(***************************************************************************)
\* Menus: jobs, which read no menu, run beside one; the trees, of three menus, are
\* those of one role.
Flat ==
    /\ menuRows = {home} /\ menuParent[home] = "none" /\ menuPerms = {}
    /\ \A p \in menuMaps : p[2] # m3
OneRole == roleRows = MenuRoles /\ \A p \in menuMaps : p[1] = adm
Working == backup.listed # {} \/ \E j \in MenuJobs : job[j].pc # "idle"
MenusBound == Flat \/ (OneRole /\ ~Working)

\* CSP roles: kB is only what kA is renamed to; kG, of another cloud, on its own;
\* at most one edit at a time, and no two requests after a role was lost.
CspBound ==
    /\ kB \notin inCloud \cup lostKeys
    /\ lostKeys # {} => \E c \in CspCalls : CspAt(c, "idle")
    /\ \A c \in CspCalls :
         /\ cspCall[c].key = kB => cspCall[c].op # "create"
         /\ cspCall[c].op = "update" => \A d \in CspCalls \ {c} : cspCall[d].op # "update"
         /\ cspCall[c].key = kG => \A d \in CspCalls : cspCall[d].key \in {kG, "none"}

\* API: the permissions, the row of the service and the mappings of actions each
\* beside few of the others.
ApiBound ==
    /\ (perms # {} \/ types # {} \/ permRoles # {}) =>
         generation = 0 /\ \A c \in ApiCalls : apiCall[c].op \in {"none", "assign"}
    /\ service.version # "none" =>
         generation <= 1 /\ \A c \in ApiCalls : apiCall[c].pc \notin {"check", "replace"}
    /\ permActions # {} => generation <= 1 /\ \A c \in ApiCalls : AtApi(c, "idle")

\* Rows: two accounts, or the two companies, by themselves; an account and one
\* of its rows; an account with all of them while no two requests have met.  The
\* second name is not used without the first.
NamesUsed == ({row[x].label : x \in RowIds} \cup {rowCall[c].label : c \in RowCalls}
                 \cup {rowCall[c].seen.label : c \in RowCalls}) \ {"none"}
FamiliesAsked == {rowCall[c].family : c \in RowCalls} \ {{}}
RowsBound ==
    /\ NamesUsed # {label2}
    /\ \/ /\ \E family \in {Accounts, Companies} :
                drawnRows \subseteq family /\ FamiliesAsked \subseteq {family}
          /\ Cardinality(drawnRows) <= 1 \/ mingled = {}
       \/ /\ Cardinality(NamesUsed) <= 1
          /\ \/ \E x \in Children : drawnRows \subseteq {1, x}
             \/ drawnRows \subseteq {1} \cup Children /\ mingled = {}

\* Issuing: two mappings beside complete rows of the CSP roles; the other rows of a
\* CSP role beside one mapping and one role of the user.  Mappings are of two
\* methods and requests name none or one of these.
Plain == [method |-> "oidc", named |-> TRUE, settings |-> TRUE]
OneMapping == Cardinality(mapped) <= 1 /\ held \subseteq {viewer} /\ \A m \in mapped : m[1] = viewer
IssueBound ==
    /\ \A m \in mapped : m[3] # "key"
    /\ \/ Cardinality(mapped) <= 2 /\ \A k \in IssueCsp : cspConfig[k] = Plain
       \/ OneMapping /\ \E k \in IssueCsp : cspConfig[k] = NoRow
    /\ \A c \in IssueCalls :
         /\ issue[c].cloud \in {"none"} \cup {IssueCloud[k] : k \in IssueCsp}
         /\ issue[c].asked \in {"none", "saml"}

CatalogueBound ==
    /\ part = "menus" => MenusBound
    /\ part = "csp" => CspBound
    /\ part = "api" => ApiBound
    /\ part = "rows" => RowsBound
    /\ part = "issue" => IssueBound
===============================================================================
