--------------------------- MODULE CredentialIssue ---------------------------
(***************************************************************************)
(* Temporary credentials of a cloud for a user in a workspace.  A request  *)
(* reads one of the user's roles there, one mapping of that role to a CSP  *)
(* role of the cloud, and that CSP role with its IdP configuration; each   *)
(* in a statement of its own.  Then it asks Keycloak for a token and the   *)
(* cloud for the credential, or answers with the keys it has read.         *)
(*                                                                         *)
(* One user and one workspace are modelled: no statement reads another's   *)
(* rows.  The tables are written by the components they belong to; here    *)
(* they change between any two statements.                                 *)
(***************************************************************************)
EXTENDS Naturals

CONSTANTS
    WsRoles,          \* roles of workspaces
    IssueCsp,         \* CSP roles
    IssueCloud,       \* the cloud of each
    IssueCalls        \* bound: the requests in progress

Clouds == {"aws", "gcp", "alibaba", "tencent", "azure", "ibm", "ncp", "nhn", "kt", "openstack"}
Methods == {"oidc", "saml", "key"}
\* The methods GetTemporaryCredentials knows for each cloud.
Supported ==
    (Clouds \X {"key"})
      \cup ({"aws", "gcp", "alibaba", "tencent"} \X {"oidc", "saml"})
      \cup ({"azure", "ibm"} \X {"oidc"})
\* Clouds for which no method means OIDC.
OidcByDefault == {"aws", "gcp", "alibaba"}
\* What needs settings of the CSP role or its IdP configuration.
NeedsSettings ==
    (Clouds \X {"key"})
      \cup ({"aws", "alibaba", "tencent"} \X {"saml"})
      \cup ({"azure", "tencent", "ibm"} \X {"oidc"})

ASSUME IssueAssumption ==
    /\ IssueCloud \in [IssueCsp -> Clouds]
    /\ "none" \notin WsRoles \cup IssueCsp

VARIABLES
    held,         \* mcmp_user_workspace_roles: the user's roles in the workspace
    mapped,       \* mcmp_role_csp_role_mappings: role, CSP role, method
    cspConfig,    \* what a CSP role's rows say, NoRow without a row
    issue         \* the requests in progress

issueVars == <<held, mapped, cspConfig, issue>>
issueTables == <<held, mapped, cspConfig>>

\* named: the two ARNs are there; settings: those its method needs are.
Config == [method : Methods \cup {"unset"}, named : BOOLEAN, settings : BOOLEAN]
NoRow == [method |-> "none", named |-> FALSE, settings |-> FALSE]
\* entitled: the CSP roles that were the user's at some moment until one is chosen;
\* late: those mapped to the role it has read after the user had lost that role.
IssueType ==
    [pc : {"idle", "role", "mapping", "load", "keycloak", "cloud", "issued"},
     cloud : Clouds \cup {"none"}, asked : Methods \cup {"none"},
     role : WsRoles \cup {"none"}, csp : IssueCsp \cup {"none"},
     method : Methods \cup {"none"},
     entitled : SUBSET IssueCsp, late : SUBSET IssueCsp]
NoIssue == [pc |-> "idle", cloud |-> "none", asked |-> "none", role |-> "none", csp |-> "none",
            method |-> "none", entitled |-> {}, late |-> {}]

IssueTypeOK ==
    /\ held \subseteq WsRoles
    /\ mapped \subseteq WsRoles \X IssueCsp \X Methods
    /\ cspConfig \in [IssueCsp -> Config \cup {NoRow}]
    /\ issue \in [IssueCalls -> IssueType]

IssueAt(c, pc) == issue[c].pc = pc
IssueGoes(c, next) == issue' = [issue EXCEPT ![c] = next]
Entitled(roles, maps) == {m[2] : m \in {n \in maps : n[1] \in roles}}

(***************************************************************************)
(* The request.                                                            *)
(***************************************************************************)
GetTemporaryCredentials(c, cloud, asked) ==
    /\ IssueAt(c, "idle")
    /\ IssueGoes(c, [NoIssue EXCEPT !.pc = "role", !.cloud = cloud, !.asked = asked,
                                    !.entitled = Entitled(held, mapped)])
    /\ UNCHANGED issueTables

\* First of the rows of the user: nothing orders those of one workspace.
FindUserRoleInWorkspace(c) ==
    /\ IssueAt(c, "role")
    /\ \E r \in held : IssueGoes(c, [issue[c] EXCEPT !.pc = "mapping", !.role = r])
    /\ UNCHANGED issueTables

Suits(c, m) ==
    /\ IssueCloud[m[2]] = issue[c].cloud
    /\ cspConfig[m[2]] # NoRow
    /\ issue[c].asked \in {"none", m[3]}

\* What led to the CSP role is used no more.
Chosen(c, k) == [issue[c] EXCEPT !.pc = "load", !.csp = k, !.asked = "none", !.role = "none",
                                 !.entitled = @ \cap {k}, !.late = @ \cap {k}]

\* Mutant: the condition on the role is dropped (csp_mapping_repository.go:32).
FindAnyMapping(c) ==
    /\ IssueAt(c, "mapping")
    /\ \E m \in mapped :
         Suits(c, m) /\ IssueGoes(c, Chosen(c, m[2]))
    /\ UNCHANGED issueTables

FindCspRoleMappingsByRoleIDAndCspType(c) ==
    /\ IssueAt(c, "mapping")
    /\ \E m \in mapped :
         /\ m[1] = issue[c].role /\ Suits(c, m)
         /\ IssueGoes(c, Chosen(c, m[2]))
    /\ UNCHANGED issueTables

\* The method is the one of the IdP configuration, whatever the mapping says.
Resolved(cloud, method) ==
    IF method = "unset" /\ cloud \in OidcByDefault THEN "oidc" ELSE method

LoadCspRole(c) ==
    LET config == cspConfig[issue[c].csp]
        cloud  == issue[c].cloud
        method == Resolved(cloud, config.method) IN
    /\ IssueAt(c, "load")
    /\ config.named
    /\ <<cloud, method>> \in Supported
    /\ <<cloud, method>> \in NeedsSettings => config.settings
    /\ IssueGoes(c, [issue[c] EXCEPT !.method = method,
                                     !.pc = IF method = "key" THEN "issued" ELSE "keycloak"])
    /\ UNCHANGED issueTables

\* A token of the service account, or a SAML assertion of the platform's
\* administrator: not the user's.
GetToken(c) ==
    /\ IssueAt(c, "keycloak")
    /\ IssueGoes(c, [issue[c] EXCEPT !.pc = "cloud"])
    /\ UNCHANGED issueTables

AssumeRole(c) ==
    /\ IssueAt(c, "cloud")
    /\ IssueGoes(c, [issue[c] EXCEPT !.pc = "issued"])
    /\ UNCHANGED issueTables

\* Nothing is found, a setting is missing, Keycloak or the cloud refuses; or the
\* answer has been given.
IssueEnds(c) ==
    /\ ~IssueAt(c, "idle") /\ IssueGoes(c, NoIssue)
    /\ UNCHANGED issueTables

(***************************************************************************)
(* What changes meanwhile.                                                 *)
(***************************************************************************)
Watch(roles, maps) ==
    issue' = [c \in IssueCalls |->
        IF issue[c].pc \in {"role", "mapping"}
        THEN [issue[c] EXCEPT
                !.entitled = @ \cup Entitled(roles, maps),
                !.late = @ \cup {m[2] : m \in {n \in maps \ mapped :
                                            n[1] = issue[c].role /\ n[1] \notin roles}}]
        ELSE issue[c]]

AssignWorkspaceRole(r) ==
    /\ r \notin held /\ held' = held \cup {r} /\ Watch(held', mapped)
    /\ UNCHANGED <<mapped, cspConfig>>

RemoveWorkspaceRole(r) ==
    /\ held' = held \ {r} /\ Watch(held', mapped)
    /\ UNCHANGED <<mapped, cspConfig>>

MapCspRole(r, k, method) ==
    /\ <<r, k, method>> \notin mapped
    /\ mapped' = mapped \cup {<<r, k, method>>} /\ Watch(held, mapped')
    /\ UNCHANGED <<held, cspConfig>>

UnmapCspRole(m) ==
    /\ mapped' = mapped \ {m} /\ Watch(held, mapped')
    /\ UNCHANGED <<held, cspConfig>>

Configure(k, config) ==
    /\ cspConfig' = [cspConfig EXCEPT ![k] = config]
    /\ UNCHANGED <<held, mapped, issue>>

IssueInit ==
    /\ held = {} /\ mapped = {}
    /\ cspConfig = [k \in IssueCsp |-> NoRow]
    /\ issue = [c \in IssueCalls |-> NoIssue]

IssueStep(c) ==
    \/ \E cloud \in Clouds, asked \in Methods \cup {"none"} :
         GetTemporaryCredentials(c, cloud, asked)
    \/ FindUserRoleInWorkspace(c) \/ FindCspRoleMappingsByRoleIDAndCspType(c)
    \/ LoadCspRole(c) \/ GetToken(c) \/ AssumeRole(c) \/ IssueEnds(c)

IssueNext ==
    \/ \E c \in IssueCalls : IssueStep(c)
    \/ \E r \in WsRoles : AssignWorkspaceRole(r) \/ RemoveWorkspaceRole(r)
    \/ \E r \in WsRoles, k \in IssueCsp, method \in Methods : MapCspRole(r, k, method)
    \/ \E m \in mapped : UnmapCspRole(m)
    \/ \E k \in IssueCsp, config \in Config \cup {NoRow} : Configure(k, config)

IssueSpec == IssueInit /\ [][IssueNext]_issueVars

----------------------------------------------------------------------------
(***************************************************************************)
(* A credential is given for a CSP role of the cloud that was asked for,   *)
(* which was the user's (mapped to a role he held) at some moment between  *)
(* his request and the answer; or it was mapped to the role the request    *)
(* had read just after the user lost that role.                            *)
(***************************************************************************)
IssuedWasEntitled ==
    \A c \in IssueCalls :
        IssueAt(c, "issued") =>
            /\ IssueCloud[issue[c].csp] = issue[c].cloud
            /\ issue[c].csp \in issue[c].entitled \cup issue[c].late
==============================================================================
