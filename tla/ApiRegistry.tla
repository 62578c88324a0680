----------------------------- MODULE ApiRegistry -----------------------------
(***************************************************************************)
(* The registry of the APIs of the other services, and the permissions.    *)
(* A service has one row (its name is the key, the version is a column),   *)
(* its actions, and in mcmp_api_service_meta the stamp of the document     *)
(* they came from.  A file or an import replaces all actions of a service  *)
(* in one transaction.  Permissions, their roles, their resource types and *)
(* their API actions refer to each other by value, without a foreign key.  *)
(*                                                                         *)
(* One service is modelled: nothing relates two.  A transaction shows in   *)
(* two steps: what its deletion sees, and its commit.  Postgres runs it    *)
(* at READ COMMITTED, so what others inserted after the first stays.       *)
(***************************************************************************)
EXTENDS Naturals, FiniteSets

CONSTANTS
    ApiFiles,         \* what api.yaml may be
    ApiSpecs,         \* what an import may be given
    ApiStamp,         \* the version and time of each of them; "none" in a file without _meta
    ApiActions,       \* the action names of each of them
    ApiVersions,
    Permissions, PermRoles, ResourceTypes,
    ApiGenerations,   \* bound: how often actions are replaced
    ApiCalls          \* bound: the requests that may overlap

ApiDocs == ApiFiles \cup ApiSpecs
ASSUME ApiAssumption ==
    /\ \A d \in ApiSpecs, e \in ApiDocs :
         ApiStamp[d] # "none" /\ (ApiStamp[d] = ApiStamp[e] => d = e)
    /\ ApiGenerations \in Nat /\ "none" \notin ApiVersions

VARIABLES
    service,       \* the row of the service: its version, and whether it is active
    actions,       \* mcmp_api_actions: <<generation, name>>, which stands for the id
    generation,
    stampOf,       \* mcmp_api_service_meta, "none" without a row
    apiCall,       \* the requests in progress
    perms, types,  \* the permissions and resource types there are
    permRoles,     \* mcmp_mciam_role_permissions
    permActions,   \* mcmp_api_permission_action_mappings
    loose          \* history: whether the stamp still tells of the actions

apiVars == <<service, actions, generation, stampOf, apiCall, perms, types, permRoles,
             permActions, loose>>
apiTable == <<service, actions, generation, stampOf, loose>>
permTable == <<perms, types, permRoles, permActions>>

ActionIds == (1..ApiGenerations) \X UNION {ApiActions[d] : d \in ApiDocs}
Stamps == {ApiStamp[d] : d \in ApiDocs} \cup {"none"}
NoApiCall == [op |-> "none", pc |-> "idle", doc |-> "none", seen |-> {}, version |-> "none",
              grant |-> <<>>]

ApiTypeOK ==
    /\ service \in [version : ApiVersions \cup {"none"}, active : BOOLEAN]
    /\ actions \subseteq ActionIds /\ generation \in 0..ApiGenerations
    /\ stampOf \in Stamps /\ loose \in {"no", "unstamped", "overlapped"}
    /\ perms \subseteq Permissions /\ types \subseteq ResourceTypes
    /\ permRoles \subseteq PermRoles \X Permissions
    /\ permActions \subseteq Permissions \X ActionIds
    /\ \A c \in ApiCalls :
         /\ apiCall[c].op \in {"none", "file", "import", "activate", "assign"}
         /\ apiCall[c].pc \in {"idle", "check", "replace", "commit", "raise", "insert"}
         /\ apiCall[c].doc \in ApiDocs \cup {"none"} /\ apiCall[c].seen \subseteq ActionIds

AtApi(c, pc) == apiCall[c].pc = pc
GoesOn(c, changed) == apiCall' = [apiCall EXCEPT ![c] = changed]
ApiEnds(c) == GoesOn(c, NoApiCall)
Stamped(c) == ApiStamp[apiCall[c].doc] # "none"

(***************************************************************************)
(* The file is applied when its stamp is not the one in the table, an      *)
(* import always.  Saving the stamp locks its row up to the commit.        *)
(***************************************************************************)
SyncMcmpAPIsFromYAML(c, d) ==
    /\ AtApi(c, "idle")
    /\ GoesOn(c, [NoApiCall EXCEPT !.op = "file", !.pc = "check", !.doc = d])
    /\ UNCHANGED <<apiTable, permTable>>

ShouldUpdateService(c) ==
    /\ AtApi(c, "check")
    /\ GoesOn(c, IF Stamped(c) /\ stampOf = ApiStamp[apiCall[c].doc] THEN NoApiCall
                 ELSE [apiCall[c] EXCEPT !.pc = "replace"])
    /\ UNCHANGED <<apiTable, permTable>>

ImportAPIs(c, d, v) ==
    /\ AtApi(c, "idle")
    /\ GoesOn(c, [NoApiCall EXCEPT !.op = "import", !.pc = "replace", !.doc = d, !.version = v])
    /\ UNCHANGED <<apiTable, permTable>>

Locked(c) == \E d \in ApiCalls \ {c} : AtApi(d, "commit") /\ Stamped(d)

\* Mutant: the stamp is saved last, so its row is not locked (mcmpapi_service.go:163).
DeleteUnlocked(c) ==
    /\ AtApi(c, "replace")
    /\ GoesOn(c, [apiCall[c] EXCEPT !.pc = "commit", !.seen = actions])
    /\ UNCHANGED <<apiTable, permTable>>

DeleteActionsByServiceName(c) ==
    /\ AtApi(c, "replace") /\ (Stamped(c) => ~Locked(c))
    /\ GoesOn(c, [apiCall[c] EXCEPT !.pc = "commit", !.seen = actions])
    /\ UNCHANGED <<apiTable, permTable>>

\* What the deletion did not see stays beside the new actions.
Alone(c) == \A d \in ApiCalls \ {c} : ~AtApi(d, "commit")
Clashes(c) == \E d \in ApiCalls \ {c} : AtApi(d, "commit") /\ ~(Stamped(c) /\ Stamped(d))
LooseAfter(c) ==
    CASE Clashes(c) -> "overlapped"
      [] Alone(c) /\ apiCall[c].seen = actions -> IF Stamped(c) THEN "no" ELSE "unstamped"
      [] OTHER -> loose

Replace(c, stamp) ==
    /\ AtApi(c, "commit") /\ generation < ApiGenerations
    /\ generation' = generation + 1
    /\ actions' = (actions \ apiCall[c].seen)
                     \cup ({generation + 1} \X ApiActions[apiCall[c].doc])
    /\ stampOf' = stamp
    /\ loose' = LooseAfter(c)
    /\ ApiEnds(c)
    /\ UNCHANGED permTable

\* Mutant: an import leaves the stamp of the file (mcmpapi_service.go:569).
ReplaceOnly(c) ==
    /\ Replace(c, IF Stamped(c) /\ apiCall[c].op = "file" THEN ApiStamp[apiCall[c].doc] ELSE stampOf)
    /\ service' = IF apiCall[c].version = "none" THEN service
                  ELSE [version |-> apiCall[c].version, active |-> TRUE]

\* An import with a base URL writes the row of the service as well.
ReplaceActions(c) ==
    /\ Replace(c, IF Stamped(c) THEN ApiStamp[apiCall[c].doc] ELSE stampOf)
    /\ service' = IF apiCall[c].version = "none" THEN service
                  ELSE [version |-> apiCall[c].version, active |-> TRUE]

(***************************************************************************)
(* The row of the service.  To activate a version is to shut whatever row  *)
(* there is and to open the one of that version.                           *)
(***************************************************************************)
CreateFrameworkService(v, active) ==
    /\ service.version = "none"
    /\ service' = [version |-> v, active |-> active]
    /\ UNCHANGED <<actions, generation, stampOf, loose, permTable, apiCall>>

UpdateFrameworkService(active) ==
    /\ service.version # "none"
    /\ service' = [service EXCEPT !.active = active]
    /\ UNCHANGED <<actions, generation, stampOf, loose, permTable, apiCall>>

SetActiveVersion(c, v) ==
    /\ AtApi(c, "idle")
    /\ service' = [service EXCEPT !.active = FALSE]
    /\ GoesOn(c, [NoApiCall EXCEPT !.op = "activate", !.pc = "raise", !.version = v])
    /\ UNCHANGED <<actions, generation, stampOf, loose, permTable>>

RaiseVersion(c) ==
    /\ AtApi(c, "raise")
    /\ service' = [service EXCEPT !.active = @ \/ service.version = apiCall[c].version]
    /\ ApiEnds(c)
    /\ UNCHANGED <<actions, generation, stampOf, loose, permTable>>

(***************************************************************************)
(* Permissions.  A permission may name a resource type that is not there;  *)
(* one that goes leaves what refers to it.  The existence of the role is   *)
(* not asked, that of the permission is, before the row is inserted.       *)
(***************************************************************************)
CreateResourceType(t) ==
    /\ t \notin types
    /\ types' = types \cup {t}
    /\ UNCHANGED <<apiTable, apiCall, perms, permRoles, permActions>>

DeleteResourceType(t) ==
    /\ t \in types
    /\ types' = types \ {t}
    /\ UNCHANGED <<apiTable, apiCall, perms, permRoles, permActions>>

CreateMcIamPermission(p) ==
    /\ p \notin perms
    /\ perms' = perms \cup {p}
    /\ UNCHANGED <<apiTable, apiCall, types, permRoles, permActions>>

DeleteMcIamPermission(p) ==
    /\ p \in perms
    /\ perms' = perms \ {p}
    /\ UNCHANGED <<apiTable, apiCall, types, permRoles, permActions>>

AssignMciamPermissionToRole(c, r, p) ==
    /\ AtApi(c, "idle") /\ p \in perms
    /\ GoesOn(c, [NoApiCall EXCEPT !.op = "assign", !.pc = "insert", !.grant = <<r, p>>])
    /\ UNCHANGED <<apiTable, permTable>>

InsertRolePermission(c) ==
    /\ AtApi(c, "insert") /\ apiCall[c].grant \notin permRoles
    /\ permRoles' = permRoles \cup {apiCall[c].grant}
    /\ ApiEnds(c)
    /\ UNCHANGED <<apiTable, perms, types, permActions>>

RemoveMciamPermissionFromRole(r, p) ==
    /\ <<r, p>> \in permRoles
    /\ permRoles' = permRoles \ {<<r, p>>}
    /\ UNCHANGED <<apiTable, apiCall, perms, types, permActions>>

\* The ids of actions are new after each replacement; mappings keep the old.
CreateMapping(p, a) ==
    /\ <<p, a>> \notin permActions
    /\ permActions' = permActions \cup {<<p, a>>}
    /\ UNCHANGED <<apiTable, apiCall, perms, types, permRoles>>

DeleteMapping(p, a) ==
    /\ <<p, a>> \in permActions
    /\ permActions' = permActions \ {<<p, a>>}
    /\ UNCHANGED <<apiTable, apiCall, perms, types, permRoles>>

\* An error, a roll-back, or the end of the process.
ApiStops(c) ==
    /\ ~AtApi(c, "idle")
    /\ ApiEnds(c)
    /\ UNCHANGED <<apiTable, permTable>>

ApiInit ==
    /\ service = [version |-> "none", active |-> FALSE]
    /\ actions = {} /\ generation = 0 /\ stampOf = "none" /\ loose = "no"
    /\ apiCall = [c \in ApiCalls |-> NoApiCall]
    /\ perms = {} /\ types = {} /\ permRoles = {} /\ permActions = {}

ApiCallStep(c) ==
    \/ \E d \in ApiFiles : SyncMcmpAPIsFromYAML(c, d)
    \/ \E d \in ApiSpecs, v \in ApiVersions \cup {"none"} : ImportAPIs(c, d, v)
    \/ ShouldUpdateService(c) \/ DeleteActionsByServiceName(c) \/ ReplaceActions(c)
    \/ \E v \in ApiVersions : SetActiveVersion(c, v)
    \/ RaiseVersion(c)
    \/ \E r \in PermRoles, p \in Permissions : AssignMciamPermissionToRole(c, r, p)
    \/ InsertRolePermission(c) \/ ApiStops(c)

ApiStep ==
    \/ \E v \in ApiVersions, active \in BOOLEAN : CreateFrameworkService(v, active)
    \/ \E active \in BOOLEAN : UpdateFrameworkService(active)

PermStep ==
    \/ \E t \in ResourceTypes : CreateResourceType(t) \/ DeleteResourceType(t)
    \/ \E p \in Permissions : CreateMcIamPermission(p) \/ DeleteMcIamPermission(p)
    \/ \E r \in PermRoles, p \in Permissions : RemoveMciamPermissionFromRole(r, p)
    \/ \E p \in Permissions, a \in actions : CreateMapping(p, a)
    \/ \E p \in Permissions, a \in ActionIds : DeleteMapping(p, a)

ApiNext == ApiStep \/ PermStep \/ \E c \in ApiCalls : ApiCallStep(c)
ApiSpec == ApiInit /\ [][ApiNext]_apiVars

----------------------------------------------------------------------------
(***************************************************************************)
(* A service has each of its actions once, however files and imports       *)
(* overlap, unless one of them was a file without _meta.                   *)
(***************************************************************************)
OneActionPerName ==
    loose # "overlapped" => \A a, b \in actions : a[2] = b[2] => a = b

(***************************************************************************)
(* The stamp, by which the next file is taken or left, is that of a        *)
(* document with just these actions, unless a file without _meta came      *)
(* later or at the same time.                                              *)
(***************************************************************************)
StampTellsActions ==
    loose = "no" /\ stampOf # "none" =>
        \E d \in ApiDocs : ApiStamp[d] = stampOf /\ {a[2] : a \in actions} = ApiActions[d]

(***************************************************************************)
(* What permission_repository.go says of the deletion of a permission: its *)
(* rows in mcmp_mciam_role_permissions go with it.                         *)
(***************************************************************************)
NoRoleKeepsDeleted == \A g \in permRoles : g[2] \in perms
==============================================================================
