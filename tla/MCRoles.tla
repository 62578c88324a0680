------------------------------- MODULE MCRoles -------------------------------
(***************************************************************************)
(* Three runs in one: part "roles" is RoleMaster alone, where two requests *)
(* overlap; part "grants" is RoleGrant, where calls to Keycloak overlap    *)
(* with each other and with requests; part "access" is PlatformAccess.     *)
(***************************************************************************)
EXTENDS RoleGrant, PlatformAccess, TLC

VARIABLE part

\* Keycloak has a realm role of its own, nMore, and nAdmin is part of its name.
CONSTANTS admin, r2, nAdmin, nMore

MCInitialName == [r \in Roles |-> IF r = admin THEN nAdmin ELSE None]
MCInitialSubs == {<<admin, "platform">>}
MCAskTypes == {{"platform"}, {"workspace", "csp"}}
MCContaining == {<<n, n>> : n \in RealmNames} \cup {<<nAdmin, nMore>>}

RolesVars == <<part, allVars, accessVars>>
RolesInit == part \in {"roles", "grants", "access"} /\ GrantInit /\ AccessInit
RolesNext ==
    /\ UNCHANGED part
    /\ \/ part = "roles" /\ RoleNext /\ UNCHANGED <<grantVars, accessVars>>
       \/ part = "grants" /\ GrantNext /\ UNCHANGED accessVars
       \/ part = "access" /\ AccessNext /\ UNCHANGED allVars
RolesSpec == RolesInit /\ [][RolesNext]_RolesVars

SlotSymmetry == Permutations(Calls) \cup Permutations(Requests)

RolesTypeOK == TypeOK /\ GrantTypeOK /\ AccessTypeOK

(***************************************************************************)
(* Bounds.                                                                 *)
(***************************************************************************)
Busy == {q \in Requests : req[q].op # "none"}

\* Roles: two requests overlap when one of them deletes; the role that is made
\* under the name of the deleted one ends the behaviour.
Overlaps(p, q) ==
    \/ /\ req[p].op \in {"delete", "deleteTyped", "deleteCsp"}
       /\ req[q].op \in {"map", "assign", "change"}
    \/ req[p].op = "delete" /\ req[q].op = "deleteTyped"
RoleBound ==
    /\ r2 \notin drawn
    /\ holds \cup members \subseteq Groups \X Roles
    /\ \A q \in Requests : req[q].holder \in Groups \cup {None}
    /\ Cardinality(Busy) = 2 => \E p, q \in Busy : Overlaps(p, q)

\* Grants: one role, no mappings, and two calls or requests at once.
GrantBound ==
    /\ drawn = {admin} /\ menus = {} /\ csp = {} /\ members = {}
    /\ \A r \in subs : r[2] = "platform"
    /\ \A q \in Requests :
         /\ req[q].op \in {"none", "updateTyped", "assign", "deleteTyped"}
         /\ req[q].types \subseteq {"platform"}
    /\ Cardinality({k \in Calls : ~CallAt(k, "idle")}) + Cardinality(Busy) <= 2

\* Access: two tokens while there is one role; a second role while the account is open.
AdminUsed(u) ==
    lastHad[u]["admin"] # 0 \/ "admin" \in realmRoles[u] \cup UNION {t.has : t \in accessTokens}
AccessBound ==
    \A u \in Visitors :
        IF AdminUsed(u) THEN Cardinality(accessTokens) <= 1 /\ lastHad[u]["account"] = 0
        ELSE Cardinality(accessTokens) <= 2

RolesBound ==
    /\ part = "roles" => RoleBound
    /\ part = "grants" => GrantBound
    /\ part = "access" => AccessBound
===============================================================================
