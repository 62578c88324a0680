-------------------------- MODULE AccountLifecycle --------------------------
(***************************************************************************)
(* What user_service.go promises about one account after another, seen     *)
(* without requests: a status never runs ahead of the login it stands for. *)
(* An account is marked INACTIVE or WITHDRAWN only once its login is shut, *)
(* ACTIVE again only once it is open, WITHDRAWN only when asked for and    *)
(* stripped of its role mappings, and removed only when stripped.          *)
(*                                                                         *)
(* UserAccount implements this specification when requests do not overlap, *)
(* whatever call of them fails.                                            *)
(***************************************************************************)
CONSTANTS KcIds, Ids, None

VARIABLES login, status, owner, maps

vars == <<login, status, owner, maps>>

Init ==
    /\ login = [k \in KcIds |-> "unused"]
    /\ status = [i \in Ids |-> "unborn"]
    /\ owner = [i \in Ids |-> None]
    /\ maps = [i \in Ids |-> {}]

Shut(k) == login[k] # "enabled"

\* Keycloak may open, shut, create and delete accounts on its own; an account
\* once deleted does not return.
ChangeLogin(k) ==
    /\ login[k] # "deleted"
    /\ \E state \in {"disabled", "enabled", "deleted"} : login' = [login EXCEPT ![k] = state]
    /\ UNCHANGED <<status, owner, maps>>

Mark(i, from, to) ==
    /\ status[i] \in from
    /\ status' = [status EXCEPT ![i] = to]
    /\ UNCHANGED <<login, owner, maps>>

Register(i, k) ==
    /\ status[i] = "unborn"
    /\ login[k] \in {"disabled", "enabled"}
    /\ status' = [status EXCEPT ![i] = "ACTIVE"]
    /\ owner' = [owner EXCEPT ![i] = k]
    /\ UNCHANGED <<login, maps>>

Ask(i) == Mark(i, {"ACTIVE"}, "WITHDRAWAL_REQUESTED")

Deactivate(i) ==
    /\ Mark(i, {"ACTIVE", "WITHDRAWAL_REQUESTED", "WITHDRAWN"}, "INACTIVE")
    /\ Shut(owner[i])

Reactivate(i) ==
    /\ Mark(i, {"INACTIVE"}, "ACTIVE")
    /\ login[owner[i]] = "enabled"

Withdraw(i) ==
    /\ Mark(i, {"WITHDRAWAL_REQUESTED"}, "WITHDRAWN")
    /\ Shut(owner[i])
    /\ maps[i] = {}

Remove(i) ==
    /\ maps[i] = {}
    /\ Mark(i, {"ACTIVE", "INACTIVE", "WITHDRAWAL_REQUESTED", "WITHDRAWN"}, "deleted")

\* One table at a time is granted in or emptied.
Grant(i) ==
    /\ status[i] \notin {"unborn", "deleted"}
    /\ \E kind \in {"platform", "workspace", "organization"} :
         maps' = [maps EXCEPT ![i] = @ \cup {kind}] \/ maps' = [maps EXCEPT ![i] = @ \ {kind}]
    /\ UNCHANGED <<login, status, owner>>

Next ==
    \/ \E k \in KcIds : ChangeLogin(k)
    \/ \E i \in Ids :
         \/ Ask(i) \/ Deactivate(i) \/ Reactivate(i) \/ Withdraw(i) \/ Remove(i) \/ Grant(i)
         \/ \E k \in KcIds : Register(i, k)

Spec == Init /\ [][Next]_vars
=============================================================================
