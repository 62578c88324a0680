---------------------------- MODULE PlatformAccess ----------------------------
(***************************************************************************)
(* Who may do what: the access tokens Keycloak gives at a login or a       *)
(* refresh, and the middleware that reads them at each request.  A token   *)
(* carries the roles of the moment it was given; nothing asks Keycloak or  *)
(* the tables again until it ends.                                         *)
(*                                                                         *)
(* Requests are kept while they stand between two calls.  The signature    *)
(* and the rotation of the realm's keys, which only refuse more, are left  *)
(* out; so are the row SyncUser makes (UserAccount) and the tickets of     *)
(* workspaces, which no route reads.                                       *)
(***************************************************************************)
EXTENDS Naturals

CONSTANTS
    Visitors, Visits,       \* the users; bound: the requests that may overlap
    EnvLifespans,           \* what the setting may say, in units of time; 0: nothing usable
    LeastLifespan, DefaultLifespan,
    RealmLifespan,          \* of a realm that was made elsewhere
    AccessClockMax          \* bound: the moments looked at

ASSUME AccessAssumption ==
    /\ EnvLifespans \subseteq Nat
    /\ LeastLifespan \in Nat /\ DefaultLifespan \in Nat /\ RealmLifespan \in Nat
    /\ AccessClockMax \in Nat \ {0}

VARIABLES
    accessClock,
    tokenLifespan,          \* the realm's
    accountOpen,            \* the accounts that are enabled
    realmRoles,             \* the realm roles of each user
    accessTokens,           \* those the users hold, [user, has, till]
    sessions,               \* the users with a refresh token that Keycloak takes
    visit,                  \* where each request is, and the token it came or goes with
    lastHad                 \* history: when a user lost what he had, 0 for never

keycloakVars == <<tokenLifespan, accountOpen, realmRoles>>
accessVars == <<accessClock, keycloakVars, accessTokens, sessions, visit, lastHad>>

AccessTokenLifespanSec(raw) == IF raw < LeastLifespan THEN DefaultLifespan ELSE raw
Lifespans == {RealmLifespan} \cup {AccessTokenLifespanSec(raw) : raw \in EnvLifespans}

\* What a token says of its user: that there is an open account, and its roles.
AccessRoles == {"platformAdmin", "admin"}
Standing(open, roles, u) == IF u \in open THEN {"account"} \cup roles[u] ELSE {}
Standings == {"account"} \cup AccessRoles

AccessToken == [user : Visitors, has : SUBSET Standings, till : Nat]
NoVisit == [pc |-> "idle"]
VisitType == {NoVisit} \cup
    [pc : {"enabled", "validate", "read", "write", "manage"}, token : AccessToken]

AccessTypeOK ==
    /\ accessClock \in 1..AccessClockMax /\ tokenLifespan \in Lifespans
    /\ accountOpen \subseteq Visitors /\ realmRoles \in [Visitors -> SUBSET AccessRoles]
    /\ accessTokens \subseteq AccessToken /\ sessions \subseteq Visitors
    /\ visit \in [Visits -> VisitType]
    /\ lastHad \in [Visitors -> [Standings -> 0..AccessClockMax]]

VisitAt(v, pc) == visit[v].pc = pc
Comes(v, pc, token) == visit' = [visit EXCEPT ![v] = [pc |-> pc, token |-> token]]
VisitEnds(v) == visit' = [visit EXCEPT ![v] = NoVisit]

----------------------------------------------------------------------------
\* Keycloak: a token for an account that is open.
NewToken(u) ==
    [user |-> u, has |-> Standing(accountOpen, realmRoles, u), till |-> accessClock + tokenLifespan]
Granted(token) ==
    /\ accessTokens' = accessTokens \cup {token}
    /\ sessions' = sessions \cup {token.user}

Login(v, u) ==
    /\ VisitAt(v, "idle") /\ u \in accountOpen
    /\ Comes(v, "enabled", NewToken(u))
    /\ UNCHANGED <<accessClock, keycloakVars, accessTokens, sessions, lastHad>>

\* The account is looked at once more before the token is handed out.
AnswerLogin(v) ==
    /\ VisitAt(v, "enabled") /\ visit[v].token.user \in accountOpen
    /\ Granted(visit[v].token) /\ VisitEnds(v)
    /\ UNCHANGED <<accessClock, keycloakVars, lastHad>>

RefreshToken(u) ==
    /\ u \in sessions \cap accountOpen /\ Granted(NewToken(u))
    /\ UNCHANGED <<accessClock, keycloakVars, visit, lastHad>>

----------------------------------------------------------------------------
\* The roles that open a route of each level; "account" stands for any token.
Permits(level) ==
    CASE level = "read" -> Standings
      [] level = "write" -> AccessRoles
      [] level = "manage" -> {"platformAdmin"}

Good(token) == accessClock < token.till

\* Mutant: the token is read as GetMapClaimsFromContext reads it (util/jwt_util.go:26).
AuthMiddlewareUnverified(token) == TRUE

AuthMiddleware(token) == Good(token)

PlatformRoleMiddleware(v, token, level) ==
    /\ VisitAt(v, "idle") /\ AuthMiddleware(token)
    /\ token.has \cap Permits(level) # {}
    /\ Comes(v, level, token)
    /\ UNCHANGED <<accessClock, keycloakVars, accessTokens, sessions, lastHad>>

\* The route has a middleware before it like any other; what it renews is a token
\* that ends between the two looks at it.
Validate(v, token) ==
    /\ VisitAt(v, "idle") /\ AuthMiddleware(token) /\ Comes(v, "validate", token)
    /\ UNCHANGED <<accessClock, keycloakVars, accessTokens, sessions, lastHad>>

\* Nobody compares the users of the two tokens the request brings.
AnswerValidate(v, u) ==
    /\ VisitAt(v, "validate") /\ ~Good(visit[v].token)
    /\ u \in sessions \cap accountOpen /\ Granted(NewToken(u))
    /\ VisitEnds(v)
    /\ UNCHANGED <<accessClock, keycloakVars, lastHad>>

\* A handler has run, a refusal, an error.
VisitStops(v) ==
    /\ ~VisitAt(v, "idle") /\ VisitEnds(v)
    /\ UNCHANGED <<accessClock, keycloakVars, accessTokens, sessions, lastHad>>

----------------------------------------------------------------------------
\* Administrators, by whatever operation: what a user loses now he had till now.
KeycloakChanges(open, roles) ==
    /\ accountOpen' = open /\ realmRoles' = roles
    /\ lastHad' = [u \in Visitors |-> [x \in Standings |->
                     IF x \in Standing(accountOpen, realmRoles, u) \ Standing(open, roles, u)
                     THEN accessClock ELSE lastHad[u][x]]]
    /\ UNCHANGED <<accessClock, tokenLifespan, accessTokens, sessions, visit>>

RealmRoleAdded(u, n) ==
    KeycloakChanges(accountOpen, [realmRoles EXCEPT ![u] = @ \cup {n}])
RealmRoleRemoved(u, n) ==
    KeycloakChanges(accountOpen, [realmRoles EXCEPT ![u] = @ \ {n}])
EnableUser(u) == KeycloakChanges(accountOpen \cup {u}, realmRoles)
DisableUser(u) == KeycloakChanges(accountOpen \ {u}, realmRoles)

\* The set-up, by a process whose setting is raw.
EnsureAccessTokenLifespan(raw) ==
    /\ tokenLifespan' = AccessTokenLifespanSec(raw)
    /\ UNCHANGED <<accessClock, accountOpen, realmRoles, accessTokens, sessions, visit, lastHad>>

SessionEnds(u) ==
    /\ u \in sessions /\ sessions' = sessions \ {u}
    /\ UNCHANGED <<accessClock, keycloakVars, accessTokens, visit, lastHad>>

Tick ==
    /\ accessClock < AccessClockMax /\ accessClock' = accessClock + 1
    /\ UNCHANGED <<keycloakVars, accessTokens, sessions, visit, lastHad>>

AccessInit ==
    /\ accessClock = 1 /\ tokenLifespan = RealmLifespan
    /\ accountOpen = Visitors /\ realmRoles = [u \in Visitors |-> {}]
    /\ accessTokens = {} /\ sessions = {} /\ visit = [v \in Visits |-> NoVisit]
    /\ lastHad = [u \in Visitors |-> [x \in Standings |-> 0]]

AccessNext ==
    \/ \E v \in Visits :
         \/ \E u \in Visitors : Login(v, u) \/ AnswerValidate(v, u)
         \/ AnswerLogin(v) \/ VisitStops(v)
         \/ \E token \in accessTokens :
              \/ Validate(v, token)
              \/ \E level \in {"read", "write", "manage"} : PlatformRoleMiddleware(v, token, level)
    \/ \E u \in Visitors : RefreshToken(u) \/ EnableUser(u) \/ DisableUser(u) \/ SessionEnds(u)
    \/ \E u \in Visitors, n \in AccessRoles : RealmRoleAdded(u, n) \/ RealmRoleRemoved(u, n)
    \/ \E raw \in EnvLifespans : EnsureAccessTokenLifespan(raw)
    \/ Tick

AccessSpec == AccessInit /\ [][AccessNext]_accessVars

----------------------------------------------------------------------------
(***************************************************************************)
(* Who is let in had a role that opens the route (any open account one for *)
(* reading), with an open account, less than the longest life of a token   *)
(* ago.  A role that is taken away, or an account that is closed, works on *)
(* for that long and no longer, however the user refreshes.                *)
(***************************************************************************)
HadLately(u, x) ==
    \/ x \in Standing(accountOpen, realmRoles, u)
    \/ lastHad[u][x] # 0 /\ \E life \in Lifespans : accessClock < lastHad[u][x] + life
AdmittedHadRole ==
    [][\A v \in Visits : \A level \in {"read", "write", "manage"} :
          VisitAt(v, "idle") /\ visit'[v].pc = level =>
              \E x \in Permits(level) : HadLately(visit'[v].token.user, x)]_accessVars
==============================================================================
