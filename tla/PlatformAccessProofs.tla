------------------------- MODULE PlatformAccessProofs -------------------------
(***************************************************************************)
(* Who is let in had a role for it lately, for any setting of the life of  *)
(* a token and any order of logins, refreshes and changes of roles.  At    *)
(* the end, the types of roles, grants and tokens beside each other.       *)
(***************************************************************************)
EXTENDS MCRoles, RoleProofs, TLAPS

(***************************************************************************)
(* What a token says is true, or was till a moment from which the token    *)
(* has no more than its life left; and it ends within a life from now.     *)
(***************************************************************************)
HadTill(token, x) ==
    \/ x \in Standing(accountOpen, realmRoles, token.user)
    \/ lastHad[token.user][x] # 0 /\ \E life \in Lifespans : token.till <= lastHad[token.user][x] + life
Speaks(token) ==
    /\ \E life \in Lifespans : token.till <= accessClock + life
    /\ \A x \in token.has : HadTill(token, x)
TokensSpeak ==
    /\ \A token \in accessTokens : Speaks(token)
    /\ \A v \in Visits : ~VisitAt(v, "idle") => Speaks(visit[v].token)
AccessInv == AccessTypeOK /\ TokensSpeak

Places == {"enabled", "validate", "read", "write", "manage"}

LEMMA LivesAreNumbers == Lifespans \subseteq Nat
  BY AccessAssumption DEF Lifespans, AccessTokenLifespanSec

LEMMA AccessInitially == AccessInit => AccessInv
  BY AccessAssumption
  DEF AccessInit, AccessInv, AccessTypeOK, TokensSpeak, Lifespans, VisitAt, VisitType, NoVisit

\* A token in hand, while time passes and the users keep what they have.
LEMMA TimePasses ==
  ASSUME AccessTypeOK, NEW token \in AccessToken, Speaks(token),
         UNCHANGED <<accountOpen, realmRoles, lastHad>>,
         accessClock' \in {accessClock, accessClock + 1}
  PROVE  Speaks(token)'
<1>1. PICK life \in Lifespans : token.till <= accessClock + life
  BY DEF Speaks
<1>2. token.till <= accessClock' + life
  BY <1>1, LivesAreNumbers DEF AccessTypeOK, AccessToken
<1>3. \A x \in token.has : HadTill(token, x)'
  BY DEF Speaks, HadTill, Standing
<1> QED
  BY <1>2, <1>3 DEF Speaks

\* A token in hand, while the users are given and deprived of roles.
LEMMA RolesChange ==
  ASSUME AccessTypeOK, NEW token \in AccessToken, Speaks(token),
         NEW open, NEW roles, KeycloakChanges(open, roles)
  PROVE  Speaks(token)'
<1> DEFINE u == token.user
<1>1. PICK life \in Lifespans : token.till <= accessClock + life
  BY DEF Speaks
<1>2. /\ accountOpen' = open /\ realmRoles' = roles /\ accessClock' = accessClock
      /\ u \in Visitors /\ token.has \subseteq Standings
  BY DEF KeycloakChanges, AccessToken
<1>3. ASSUME NEW x \in token.has PROVE HadTill(token, x)'
  <2>1. lastHad'[u][x] = IF x \in Standing(accountOpen, realmRoles, u) \ Standing(open, roles, u)
                         THEN accessClock ELSE lastHad[u][x]
    BY <1>2 DEF KeycloakChanges
  <2>2. accessClock # 0
    BY DEF AccessTypeOK
  <2>3. HadTill(token, x)
    BY DEF Speaks
  <2>4. CASE x \in Standing(open, roles, u)
    BY <1>2, <2>4 DEF HadTill, Standing
  <2>5. CASE x \notin Standing(open, roles, u)
    BY <1>1, <2>1, <2>2, <2>3, <2>5 DEF HadTill
  <2> QED
    BY <2>4, <2>5
<1> QED
  BY <1>1, <1>2, <1>3 DEF Speaks

LEMMA NewTokenSpeaks ==
  ASSUME AccessTypeOK, NEW u \in Visitors
  PROVE  NewToken(u) \in AccessToken /\ Speaks(NewToken(u))
<1>1. /\ NewToken(u).user = u /\ NewToken(u).has = Standing(accountOpen, realmRoles, u)
      /\ NewToken(u).till = accessClock + tokenLifespan
  BY DEF NewToken
<1>2. accessClock + tokenLifespan \in Nat /\ Standing(accountOpen, realmRoles, u) \subseteq Standings
  BY LivesAreNumbers DEF AccessTypeOK, Standing, Standings
<1>3. NewToken(u) \in AccessToken
  BY <1>2 DEF NewToken, AccessToken
<1>4. NewToken(u).till <= accessClock + tokenLifespan /\ tokenLifespan \in Lifespans
  BY <1>1, <1>2 DEF AccessTypeOK
<1> HIDE DEF NewToken
<1> QED
  BY <1>1, <1>3, <1>4 DEF Speaks, HadTill

\* A step of the users or of a request: the tokens after it are those before, and some
\* that speak.
LEMMA TokensMove ==
  ASSUME AccessInv, NEW given \in SUBSET AccessToken, \A t \in given : Speaks(t),
         UNCHANGED <<accountOpen, realmRoles, lastHad>>,
         accessClock' \in {accessClock, accessClock + 1},
         accessClock' \in 1..AccessClockMax, tokenLifespan' \in Lifespans,
         accessTokens' \subseteq accessTokens \cup given, sessions' \subseteq Visitors,
         \/ visit' = visit
         \/ \E v \in Visits : \/ VisitEnds(v)
                              \/ \E pc \in Places, token \in given : Comes(v, pc, token)
  PROVE  AccessInv'
<1>t. AccessTypeOK /\ visit \in [Visits -> VisitType] /\ accessTokens \subseteq AccessToken
  BY DEF AccessInv, AccessTypeOK
<1>1. \A t \in AccessToken : Speaks(t) => Speaks(t)'
  BY <1>t, TimePasses
<1>2. \A v \in Visits : \/ visit'[v] = visit[v] \/ visit'[v] = NoVisit
                        \/ \E pc \in Places, token \in given :
                              visit'[v] = [pc |-> pc, token |-> token]
  BY <1>t DEF VisitEnds, Comes
<1>3. visit' \in [Visits -> VisitType]
  <2>1. visit' = visit \/ \E v \in Visits, r \in VisitType : visit' = [visit EXCEPT ![v] = r]
    BY DEF VisitEnds, Comes, VisitType, Places
  <2> QED
    BY <1>t, <2>1
<1>4. AccessTypeOK'
  BY <1>t, <1>3 DEF AccessTypeOK
<1>5. ASSUME NEW v \in Visits, visit'[v].pc # "idle" PROVE Speaks(visit[v].token)'
  <2>1. CASE visit'[v] = visit[v]
    <3>1. Speaks(visit[v].token) /\ visit[v].token \in AccessToken
      BY <1>t, <1>5, <2>1 DEF AccessInv, TokensSpeak, VisitAt, VisitType, NoVisit
    <3>2. \A t : t = visit'[v].token => (Speaks(t)' <=> Speaks(visit[v].token)')
      BY DEF Speaks, HadTill
    <3> QED
      BY <1>1, <2>1, <3>1, <3>2
  <2>2. CASE visit'[v].token \in given
    <3>1. \A t : t = visit'[v].token => (Speaks(t)' <=> Speaks(visit[v].token)')
      BY DEF Speaks, HadTill
    <3> QED
      BY <1>1, <2>2, <3>1
  <2>3. visit'[v] # NoVisit
    BY <1>5 DEF NoVisit
  <2>4. CASE \E pc \in Places, token \in given : visit'[v] = [pc |-> pc, token |-> token]
    <3>1. PICK pc \in Places, token \in given : visit'[v] = [pc |-> pc, token |-> token]
      BY <2>4
    <3>2. visit'[v].token = token
      BY <3>1
    <3> QED
      BY <2>2, <3>2
  <2> QED
    BY <1>2, <2>1, <2>3, <2>4
<1>6. \A t \in accessTokens' : Speaks(t)'
  BY <1>1, <1>t DEF AccessInv, TokensSpeak
<1> QED
  BY <1>4, <1>5, <1>6 DEF AccessInv, TokensSpeak, VisitAt

LEMMA OneTokenMoves ==
  ASSUME AccessInv, NEW token \in AccessToken, Speaks(token),
         UNCHANGED <<accountOpen, realmRoles, lastHad, accessClock, tokenLifespan>>,
         accessTokens' \subseteq accessTokens \cup {token}, sessions' \subseteq Visitors,
         \/ visit' = visit
         \/ \E v \in Visits : VisitEnds(v) \/ \E pc \in Places : Comes(v, pc, token)
  PROVE  AccessInv'
<1> DEFINE given == {token}
<1>1. given \in SUBSET AccessToken /\ \A t \in given : Speaks(t)
  OBVIOUS
<1>2. \/ visit' = visit
      \/ \E v \in Visits : VisitEnds(v) \/ \E pc \in Places, t \in given : Comes(v, pc, t)
  OBVIOUS
<1>3. /\ accessClock' = accessClock /\ accessClock \in 1..AccessClockMax
      /\ tokenLifespan' \in Lifespans /\ accessTokens' \subseteq accessTokens \cup given
  BY DEF AccessInv, AccessTypeOK
<1> HIDE DEF given
<1> QED
  BY <1>1, <1>2, <1>3, TokensMove

LEMMA RolesKeepInv ==
  ASSUME AccessInv, NEW open \in SUBSET Visitors, NEW roles \in [Visitors -> SUBSET AccessRoles],
         KeycloakChanges(open, roles)
  PROVE  AccessInv'
<1>t. AccessTypeOK
  BY DEF AccessInv
<1>1. \A t \in AccessToken : Speaks(t) => Speaks(t)'
  BY <1>t, RolesChange
<1>2. accessTokens' = accessTokens /\ visit' = visit
  BY DEF KeycloakChanges
<1>3. lastHad' \in [Visitors -> [Standings -> 0..AccessClockMax]]
  BY <1>t DEF KeycloakChanges, AccessTypeOK
<1>4. AccessTypeOK'
  BY <1>t, <1>3 DEF KeycloakChanges, AccessTypeOK
<1>5. ASSUME NEW v \in Visits, visit[v].pc # "idle" PROVE Speaks(visit[v].token)'
  <2>1. Speaks(visit[v].token) /\ visit[v].token \in AccessToken
    BY <1>t, <1>5 DEF AccessInv, AccessTypeOK, TokensSpeak, VisitAt, VisitType, NoVisit
  <2>2. \A t : t = visit[v].token => (Speaks(t)' <=> Speaks(visit[v].token)')
    BY <1>2 DEF Speaks, HadTill
  <2> QED
    BY <1>1, <2>1, <2>2
<1>6. \A t \in accessTokens : Speaks(t)'
  BY <1>1, <1>t DEF AccessInv, AccessTypeOK, TokensSpeak
<1> QED
  BY <1>2, <1>4, <1>5, <1>6 DEF AccessInv, TokensSpeak, VisitAt

LEMMA AccessStep == AccessInv /\ [AccessNext]_accessVars => AccessInv'
<1> SUFFICES ASSUME AccessInv, [AccessNext]_accessVars PROVE AccessInv'
  OBVIOUS
<1>t. AccessTypeOK /\ TokensSpeak
  BY DEF AccessInv
<1>a. \A t \in accessTokens : t \in AccessToken /\ t.user \in Visitors /\ Speaks(t)
  BY <1>t DEF AccessTypeOK, TokensSpeak, AccessToken
<1>b. \A v \in Visits : ~VisitAt(v, "idle") =>
          /\ visit[v].token \in AccessToken /\ visit[v].token.user \in Visitors
          /\ Speaks(visit[v].token)
  BY <1>t DEF AccessTypeOK, TokensSpeak, VisitAt, VisitType, NoVisit, AccessToken
<1>n. \A u \in Visitors : /\ NewToken(u) \in AccessToken /\ Speaks(NewToken(u))
                          /\ NewToken(u).user = u
  BY <1>t, NewTokenSpeaks DEF NewToken
<1>c. /\ accessClock \in Nat /\ accessClock \in 1..AccessClockMax
      /\ sessions \subseteq Visitors /\ tokenLifespan \in Lifespans
  BY <1>t DEF AccessTypeOK
<1> USE DEF Granted, keycloakVars
<1>1. ASSUME NEW v \in Visits, NEW u \in Visitors, Login(v, u) PROVE AccessInv'
  <2>1. /\ Comes(v, "enabled", NewToken(u)) /\ UNCHANGED <<accountOpen, realmRoles, lastHad>>
        /\ UNCHANGED <<accessClock, tokenLifespan, accessTokens, sessions>>
    BY <1>1 DEF Login
  <2>2. \E pc \in Places : Comes(v, pc, NewToken(u))
    BY <2>1 DEF Places
  <2> QED
    BY <1>c, <1>n, <2>1, <2>2, OneTokenMoves
<1>2. ASSUME NEW v \in Visits, AnswerLogin(v) PROVE AccessInv'
  <2> DEFINE token == visit[v].token
  <2>1. /\ ~VisitAt(v, "idle") /\ VisitEnds(v) /\ UNCHANGED <<accountOpen, realmRoles, lastHad>>
        /\ UNCHANGED <<accessClock, tokenLifespan>>
        /\ accessTokens' = accessTokens \cup {token} /\ sessions' = sessions \cup {token.user}
    BY <1>2 DEF AnswerLogin, VisitAt
  <2>2. token \in AccessToken /\ token.user \in Visitors /\ Speaks(token)
    BY <1>b, <2>1
  <2> QED
    BY <1>c, <2>1, <2>2, OneTokenMoves
<1>3. ASSUME NEW u \in Visitors, RefreshToken(u) PROVE AccessInv'
  <2>1. /\ visit' = visit /\ UNCHANGED <<accountOpen, realmRoles, lastHad>>
        /\ UNCHANGED <<accessClock, tokenLifespan>>
        /\ accessTokens' = accessTokens \cup {NewToken(u)}
        /\ sessions' = sessions \cup {NewToken(u).user}
    BY <1>3 DEF RefreshToken
  <2> QED
    BY <1>c, <1>n, <2>1, OneTokenMoves
<1>4. ASSUME NEW v \in Visits, NEW token \in accessTokens, NEW pc \in Places,
             Comes(v, pc, token),
             UNCHANGED <<accessClock, keycloakVars, accessTokens, sessions, lastHad>>
      PROVE  AccessInv'
  BY <1>4, <1>a, <1>c, OneTokenMoves
<1>5. ASSUME NEW v \in Visits, NEW u \in Visitors, AnswerValidate(v, u) PROVE AccessInv'
  <2>1. /\ VisitEnds(v) /\ UNCHANGED <<accountOpen, realmRoles, lastHad>>
        /\ UNCHANGED <<accessClock, tokenLifespan>>
        /\ accessTokens' = accessTokens \cup {NewToken(u)}
        /\ sessions' = sessions \cup {NewToken(u).user}
    BY <1>5 DEF AnswerValidate
  <2> QED
    BY <1>c, <1>n, <2>1, OneTokenMoves
<1>6. ASSUME UNCHANGED <<accountOpen, realmRoles, lastHad, accessTokens>>,
             accessClock' \in {accessClock, accessClock + 1},
             accessClock' \in 1..AccessClockMax, tokenLifespan' \in Lifespans,
             sessions' \subseteq Visitors,
             visit' = visit \/ \E v \in Visits : VisitEnds(v)
      PROVE  AccessInv'
  <2>1. {} \in SUBSET AccessToken /\ \A t \in {} : Speaks(t)
    OBVIOUS
  <2> QED
    BY <1>6, <2>1, TokensMove
<1>7. ASSUME NEW open \in SUBSET Visitors, NEW roles \in [Visitors -> SUBSET AccessRoles],
             KeycloakChanges(open, roles)
      PROVE  AccessInv'
  BY <1>7, RolesKeepInv
<1>8. CASE \E v \in Visits : \/ \E u \in Visitors : Login(v, u) \/ AnswerValidate(v, u)
                             \/ AnswerLogin(v) \/ VisitStops(v)
  <2>1. ASSUME NEW v \in Visits, VisitStops(v) PROVE AccessInv'
    BY <1>6, <1>c, <2>1 DEF VisitStops
  <2> QED
    BY <1>1, <1>2, <1>5, <1>8, <2>1
<1>9. CASE \E v \in Visits, token \in accessTokens :
             \/ Validate(v, token)
             \/ \E level \in {"read", "write", "manage"} : PlatformRoleMiddleware(v, token, level)
  BY <1>4, <1>9 DEF Validate, PlatformRoleMiddleware, Places
<1>10. CASE \E u \in Visitors : RefreshToken(u) \/ SessionEnds(u)
  <2>1. ASSUME NEW u \in Visitors, SessionEnds(u) PROVE AccessInv'
    BY <1>6, <1>c, <2>1 DEF SessionEnds
  <2> QED
    BY <1>3, <1>10, <2>1
<1>11. CASE \/ \E u \in Visitors : EnableUser(u) \/ DisableUser(u)
            \/ \E u \in Visitors, n \in AccessRoles : RealmRoleAdded(u, n) \/ RealmRoleRemoved(u, n)
  <2>1. accountOpen \subseteq Visitors /\ realmRoles \in [Visitors -> SUBSET AccessRoles]
    BY <1>t DEF AccessTypeOK
  <2>2. \E open \in SUBSET Visitors, roles \in [Visitors -> SUBSET AccessRoles] :
           KeycloakChanges(open, roles)
    <3>1. ASSUME NEW u \in Visitors PROVE accountOpen \cup {u} \in SUBSET Visitors
                                        /\ accountOpen \ {u} \in SUBSET Visitors
      BY <2>1
    <3>2. ASSUME NEW u \in Visitors, NEW n \in AccessRoles
          PROVE  /\ [realmRoles EXCEPT ![u] = @ \cup {n}] \in [Visitors -> SUBSET AccessRoles]
                 /\ [realmRoles EXCEPT ![u] = @ \ {n}] \in [Visitors -> SUBSET AccessRoles]
      BY <2>1
    <3> QED
      BY <1>11, <2>1, <3>1, <3>2 DEF EnableUser, DisableUser, RealmRoleAdded, RealmRoleRemoved
  <2> QED
    BY <1>7, <2>2
<1>12. CASE \E raw \in EnvLifespans : EnsureAccessTokenLifespan(raw)
  BY <1>6, <1>12, <1>c DEF EnsureAccessTokenLifespan, Lifespans
<1>13. CASE Tick
  <2>1. accessClock' \in 1..AccessClockMax
    BY <1>13, <1>c, AccessAssumption DEF Tick
  <2> QED
    BY <1>6, <1>13, <1>c, <2>1 DEF Tick
<1>14. CASE UNCHANGED accessVars
  BY <1>6, <1>14, <1>c DEF accessVars
<1> QED
  BY <1>8, <1>9, <1>10, <1>11, <1>12, <1>13, <1>14 DEF AccessNext

(***************************************************************************)
(* Whoever the middleware lets in has a role that opens the route, or lost *)
(* it less than a life of a token ago: a step of the middleware takes a    *)
(* good token, and TokensSpeak says what a token is worth.                 *)
(***************************************************************************)
LEMMA AdmissionStep ==
  ASSUME AccessInv, [AccessNext]_accessVars, NEW v \in Visits,
         NEW level \in {"read", "write", "manage"}, VisitAt(v, "idle"), visit'[v].pc = level
  PROVE  \E x \in Permits(level) : HadLately(visit'[v].token.user, x)
<1>t. visit \in [Visits -> VisitType] /\ accessTokens \subseteq AccessToken /\ accessClock \in Nat
      /\ lastHad \in [Visitors -> [Standings -> 0..AccessClockMax]]
  BY DEF AccessInv, AccessTypeOK
<1>1. PICK token \in accessTokens : PlatformRoleMiddleware(v, token, level)
  <2>1. \A w \in Visits : VisitEnds(w) => visit'[v].pc # level
    BY <1>t DEF VisitEnds, VisitAt, NoVisit
  <2>2. \A w \in Visits, pc \in {"enabled", "validate"} : \A t : Comes(w, pc, t) => visit'[v].pc # level
    BY <1>t DEF Comes, VisitAt
  <2>3. visit' # visit
    BY DEF VisitAt
  <2>4. \/ visit' = visit
        \/ \E w \in Visits : \/ VisitEnds(w)
                             \/ \E pc \in {"enabled", "validate"} : \E t : Comes(w, pc, t)
                             \/ \E t \in accessTokens, l \in {"read", "write", "manage"} :
                                   PlatformRoleMiddleware(w, t, l)
    <3>1. CASE \/ UNCHANGED accessVars \/ Tick
               \/ \E u \in Visitors : RefreshToken(u) \/ EnableUser(u) \/ DisableUser(u) \/ SessionEnds(u)
               \/ \E u \in Visitors, n \in AccessRoles : RealmRoleAdded(u, n) \/ RealmRoleRemoved(u, n)
               \/ \E raw \in EnvLifespans : EnsureAccessTokenLifespan(raw)
      BY <3>1
      DEF accessVars, Tick, RefreshToken, EnableUser, DisableUser, SessionEnds, RealmRoleAdded,
          RealmRoleRemoved, KeycloakChanges, EnsureAccessTokenLifespan
    <3>2. CASE \E w \in Visits : \/ \E u \in Visitors : Login(w, u) \/ AnswerValidate(w, u)
                                 \/ AnswerLogin(w) \/ VisitStops(w)
                                 \/ \E t \in accessTokens : Validate(w, t)
      BY <3>2 DEF Login, AnswerLogin, AnswerValidate, VisitStops, Validate
    <3>3. CASE \E w \in Visits, t \in accessTokens, l \in {"read", "write", "manage"} :
                  PlatformRoleMiddleware(w, t, l)
      BY <3>3
    <3> QED
      BY <3>1, <3>2, <3>3 DEF AccessNext
  <2> QED
    <3>1. PICK w \in Visits, t \in accessTokens, l \in {"read", "write", "manage"} :
              PlatformRoleMiddleware(w, t, l)
      BY <2>1, <2>2, <2>3, <2>4
    <3>2. w = v /\ l = level
      BY <3>1, <1>t DEF PlatformRoleMiddleware, Comes, VisitAt
    <3> QED
      BY <3>1, <3>2
<1>2. visit'[v].token = token /\ accessClock < token.till
  BY <1>1, <1>t DEF PlatformRoleMiddleware, Comes, AuthMiddleware, Good
<1>3. PICK x \in token.has \cap Permits(level) : TRUE
  BY <1>1 DEF PlatformRoleMiddleware
<1>4. HadTill(token, x)
  BY <1>3 DEF AccessInv, TokensSpeak, Speaks
<1>5. token.user \in Visitors /\ x \in Standings /\ token.till \in Nat
  BY <1>t, <1>3 DEF AccessToken
<1>6. lastHad[token.user][x] \in Nat
  BY <1>5, <1>t
<1>7. HadLately(token.user, x)
  BY <1>2, <1>4, <1>5, <1>6, <1>t, LivesAreNumbers DEF HadTill, HadLately
<1> QED
  BY <1>2, <1>3, <1>7

THEOREM WhoIsLetInHadARole == AccessSpec => AdmittedHadRole
<1>1. AccessInv /\ [AccessNext]_accessVars =>
        [\A v \in Visits : \A level \in {"read", "write", "manage"} :
           VisitAt(v, "idle") /\ visit'[v].pc = level =>
               \E x \in Permits(level) : HadLately(visit'[v].token.user, x)]_accessVars
  BY AdmissionStep
<1> QED
  BY <1>1, AccessInitially, AccessStep, PTL DEF AccessSpec, AdmittedHadRole

------------------------------------------------------------------------------
(***************************************************************************)
(* Roles, grants and access beside each other, as the run takes them.  In  *)
(* the part that is RoleMaster alone nothing is excused, so the invariant  *)
(* of the grants is that of their own part.                                *)
(***************************************************************************)
RolesInv ==
    /\ IInv /\ GrantTypeOK /\ AccessInv
    /\ part = "grants" => GrantInv

LEMMA RolesInitially == RolesInit => RolesInv
  BY GrantInitially, AccessInitially DEF RolesInit, RolesInv, GrantInv

LEMMA RolesInvStep == RolesInv /\ [RolesNext]_RolesVars => RolesInv'
<1> SUFFICES ASSUME RolesInv, [RolesNext]_RolesVars PROVE RolesInv'
  OBVIOUS
<1>1. part' = part /\ [AccessNext]_accessVars
  BY DEF RolesNext, RolesVars
<1>2. AccessInv'
  BY <1>1, AccessStep DEF RolesInv
<1>3. CASE part = "roles" /\ RoleNext /\ UNCHANGED grantVars
  <2>1. IInv'
    BY <1>3, NextIInv DEF RolesInv
  <2>2. GrantTypeOK'
    BY <1>3 DEF RolesInv, grantVars, GrantTypeOK
  <2> QED
    BY <1>1, <1>2, <1>3, <2>1, <2>2 DEF RolesInv
<1>4. CASE part = "grants" /\ GrantNext
  BY <1>1, <1>2, <1>4, TablesInGrants, GrantInvStep DEF RolesInv, GrantInv
<1>5. CASE UNCHANGED allVars
  <2>1. IInv'
    BY <1>5, NextIInv DEF RolesInv, allVars, roleVars
  <2>2. GrantTypeOK'
    BY <1>5 DEF RolesInv, allVars, GrantTypeOK
  <2>3. part = "grants" => GrantInv'
    BY <1>5, GrantInvStep DEF RolesInv
  <2> QED
    BY <1>1, <1>2, <2>1, <2>2, <2>3 DEF RolesInv
<1> QED
  BY <1>3, <1>4, <1>5 DEF RolesNext, RolesVars

\* Roles, their rows, the grants in Keycloak and the tokens keep their types, in
\* every interleaving of the handlers of role_handler.go and of the logins.
THEOREM RolesAndAccessKeepTypes == RolesSpec => []RolesTypeOK
<1>1. RolesInv => RolesTypeOK
  BY DEF RolesInv, RolesTypeOK, IInv, TablesOK, ReqOK, TypeOK, AccessInv
<1> QED
  BY RolesInitially, RolesInvStep, <1>1, PTL DEF RolesSpec
=============================================================================
