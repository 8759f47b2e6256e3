---------------------------- MODULE AuthAccounts ----------------------------
(***************************************************************************)
(* The auth service for one e-mail address: its account in MongoDB, the      *)
(* handlers of auth.service.ts, user.service.ts and seed.ts that read and    *)
(* write it, and the tokens in the clients' hands.                           *)
(*                                                                          *)
(* A handler that reads the account, awaits and writes is two actions. What  *)
(* it read stays in calls. document.save() sends the modified paths only,    *)
(* and a path is modified when its value differs from the one read.          *)
(* Handlers that only read change nothing and are left out. So are requests  *)
(* that are refused: an unknown user, a wrong password, a 4xx.               *)
(*                                                                          *)
(* Tokens carry the time they have left. Accounts are never deleted.         *)
(***************************************************************************)
EXTENDS ReviewRules

CONSTANTS
    Calls,       \* slots for the requests in flight
    Password,
    Requests,    \* the role and team that registrations and PATCHes ask for
    SeedUser,    \* the entry of this address in the seed's list
    Tokens,      \* refresh tokens; one that has expired may be issued anew
    AccessTTL,   \* JWT_EXPIRES_IN, in ticks
    RefreshTTL   \* REFRESH_TOKEN_EXPIRES_IN, in ticks

RoleTeamRequest == [role : Role, team : Team \cup {Null, Absent}]

ASSUME NullAssumption == Null \notin Team \cup Tokens /\ Null # Absent
ASSUME AbsentAssumption == Absent \notin Team \cup Role
ASSUME RequestAssumption == Requests \subseteq RoleTeamRequest
ASSUME SeedAssumption ==
    /\ SeedUser \in [password : Password, pair : RoleTeamRequest]
    /\ SeedUser.pair.role = "REVIEWER" => SeedUser.pair.team \in Team
ASSUME TTLAssumption == AccessTTL \in Nat \ {0} /\ RefreshTTL \in Nat \ {0}

VARIABLES
    account,     \* the document, Null until it is created
    calls,       \* the requests in flight: Idle, or what each has read
    access,      \* the access tokens that have not expired
    refreshTtl   \* of each refresh token, 0 when it has expired

vars == <<account, calls, access, refreshTtl>>

User == [password : Password, role : Role, team : Team \cup {Null},
         isActive : BOOLEAN, refreshTokenHash : Tokens \cup {Null}]

AccessToken == [role : Role, team : Team \cup {Null}, ttl : 1 .. AccessTTL]

ASSUME UserAssumption == Null \notin User

Idle == [op |-> "idle"]

----------------------------------------------------------------------------
(* Roles and teams                                                           *)

\* The requests that normalizeRoleTeamOrThrow lets through.
normalizable(req) == req.role = "REVIEWER" => req.team \in Team

normalizeRoleTeam(req) ==
    [role |-> req.role,
     team |-> CASE req.role \in {"ADMIN", "VIEWER"} -> Null
                [] req.role = "PLANNER" -> "PM"
                [] req.role = "REVIEWER" -> req.team]

validatePair(role, team) ==
    \/ role \in {"ADMIN", "VIEWER"} /\ team = Null
    \/ role = "PLANNER" /\ team = "PM"
    \/ role = "REVIEWER" /\ team \in Team

RoleTeam == {p \in [role : Role, team : Team \cup {Null}] : validatePair(p.role, p.team)}

ASSUME PairAssumption == Null \notin RoleTeam \cup [claims : RoleTeam, isActive : BOOLEAN]

\* In an update validator `this` is the query, which has no role.
roleOfQuery == Absent

\* The team of PATCH role-team must be a member of the enumeration and fit the role.
validRoleTeamPatch(req) == req.team \in Team /\ validatePair(req.role, req.team)

----------------------------------------------------------------------------
(* Tokens                                                                    *)

\* bcrypt reads 72 bytes of a token: the header, and of the payload no more than
\* the first 18 of the 24 digits of the user's id. They are the same for all
\* refresh tokens of one user.
bcryptInput(token) == "header and user id"

\* Mutant: any token will do where none is stored.
MutCompareWithoutStored(user, token) == bcryptInput(token) = bcryptInput(user.refreshTokenHash)

compareRefreshToken(user, token) ==
    /\ user.refreshTokenHash # Null
    /\ bcryptInput(token) = bcryptInput(user.refreshTokenHash)

accessPayload(user) == [role |-> user.role, team |-> user.team]

\* Mutant: the access token is signed with the options of the refresh token.
MutSignWithRefreshOptions(payload) ==
    [role |-> payload.role, team |-> payload.team, ttl |-> RefreshTTL]

sign(payload) == [role |-> payload.role, team |-> payload.team, ttl |-> AccessTTL]

----------------------------------------------------------------------------
Init ==
    /\ account = Null
    /\ calls = [c \in Calls |-> Idle]
    /\ access = {}
    /\ refreshTtl = [t \in Tokens |-> 0]

Start(c, call) ==
    /\ calls[c] = Idle
    /\ calls' = [calls EXCEPT ![c] = call]
    /\ UNCHANGED <<account, access, refreshTtl>>

Finish(c, op) ==
    /\ calls[c].op = op
    /\ calls' = [calls EXCEPT ![c] = Idle]

----------------------------------------------------------------------------
(* Registration and the seed                                                 *)

newUser(password, pair) ==
    [password |-> password, role |-> pair.role, team |-> pair.team,
     isActive |-> TRUE, refreshTokenHash |-> Null]

\* Mutant: no unique index on the e-mail, and the later document is the one found.
MutCreateReplaces(user) ==
    account' = IF validatePair(user.role, user.team) THEN user ELSE account

\* Model.create: the unique index refuses a second document with this e-mail.
create(user) ==
    account' = IF account = Null /\ validatePair(user.role, user.team) THEN user ELSE account

Register(c) ==
    \E password \in Password, req \in Requests :
        /\ normalizable(req)
        /\ account = Null
        /\ Start(c, [op |-> "register", user |-> newUser(password, normalizeRoleTeam(req))])

CreateRegistered(c) ==
    /\ Finish(c, "register")
    /\ create(calls[c].user)
    /\ UNCHANGED <<access, refreshTtl>>

\* upsertUser, up to the await of findOne.
Seed(c) == Start(c, [op |-> "seed", found |-> account])

\* Mutant: the seed writes back the whole document it has found.
MutSeededWhole(found) ==
    LET pair == normalizeRoleTeam(SeedUser.pair)
    IN  [found EXCEPT !.role = pair.role, !.team = pair.team, !.isActive = TRUE]

\* The fields the seed sets, where they differ from the document it has found.
seeded(found) ==
    LET pair == normalizeRoleTeam(SeedUser.pair)
    IN  [account EXCEPT !.role = IF found.role = pair.role THEN @ ELSE pair.role,
                        !.team = IF found.team = pair.team THEN @ ELSE pair.team,
                        !.isActive = @ \/ ~found.isActive]

SaveSeeded(c) ==
    /\ Finish(c, "seed")
    /\ IF calls[c].found = Null
       THEN create(newUser(SeedUser.password, normalizeRoleTeam(SeedUser.pair)))
       ELSE account' = seeded(calls[c].found)
    /\ UNCHANGED <<access, refreshTtl>>

----------------------------------------------------------------------------
(* Sessions                                                                  *)

\* login with the right password, up to the await of setRefreshTokenHash.
Login(c) ==
    /\ account # Null
    /\ account.isActive
    /\ Start(c, [op |-> "login", payload |-> accessPayload(account)])

\* Signing reads nothing of the account and is taken together with the save,
\* the latest it can happen. The hash differs from any stored one: it has a salt.
SaveLogin(c) ==
    \E token \in Tokens :
        /\ Finish(c, "login")
        /\ refreshTtl[token] = 0
        /\ token # account.refreshTokenHash
        /\ account' = [account EXCEPT !.refreshTokenHash = token]
        /\ access' = access \cup {sign(calls[c].payload)}
        /\ refreshTtl' = [refreshTtl EXCEPT ![token] = RefreshTTL]

\* Mutant: the token's expiry is not looked at.
MutRefreshIgnoresExpiry(c, token) ==
    /\ account # Null
    /\ account.isActive
    /\ compareRefreshToken(account, token)
    /\ Start(c, [op |-> "refresh", payload |-> accessPayload(account)])

\* Mutant: a deactivated account is not looked for.
MutRefreshIgnoresActive(c, token) ==
    /\ refreshTtl[token] > 0
    /\ account # Null
    /\ compareRefreshToken(account, token)
    /\ Start(c, [op |-> "refresh", payload |-> accessPayload(account)])

\* refresh, up to the await of signAsync.
Refresh(c, token) ==
    /\ refreshTtl[token] > 0
    /\ account # Null
    /\ account.isActive
    /\ compareRefreshToken(account, token)
    /\ Start(c, [op |-> "refresh", payload |-> accessPayload(account)])

SignRefreshed(c) ==
    /\ Finish(c, "refresh")
    /\ access' = access \cup {sign(calls[c].payload)}
    /\ UNCHANGED <<account, refreshTtl>>

\* logout, up to the save. It takes an access token that has not expired.
Logout(c) ==
    /\ access # {}
    /\ Start(c, [op |-> "logout", hash |-> account.refreshTokenHash])

\* Null over null is no modification, and save() then writes nothing.
SaveLogout(c) ==
    /\ Finish(c, "logout")
    /\ account' = IF calls[c].hash = Null THEN account
                  ELSE [account EXCEPT !.refreshTokenHash = Null]
    /\ UNCHANGED <<access, refreshTtl>>

----------------------------------------------------------------------------
(* Administration                                                            *)

UpdateActive(isActive) ==
    /\ account # Null
    /\ account' = [account EXCEPT !.isActive = isActive]
    /\ UNCHANGED <<calls, access, refreshTtl>>

UpdateRoleTeam(c) ==
    \E req \in Requests :
        /\ account # Null
        /\ validRoleTeamPatch(req)
        /\ Start(c, [op |-> "role-team", pair |-> normalizeRoleTeam(req)])

\* findByIdAndUpdate with runValidators.
SaveRoleTeam(c) ==
    /\ Finish(c, "role-team")
    /\ account' = IF validatePair(roleOfQuery, calls[c].pair.team)
                  THEN [account EXCEPT !.role = calls[c].pair.role, !.team = calls[c].pair.team]
                  ELSE account
    /\ UNCHANGED <<access, refreshTtl>>

----------------------------------------------------------------------------
\* Time passes: an access token is gone when it expires.
Tick ==
    /\ access' = {[t EXCEPT !.ttl = @ - 1] : t \in {u \in access : u.ttl > 1}}
    /\ refreshTtl' = [t \in Tokens |-> IF refreshTtl[t] > 0 THEN refreshTtl[t] - 1 ELSE 0]
    /\ UNCHANGED <<account, calls>>

\* The auth process stops; the account and the clients' tokens remain.
Restart ==
    /\ calls' = [c \in Calls |-> Idle]
    /\ UNCHANGED <<account, access, refreshTtl>>

Complete(c) ==
    \/ CreateRegistered(c) \/ SaveSeeded(c) \/ SaveLogin(c)
    \/ SignRefreshed(c) \/ SaveLogout(c) \/ SaveRoleTeam(c)

Next ==
    \/ \E c \in Calls : \/ Register(c) \/ Seed(c) \/ Login(c) \/ Logout(c) \/ UpdateRoleTeam(c)
                        \/ \E token \in Tokens : Refresh(c, token)
                        \/ Complete(c)
    \/ \E isActive \in BOOLEAN : UpdateActive(isActive)
    \/ Tick
    \/ Restart

\* Time passes, and MongoDB and bcrypt answer.
Fairness == WF_vars(Tick) /\ \A c \in Calls : WF_vars(Complete(c))

Spec == Init /\ [][Next]_vars

FairSpec == Spec /\ Fairness

----------------------------------------------------------------------------
Call ==
    {Idle} \cup [op : {"register"}, user : User]
           \cup [op : {"seed"}, found : User \cup {Null}]
           \cup [op : {"login", "refresh"}, payload : RoleTeam]
           \cup [op : {"logout"}, hash : Tokens \cup {Null}]
           \cup [op : {"role-team"}, pair : RoleTeam]

\* The document keeps the schema, with its role and team a pair the rules allow.
\* So do the claims of every token.
TypeOK ==
    /\ account \in User \cup {Null}
    /\ calls \in [Calls -> Call]
    /\ access \subseteq AccessToken
    /\ refreshTtl \in [Tokens -> 0 .. RefreshTTL]
    /\ account # Null => validatePair(account.role, account.team)
    /\ \A t \in access : validatePair(t.role, t.team)

\* Whoever registers first keeps the account: no registration or seed that
\* overlaps with the first puts its own user in its place.
AccountNotReplaced ==
    [][account # Null => account' # Null /\ account'.password = account.password]_vars

Deactivated == account # Null /\ ~account.isActive

LoggedOut == account # Null /\ account.refreshTokenHash = Null

\* Requests that have passed their checks and have not yet signed a token.
InFlight(ops) == \E c \in Calls : calls[c].op \in ops

\* No token is issued: the clients' tokens are those they had, and as old or older.
NoneIssued ==
    \A t \in access' : \E u \in access : t.role = u.role /\ t.team = u.team /\ t.ttl <= u.ttl

\* A deactivation takes effect: once the logins and refreshes that had passed the
\* check are through, none gets past it and no token is issued while it stands,
\* so that nobody acts for the account for longer than one token's life.
DeactivationTakesEffect ==
    [][Deactivated /\ ~InFlight({"login", "refresh"}) /\ Deactivated'
        => ~InFlight({"login", "refresh"})' /\ NoneIssued]_vars

\* So does a logout: once the refreshes in flight are through, it takes a login,
\* which opens a new session, for a token to be issued.
LogoutTakesEffect ==
    [][LoggedOut /\ ~InFlight({"refresh"}) /\ LoggedOut'
        => ~InFlight({"refresh"})' /\ NoneIssued]_vars

\* Refreshing does not extend a session beyond its refresh token.
SessionsEnd == <>[][\A c \in Calls : ~SaveLogin(c)]_vars => <>[](access = {})

sessionProfile ==
    IF account = Null THEN Null
    ELSE [claims |-> accessPayload(account), isActive |-> account.isActive]
sessionPending ==
    [c \in Calls |-> IF calls[c].op \in {"login", "refresh"} THEN calls[c].payload ELSE Null]
sessionAccess == {[claims |-> accessPayload(t), ttl |-> t.ttl] : t \in access}

Session == INSTANCE Sessions WITH
    Claims <- RoleTeam, NoClaims <- Null,
    profile <- sessionProfile, pending <- sessionPending, access <- sessionAccess

\* To the other services the account is a profile and tokens that repeat what it was
\* while active: every interleaving of the handlers is one of Sessions.
ImplementsSessions == Session!Spec

\* API of PATCH /users/:id/role-team: it stores the role. It never does.
RoleTeamChangeStored ==
    [][\A c \in Calls : SaveRoleTeam(c) => accessPayload(account') = calls[c].pair]_vars
=============================================================================
