---------------------------- MODULE GatewayRoutes ----------------------------
(***************************************************************************)
(* What the gateway does with one request before and after it is forwarded:  *)
(* the two proxy controllers' routes, the JWT and role guards, the headers   *)
(* that carry the caller to a service, how the service reads them, and which *)
(* answers the service can give. Everything here is a function of the        *)
(* request: guards and controllers keep no state.                            *)
(***************************************************************************)
EXTENDS ReviewRules

CONSTANT UserIds

AuthRoute ==
    {"register", "login", "refresh", "logout", "me",
     "listUsers", "getUser", "patchRoleTeam", "patchStatus"}

EventRoute ==
    {"create", "list", "getOne", "patch", "remove", "status", "history",
     "teamHistory", "myReviews", "updateStatus", "updateReviewers"}

Route == AuthRoute \cup EventRoute

Service == {"auth", "event"}

serviceOf(route) == IF route \in AuthRoute THEN "auth" ELSE "event"

Public == {"register", "login", "refresh"}

\* The arguments of @Rbac; none where the decorator is missing.
required(route) ==
    CASE route \in {"listUsers", "getUser", "patchRoleTeam", "patchStatus"} -> {"ADMIN"}
      [] route \in {"create", "patch", "remove", "updateReviewers"} -> {"ADMIN", "PLANNER"}
      [] route \in {"history", "teamHistory"} -> {"ADMIN", "PLANNER", "REVIEWER"}
      [] route \in {"myReviews", "updateStatus"} -> {"ADMIN", "REVIEWER"}
      [] OTHER -> {}

----------------------------------------------------------------------------
(* Guards                                                                    *)

\* A bearer token as the strategy finds it: sound when its signature, expiry, issuer
\* and audience are in order. A refresh token has no role.
Token == [sub : UserIds, role : Role \cup {Absent}, team : Team \cup {Null}, sound : BOOLEAN]

Caller == [sub : UserIds, role : Role, team : Team \cup {Null}]

\* JwtStrategy.validate, after passport-jwt has verified the token.
valid(token) == token # Null /\ token.sound /\ token.role # Absent

claims(token) == [sub |-> token.sub, role |-> token.role, team |-> token.team]

\* JwtAuthGuard: a public route is let through without a look at the token.
authenticated(route, token) == route \in Public \/ valid(token)

reqUser(route, token) == IF route \in Public THEN Null ELSE claims(token)

\* Mutant: a REVIEWER is let in wherever some role is asked for.
MutPermittedReviewers(route, user) ==
    required(route) = {} \/ (user # Null /\ user.role \in {"ADMIN", "REVIEWER"})

\* RbacGuard.
permitted(route, user) ==
    required(route) = {} \/ (user # Null /\ user.role \in {"ADMIN"} \cup required(route))

----------------------------------------------------------------------------
(* Headers                                                                   *)

Headers ==
    [id : UserIds \cup {Empty, Absent}, role : Role \cup {Empty, Absent},
     team : Team \cup {Empty, Absent}, token : Token \cup {Null}]

\* Every x-user-* header is deleted; the authorization header is not hop-by-hop.
sanitizeOutgoingHeaders(headers) ==
    [headers EXCEPT !.id = Absent, !.role = Absent, !.team = Absent]

\* `user?.sub ?? ''` and the like.
attachUserContext(headers, user) ==
    IF user = Null THEN [headers EXCEPT !.id = Empty, !.role = Empty, !.team = Empty]
    ELSE [headers EXCEPT !.id = user.sub, !.role = user.role,
                         !.team = IF user.team = Null THEN Empty ELSE user.team]

Falsy == {Empty, Absent}

parseFromGatewayHeaders(headers) ==
    IF headers.id \in Falsy \/ headers.role \in Falsy THEN Null
    ELSE [sub |-> headers.id, role |-> headers.role,
          team |-> IF headers.team \in Falsy THEN Null ELSE headers.team]

\* Null where the code throws 401.
parseFromBearer(headers) == IF valid(headers.token) THEN claims(headers.token) ELSE Null

\* The caller a handler of the service sees.
CurrentUser(headers) ==
    IF parseFromGatewayHeaders(headers) # Null THEN parseFromGatewayHeaders(headers)
    ELSE parseFromBearer(headers)

----------------------------------------------------------------------------
(* Answers of a service that is up                                           *)

\* Whether the request is as the API asks for, its id is no ObjectId, or its dates
\* are in the wrong order.
Input == {"good", "badId", "badDates"}

takesId(route) ==
    route \in {"getUser", "patchRoleTeam", "patchStatus", "getOne", "patch", "remove",
               "status", "history", "teamHistory", "updateStatus", "updateReviewers"}

\* Handlers that end in an error which is no HttpException: Mongoose's CastError for
\* the id, the Error of the pre-save hook.
throwsPlainError(route, input) ==
    \/ input = "badId" /\ takesId(route)
    \/ input = "badDates" /\ route = "create"

\* Handlers that never get to a 2xx: the validators of updateRoleTeam refuse every pair.
neverSucceeds(route) == route = "patchRoleTeam"

\* UnifiedExceptionFilter answers 500 to an error that is no HttpException; refusals by
\* the validation pipe and by the handlers are HttpExceptions.
answers(route, input) ==
    IF throwsPlainError(route, input) THEN {"500"}
    ELSE IF neverSucceeds(route) THEN {"4xx", "500"}
    ELSE {"2xx", "4xx"}
=============================================================================
