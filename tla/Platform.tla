------------------------------ MODULE Platform ------------------------------
(***************************************************************************)
(* The three services around one account and one team of one event: the auth *)
(* service issues the account's tokens (Sessions), the gateway lets a        *)
(* decision pass on the strength of a token and waits for GATEWAY_TIMEOUT_MS,*)
(* and game-event reads the event, awaits, and writes.                       *)
(*                                                                          *)
(* A request that the gateway has given up is still at work in game-event.   *)
(* So the client, told 503, may repeat a decision that is yet to be stored.  *)
(* Reviewers send no version here. The PATCHes that reassign them do, so a   *)
(* reassignment is one step: TeamReview, which GameEvents implements for     *)
(* every team then. Refusals by the guards or an open circuit reach no       *)
(* service and are left out.                                                 *)
(***************************************************************************)
EXTENDS GatewayRoutes

CONSTANTS
    Account,    \* the user id of the account
    Claims,     \* the pairs of role and team it may be given
    AccessTTL,  \* JWT_EXPIRES_IN, in ticks
    Calls,      \* slots for its logins and refreshes in flight
    Requests    \* slots for its decisions in flight

ASSUME AccountAssumption == Account \in UserIds /\ UserIds \cap Unassigned = {}
ASSUME ClaimsAssumption == Claims \subseteq [role : Role, team : Team \cup {Null}]
ASSUME TTLAssumption == AccessTTL \in Nat \ {0}

VARIABLES
    profile, pending, access,   \* the account's sessions
    reviewer, status,           \* the team's, in the event's document
    requests,                   \* the decisions in flight
    recorded    \* history: the account's decisions as a REVIEWER stored since
                \* the team was last reassigned

Auth == INSTANCE Sessions WITH NoClaims <- Null
Review == INSTANCE TeamReview WITH Users <- UserIds, NoReviewer <- Null

authVars == <<profile, pending, access>>
reviewVars == <<reviewer, status, requests, recorded>>
vars == <<authVars, reviewVars>>

\* What game-event answers: the decision is stored or already there, or a conflict.
\* Other refusals end a request with no trace.
Result == {"2xx", "409"}

Request ==
    [desired : Decided, role : Role, waiting : BOOLEAN,
     job : {"queued", "read"} \cup Result,
     prevStatus : ReviewStatus \cup {Null},   \* while the job is between read and write
     current : BOOLEAN]   \* whether the team is the one the answer speaks of, not reassigned

ASSUME NullAssumption ==
    Null \notin Request \cup Claims \cup Auth!Profile \cup Team \cup ReviewStatus

Init ==
    /\ Auth!Init
    /\ Review!Init
    /\ requests = [r \in Requests |-> Null]
    /\ recorded = 0

----------------------------------------------------------------------------
(* The gateway                                                               *)

\* The guards accept a token, and forward sends the request.
Send(r) ==
    \E t \in access, desired \in Decided :
        /\ requests[r] = Null
        /\ permitted("updateStatus", t.claims)
        /\ requests' = [requests EXCEPT ![r] =
                [desired |-> desired, role |-> t.claims.role, waiting |-> TRUE,
                 job |-> "queued", prevStatus |-> Null, current |-> FALSE]]
        /\ UNCHANGED <<authVars, reviewer, status, recorded>>

ends(r) == requests' = [requests EXCEPT ![r] = Null]

\* An answer that nobody waits for any more is the end of a request.
becomes(r, request) ==
    IF request.job \in Result /\ ~request.waiting THEN ends(r)
    ELSE requests' = [requests EXCEPT ![r] = request]

Deliver(r) ==
    /\ requests[r] # Null
    /\ requests[r].waiting
    /\ requests[r].job \in Result
    /\ ends(r)
    /\ UNCHANGED <<authVars, reviewer, status, recorded>>

\* axios' timeout, or the connection breaks: 503, whatever becomes of the job.
Timeout(r) ==
    /\ requests[r] # Null
    /\ requests[r].waiting
    /\ becomes(r, [requests[r] EXCEPT !.waiting = FALSE])
    /\ UNCHANGED <<authVars, reviewer, status, recorded>>

----------------------------------------------------------------------------
(* Game-event                                                                *)

\* The team's field in the place of all four.
each(x) == [t \in Team |-> x]

caller(request) == [sub |-> Account, role |-> request.role, team |-> Null]

\* The checks of updateStatus before the transition: the caller's team, its reviewer.
refused(request) ==
    \/ decideTeam(caller(request), "PM", each(reviewer)) = Null
    \/ reviewer \in Unassigned

\* Mutant: the write is not awaited before the answer.
MutReachesUnawaited(request) ==
    IF ~canTransition(status, request.desired, request.role) THEN "409" ELSE "2xx"

\* How far updateStatus gets before the write if it is not refused.
reaches(request) ==
    IF ~canTransition(status, request.desired, request.role) THEN "409"
    ELSE IF status = request.desired THEN "2xx"
    ELSE "read"

\* The read half.
UpdateStatus(r) ==
    /\ requests[r] # Null
    /\ requests[r].job = "queued"
    /\ IF refused(requests[r]) THEN ends(r)
       ELSE LET job == reaches(requests[r])
            IN  becomes(r, [requests[r] EXCEPT
                    !.job = job, !.current = job \in Result,
                    !.prevStatus = IF job = "read" THEN status ELSE Null])
    /\ UNCHANGED <<authVars, reviewer, status, recorded>>

\* Mutant: the status is left out of the filter.
MutMatchesAnything(request) == TRUE

\* The filter: _id and the status read.
matches(request) == status = request.prevStatus

WriteStatus(r) ==
    /\ requests[r] # Null
    /\ requests[r].job = "read"
    /\ becomes(r, [requests[r] EXCEPT !.prevStatus = Null, !.current = TRUE,
                                      !.job = IF matches(requests[r]) THEN "2xx" ELSE "409"])
    /\ IF matches(requests[r])
       THEN /\ status' = requests[r].desired
            /\ recorded' = IF requests[r].role = "REVIEWER" THEN recorded + 1 ELSE recorded
       ELSE UNCHANGED <<status, recorded>>
    /\ UNCHANGED <<authVars, reviewer>>

\* The request does not arrive, or game-event stops before the write. That the gateway
\* answers 503 later is nothing anybody could tell from its answering now.
Lose(r) ==
    /\ requests[r] # Null
    /\ requests[r].job \in {"queued", "read"}
    /\ ends(r)
    /\ UNCHANGED <<authVars, reviewer, status, recorded>>

\* A decision by an ADMIN other than the account, or by another reviewer.
DecideElsewhere ==
    \E verdict \in Decided :
        /\ Review!Decide("ADMIN", verdict)
        /\ UNCHANGED <<authVars, requests, recorded>>

\* The team's reviewer changes: by a PATCH, or with the event's creation or deletion.
Reassign ==
    \E new \in UserIds \cup {Null} :
        /\ Review!Assign(new)
        /\ recorded' = 0
        /\ requests' = [r \in Requests |->
                IF requests[r] = Null THEN Null ELSE [requests[r] EXCEPT !.current = FALSE]]
        /\ UNCHANGED authVars

----------------------------------------------------------------------------
Next ==
    \/ Auth!Next /\ UNCHANGED reviewVars
    \/ \E r \in Requests : \/ Send(r) \/ Deliver(r) \/ Timeout(r)
                           \/ UpdateStatus(r) \/ WriteStatus(r) \/ Lose(r)
    \/ DecideElsewhere
    \/ Reassign

\* Time passes. Nobody is assumed to act, and nothing to be answered.
Fairness == WF_vars(Auth!Tick /\ UNCHANGED reviewVars)

Spec == Init /\ [][Next]_vars

FairSpec == Spec /\ Fairness

----------------------------------------------------------------------------
\* Sessions, document and requests keep their types.
TypeOK ==
    /\ profile \in Auth!Profile \cup {Null}
    /\ pending \in [Calls -> Claims \cup {Null}]
    /\ access \subseteq [claims : Claims, ttl : 1 .. AccessTTL]
    /\ reviewer \in UserIds \cup {Null}
    /\ status \in ReviewStatus
    /\ requests \in [Requests -> Request \cup {Null}]
    /\ recorded \in Nat

\* However often a REVIEWER repeats a decision after a 503, and however late the
\* jobs given up come to write: until the team is reassigned one is stored.
RecordedOnce == recorded <= 1

\* A REVIEWER can rely on any answer but 503, however late it comes, unless the team
\* has been reassigned meanwhile: after a 2xx the decision is stored, and after a 409
\* the team waits for no decision any more, be it that the reviewer's own earlier
\* attempt has decided it or somebody else.
AnswersHold ==
    [][\A r \in Requests :
        (Deliver(r) /\ requests[r].current /\ requests[r].role = "REVIEWER") =>
            /\ requests[r].job = "2xx" => recorded = 1
            /\ status # "PENDING"]_vars

Holds(role) == profile # Null /\ profile.isActive /\ profile.claims.role = role

DecidesAs(role) ==
    \E r \in Requests : WriteStatus(r) /\ requests[r].role = role /\ status' # status

\* No service asks the auth service about a token. All the same, when an account loses
\* a role for good, or is deactivated for good, decisions in that role end, though
\* logins, retries and jobs given up by the gateway may still be on their way.
RightsEnd ==
    \A role \in {pair.role : pair \in Claims} :
        <>[]~Holds(role) => <>[][~DecidesAs(role)]_vars
=============================================================================
