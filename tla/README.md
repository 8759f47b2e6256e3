# Formal models of team-review-platform

TLA+ models of the platform's three services, the TLC runs that check them on
small instances, and proofs of their main properties that TLAPS checks for every
value of the constants.

    tlc -workers 2 -config versioned.cfg MCGameEvents     # one run
    tlapm GameEventsProofs.tla                            # the proofs of one module

## 1. The system

The gateway is the entry point: it limits the rate per client, verifies the access
token, applies the endpoint's role list, and forwards the request with `x-user-*`
headers to one of two services through a circuit breaker per service. The auth
service keeps the users and issues tokens. The game-event service keeps events,
their reviewers and the reviews. The services share no state but the claims in the
access token, and each has its own MongoDB.

| Component | State | Operations | What is hard | What makes it correct |
|---|---|---|---|---|
| Review rules (`libs/common`) | none | statuses from reviewers, transitions, final status, access rules | null, empty and absent ids; one reviewer of several teams | `RequiredIffReviewer`, `ListShowsWhatReadAllows` |
| Game-event service | one document per event, with its version | create, update, reassign, decide, delete; lists | every handler reads, awaits, and writes what it computed from its read; the version check is the client's choice | statuses, final status, dates and history agree; who may decide; the atomic workflow |
| Gateway circuit breaker | per service: state, failure count, time of the next attempt | `canRequest`, `recordSuccess`, `recordFailure` around a request | answers arrive in any order, after the circuit has changed | it opens, admits and closes again |
| Gateway rate limiter | a counter and expiry per client key | `canActivate`, `cleanup` | window borders, growth of the store | burst bound, sweeping, nobody locked out |
| Gateway routing and guards | none; the map of circuits | JWT and role checks, header rewriting, one circuit per service | the caller travels as headers; errors of one service beside the other; which answers count as failures | the caller is the token's; each service has a circuit of its own |
| Auth service | one document per user; tokens in clients' hands | register, login, refresh, logout, (de)activate, change role, seed | read–await–write on one document; claims that outlive the data they copy | first registration wins, logout and deactivation take effect, the sessions others rely on |
| The services together | the above | a decision from token to document and back | timeouts and repeats, jobs that go on after a 503, claims that have become stale | one decision stored, answers that hold, rights that end |
| Exception filter | none | exception to status | errors that are no `HttpException` | part of the routes (`answers`) |
| Bootstrap, Swagger | none | wiring, documentation | – | not modelled |

The hazards this code is exposed to are listed with their lines in `PROJECT.json`,
each with the properties that cover it.

## 2. Modules

| Module | What it is |
|---|---|
| `ReviewRules` | the pure functions of `libs/common` and of the services, as operators |
| `GameEvents` | one event document and the requests in flight on it |
| `ReviewLedger` | abstract: the review workflow with every request one atomic step |
| `TeamReview` | abstract: one team's review, a reviewer and a status that starts afresh with each |
| `MCGameEvents` | instances of `GameEvents` for TLC |
| `GameEventsProofs` | what holds whatever version the clients send |
| `GameEventsVersionedProofs` | what holds when PATCHes, decisions or both carry a version the client has read |
| `GameEventsRefinementProofs` | `GameEvents` implements `ReviewLedger`, and `TeamReview` for every team |
| `CircuitBreaker` | the class of that name: a record and its methods |
| `GatewayCircuit`, `GatewayCircuitProofs` | the circuit of one service and the requests sent through it |
| `GatewayRateLimit`, `GatewayRateLimitProofs` | the rate limiter |
| `GatewayRoutes` | the functions of one request: routes, guards, headers, possible answers |
| `GatewayPipeline`, `MCGatewayPipeline`, `GatewayPipelineProofs` | requests through the guards and both circuits to the services and back |
| `Sessions` | abstract: what the other services may rely on of an account |
| `AuthAccounts`, `MCAuthAccounts`, `AuthAccountsProofs` | one account, its sessions and tokens |
| `AuthLogouts` | `AuthAccounts` with a history variable: the sessions opened while a logout is in flight |
| `Platform`, `MCPlatform`, `PlatformProofs` | the three services around one account and one team of one event |

    ReviewRules <- GameEvents  ~> ReviewLedger          (EXTENDS <-, implements ~>)
                   GameEvents  ~> TeamReview, once per team
    ReviewRules <- AuthAccounts ~> Sessions
    AuthAccounts <- AuthLogouts
    ReviewRules <- GatewayRoutes
    CircuitBreaker <- GatewayCircuit
    GatewayRoutes, CircuitBreaker <- GatewayPipeline ~> GatewayCircuit, once per service
    GatewayRoutes, Sessions and TeamReview (INSTANCE) <- Platform ~> Sessions, TeamReview

Every `~>` is an `INSTANCE` whose substitutions are the refinement mapping. `Platform`
is built on `Sessions`, not on `AuthAccounts`, and a reassignment and the decisions of
others are steps of `TeamReview`, not of `GameEvents`: what it composes are the promises
that the detailed modules are proved to keep (`ImplementsSessions`,
`ImplementsTeamReviews`). The account's own decisions are in `Platform` step by step, with
the gateway's timeout between them; that they keep the promises of `TeamReview` too is
proved there (`ImplementsTeamReview`).

Operators named `Mut...` are plausible bugs of the definition that follows them; a
property that no such bug can break would say nothing about the code. `PROJECT.json`
names, for every property of every passing run, the mutant that breaks it.

## 3. How the models correspond to the code

### Game events

`event` is the document, `call` the Mongo command each request slot has in flight.
Every mutating handler is an async function with two awaits: `findById`, then one
`findOneAndUpdate` (or `findByIdAndDelete`). The read half (`UpdateStatus`,
`UpdateReviewers`, `UpdateByOwnerOrAdmin`, `RemoveByOwnerOrAdmin`) makes every check
of the handler on the document read and builds the command; the write half
(`WriteStatus`, `WriteReviewers`, `DeleteById`, `Conflict`) is the command as MongoDB
applies it, atomically, to whatever the document has become. Any number of handlers
interleave between the halves. `Restart` drops the commands not yet sent.

- The fields per team (`pmStatus`, `devStatus`, ...) are one function on `Team`.
- `dto.x ?? event.x` is `mergeReviewers`: `null` and an absent field keep the old
  reviewer, the empty string replaces it and counts as nobody.
- The version in the filter is `dto.v`, what the client sent, never the version of
  the document read. `DecisionVersions` and `PatchVersions` say how clients fill it in,
  in a decision and in a PATCH: `none`, `learned` (any version the document has had up
  to the read) or `guessed` (any number).
- A `Date` is the version of the document the handler had read when it called
  `new Date()`: what the properties need of a date is which read it belongs to.
- `findOneAndUpdate` does not run the schema's pre-save hook; `DatesOrdered` is
  therefore a guard of `Create` only.
- Creation is open to any role here, as in the service: the role lists of the
  endpoints live in the gateway.
- Requests that are refused before their write change nothing and are no actions.
  `recalcFinal` and the like that nobody calls are left out.
- Names, descriptions, comments, sorting and paging are left out.

### Circuit breaker

The record `circuit` holds the breaker's fields (`wait` is `nextAttemptAt - now`, never
below 0; counts past the threshold are kept at it), `sent` the requests awaiting an
answer. `forward` has no await between `canRequest` and the HTTP request, nor between
the answer and `recordSuccess`/`recordFailure`, so `Forward`, `Respond` (below 500, 4xx
included) and `Fail` (5xx, transport error, timeout) are atomic. Time is a countdown,
so behaviours are covered with no bound on time.

### Rate limiter

`store` is the map of counters with the time each has left, `sinceCleanup` the age of
the last sweep. `canActivate` is synchronous; its three outcomes are `OpenWindow`,
`Count` and `Refuse`, each with the sweep it starts with. `recent`, the ages of each
key's latest requests let through, is there for the properties only. A key is what
`getKey` makes of a request: the first entry of its `x-forwarded-for` header as received,
else the peer's address. Which requests share a key is therefore not known here, and every
property is one of a key, not of a person or a machine.

### Routes and pipeline

A route is the name of its method in the two proxy controllers. `required` is the role
list of its `@Rbac`, `Public` its `@Public`. A token is what `JwtStrategy` finds it to
be: the claims and whether signature, expiry, issuer and audience are in order. A
refresh token is signed with a secret of its own; where a deployment gives both the
same, it has no role and `validate` refuses it, which the instance has a token for.

`outgoing` is the headers as `forward` sends them: the client's own `x-user-*` headers
go, the gateway's come, empty for a public route; the `authorization` header stays.
`CurrentUser` is how a service reads them back, with the token as a fallback where the
headers are empty.

`answers` says which statuses a working service can give. The exception filter turns
an error that is no `HttpException` into a 500: Mongoose's CastError for an id that is
no ObjectId, the pre-save hook's Error, the ValidationError of `updateRoleTeam`.
`ServerError` is such an answer, `Fail` a transport error or a timeout; both count as
failures. Requests refused by the limiter, a guard or the circuit change nothing and
are no actions.

### Platform

`profile`, `pending`, `access` are the sessions of one account. `reviewer` and `status`
are one team's fields of one event; `each` puts them where the rules expect all four.
A request has two lives: `waiting`, whether the gateway still waits for it, and `job`,
how far `updateStatus` of game-event has got. `Timeout` ends the first and leaves the
second; `UpdateStatus` and `WriteStatus` are the read and the write half;
`Deliver` is the answer passed on. A request ends when nobody waits for the result.

- Reviewers send no version here: the filter is the status read, and nothing else.
- `Reassign` and `DecideElsewhere` are steps of `TeamReview`. `GameEvents` implements it
  when PATCHes carry a learned version, whatever decisions carry
  (`ImplementsTeamReviewsHolds`). Without one in the PATCH, `reverted_revision` applies.
- `Lose` stands for a request that never arrives and for a stop of game-event before
  the write. The 503 that follows is not a separate step: nothing can tell its time.
- `recorded` counts, for the properties only, the account's stored decisions as a
  REVIEWER since the team's last reassignment.

### Accounts and sessions

`account` is the document of one e-mail address, `calls` what each request in flight
has read, `access` the access tokens that have not expired and `refreshTtl` the time
each refresh token has left.

- `register`, the seed's `upsertUser`, `login`, `logout` and `refresh` are two actions
  each, before and after the await that matters. `save()` sends only the paths that
  differ from the document read: a logout that has read `null` writes nothing, and the
  seed writes only those of role, team and `isActive` it found different.
- The second `findById` of `setRefreshTokenHash` reads nothing that is used: a hash
  with a new salt always differs. It is taken together with the save.
- `bcrypt` reads the first 72 bytes of its input. A refresh token opens with 36
  characters of header, a dot, and the base64 of `{"sub":"<id>"`, of whose 24 digits 18
  fit: `bcryptInput` is the same for all refresh tokens of a user.
- Mongoose calls an update validator with the query as `this`: `validatePair` sees no
  role (`roleOfQuery`) and answers false.
- Accounts are never deleted by this code.
- `opened` of `AuthLogouts` is a history variable: no handler reads it and it keeps none
  from a step, so its specification has the behaviours of `AuthAccounts`
  (`HistoryOnlyWatches`). A property that compares the end of a logout with its
  beginning needs it. The runs of the account are runs of `AuthLogouts`.
- In the mapping to `Sessions` a login or refresh is pending once it has passed its
  checks, and until it has its token or a restart drops it.

## 4. Runs

Passing runs:

| Run | What it asks | Distinct states |
|---|---|---|
| `versioned` | two requests in flight, every write carrying a learned version: is the document consistent, who may read it, and is the workflow atomic? | 487,075 |
| `unversioned` | the same with no version or a guessed one: what still holds? | 448,314 |
| `circuit` | five requests through one circuit, answered in any order | 251 |
| `rate_limit` | two clients against the fixed-window limiter | 72,230 |
| `accounts` | two requests in flight on one account while its tokens age | 127,972 |
| `pipeline` | two requests in flight through the guards and both circuits | 18,622 |
| `platform` | two decisions in flight while tokens age, roles change, requests time out and the team is reassigned | 586,135 |

Runs in which TLC refutes what the repository says of the program are in section 6.

**Bounds.** `MaxVersion = 3` allows three writes to one event: a decision, a
reassignment that overtakes it and one more decision, or a decision, an ADMIN's
revision and a late PATCH. A race takes two requests in flight, and a third write to
show its effect. Four users (ADMIN, owner, two reviewers) and bodies that speak of two
of the four teams give every relation between two teams; the rules are symmetric in
the teams except for their order, which `decideTeam` uses. In `versioned` one reviewer
may also come as a VIEWER, the event starts confidential, and edits open it, close it
and move it to another day. `unversioned` guesses versions 0 to 3. The circuit has
threshold and cooldown 3 with five slots, so that failures sent before it opened arrive
while it is open and after. The limiter's window of 4 ticks with limit 3 makes
two windows overlap every interval. Two tokens allow a replaced and a current one; a
refresh token lives twice as long as an access token. The two request slots of
`GameEvents` are symmetric (those runs have no liveness property).

`pipeline` has one route of each kind (public, any caller, each role list, with and
without an id), tokens of an ADMIN, a REVIEWER, an expired one and a refresh token, and
clients with and without headers of their own. Two slots suffice for an answer to
overtake another, with a threshold of 2 that a single slot cannot reach at once.
`platform` has an account that may be a REVIEWER or an ADMIN, two users to assign, a
token lifetime of one tick (the claims of two tokens then differ only by a change of
profile in between) and two slots: an attempt given up and its repeat.

**Deadlock.** The game-event runs say `CHECK_DEADLOCK FALSE`: a deleted event, and one
at the bound with nothing in flight, really stop. The other runs check it.

**Fairness.** Time passes (`WF` on `Tick`) in the gateway and auth models. In the
circuit and the pipeline every request is answered or fails: axios' `GATEWAY_TIMEOUT_MS`
ends those that are not. In the auth model every request in flight completes, because
MongoDB and bcrypt answer; a restart may drop it instead. In `platform` tokens expire,
and that is all: no job is assumed to finish, no request to be answered. No client is
ever assumed to act, except where a property says so (`ClosesAfterRecovery` and
`RecoversBesideOutage` assume callers who keep coming and a service that has stopped
failing). `GameEvents` has no liveness property: its handlers never retry, and whether
somebody decides is up to people.

## 5. What the passing runs show

*With any version or none* (`unversioned`, proved): reviewers and `NOT_REQUIRED`
stay in step, only an approved event has an approval date, a decided status is on
record, the history only grows, by entries that tell what the write does (so that a
decision sent again is not recorded again), and what a reviewer's worklist shows as `PENDING` that
reviewer may read and decide (`WorklistCanBeDecided`: three parts of the code that pick
the caller's team and its rights agree). This is what one atomic `findOneAndUpdate` with the
status in its filter gives by itself.

*With learned versions* (`versioned`, proved; what holds with any version is not
checked again): a command whose
version is current was computed from the document it overwrites (`CommandsFresh`).
Hence the final status is the one the team statuses call for, a team has a completion
date exactly while decided, the history's last entry of a team is its decision, a team's
status changes only by a decision that is entered or by its own reassignment (so an entry
that does not start where the team's last one ended tells of a reassignment), an
approval keeps its date, only the assigned reviewer or an ADMIN decides, and only an
ADMIN turns a decision over. Together: the interleaved handlers implement the atomic
workflow of `ReviewLedger`.

The list query and the single read, coded apart, agree for every caller,
also after confidentiality changes, and an edit that leaves the reviewers alone leaves the
reviews alone, although the code recalculates them.

*Circuit*: closed exactly below the threshold; `HALF_OPEN` always awaits an answer; an
open circuit admits again although late failures restart its cooldown; it closes for
good when the downstream recovers.

*Rate limit*: fewer than twice the limit pass in any window's length (not the limit,
since windows are fixed); expired counters are swept if requests come; a client
that is refused is let in again, although it keeps calling.

*Accounts*: whoever registers first keeps the account; when a logout is answered, no
session is left that was open when it read the account, or had been before: what survives
was opened by a login in between. (The code promises no more: a logout that has read an
open session also ends one that a login opens before the logout's save.) While an account is deactivated, or logged
out, tokens come only from requests that had passed their checks before, so that the
last one is gone a token's lifetime after those are through; refreshing does not extend
a session past its refresh token. The handlers implement `Sessions`: a token carries
the role and team the account had while it was active, for one lifetime. For
deactivation that is all there is to say (`DeactivationTakesEffect`, proved, follows
from it and has no run of its own).

*Pipeline*: whatever headers a client sends, a service takes for the caller whom the
token names, with the role and team in it, and no request of a role outside the
route's list is sent. Each service's circuit behaves as if that service were alone,
and closes for good once its service has recovered, though the other's outage goes on.

*Platform*: a REVIEWER who is told 503 may repeat the decision as often as they like:
however late the jobs given up come to write, one decision is stored per assignment
(the status in the filter is `PENDING`, which no decision restores). An answer holds
when it arrives, however late: after a 2xx the decision is stored, after a 409 the team
is decided. And although no service asks another about an account, an account that
has lost a role for good, or is deactivated for good, stops deciding in that role: only
finitely many tokens and jobs are on their way.

## 6. Where the code departs from what the repository says

Five of the departures have a run of their own, whose counterexample is a behaviour of
the code.

| Run | What is said | What happens |
|---|---|---|
| `stale_final` | the final status is always recomputed consistently | without `v` in the decisions, though PATCHes carry it, two teams deciding at once leave a final status computed from a status no longer stored |
| `reverted_revision` | only an ADMIN turns a decision over | a PATCH of the reviewers without `v`, though decisions carry it, writes back the status it has read, over an ADMIN's revision: in the counterexample the event's PLANNER patches, and no request of an ADMIN is behind the step |
| `patched_dates` | endAt is not before startAt | PATCH stores any pair |
| `role_team` | PATCH stores role and team | it stores nothing |
| `client_mistakes` | dates in the wrong order and a malformed id are refused with 400 | they are answered with 500, which the gateway counts as a failure: repeated, they open the circuit of the service for everybody |

The first two need clients that leave out the optional `v`, which no response DTO
returns. The same cause has two more effects: a PATCH without `v` that a decision has
overtaken writes PENDING back and leaves the completion date (`ReviewedAtConsistent`
under `PatchVersions = {"none"}`), and a reviewer replaced after the handler's read still
decides where the decision carries none (`DecisionByAssigned` under
`DecisionVersions = {"none"}`).

More departures are in the models or follow from the code, with no run of their own:

- A reviewer of two teams can decide only for the first in the order PM, DEV, QA, CS
  (`decideTeam`), where the DTO and the controller have reviewers decide for the team
  they are assigned to. The list of one's reviews filters on any of the caller's teams
  and shows the first (`findMyReviews`, `listMyReviews`): it may show another status than
  the one asked for.
- A late success ends the cooldown of an open circuit (`recordSuccess` in any state,
  circuit-breaker.ts:41), where README.md:408 has it open for the cooldown.
- A reassignment resets statuses without a history entry (`applyReviewersUpdate`),
  where the repository's README has every change of a status in the history.
- A reviewer id of `null` leaves the reviewer in place (`mergeReviewers`), where the
  DTO offers an id or null.
- A refresh token that a later login has replaced still matches the stored hash
  (`compareRefreshToken`), of whose input bcrypt reads 72 bytes.
- The 503 after a timeout says "Failed to reach downstream service", while the request
  may have been carried out or may still be (`Timeout`). For a decision the repeat is
  harmless (`RecordedOnce`); a repeated `POST /events` creates a second event.
- An ADMIN's decision given up by the gateway may write later, over whatever decision
  has its status in the meantime: `RecordedOnce` and `AnswersHold` are stated for a
  REVIEWER, who cannot turn a decision over.
- `forward` sends each query parameter twice, in the URL and as `params`
  (proxy.service.ts:35 and :50).

## 7. Proofs

*Game events, any version.* `TypeOK` is preserved by itself once the helpers' types are
known. The rest needs the commands in flight: `CommandsSound` says that each command
is sound by itself, whatever has become of the document (a decision concerns a
review that is required, a PATCH pairs reviewers with statuses and brings back only
recorded decisions). The inductive invariant is its conjunction with the three
properties of the document; history steps follow from the form of the two updates.

Two action properties have no run of their own. `LegalDecisions`: every decision stored is
a transition the caller's role allows *from the status it overwrites*. The handler has
looked at a status read before its await; that it is the same one is what the status in
the filter is for, and no version is needed. `ChangedByManager`: whoever edits, reassigns
or deletes is an ADMIN or the owner when the write happens, not only when the handler
looked. It rests on the owner's never changing.

*Game events, learned versions.* What a learned version is good for was found by asking
of each theorem which requests must carry one. `PatchesLearned`, `DecisionsLearned` and
`Learned` (both) are the hypotheses `PatchVersions = {"learned"}`,
`DecisionVersions = {"learned"}`:

| Hypothesis | Theorems |
|---|---|
| none | `RequiredIffReviewer`, `ApprovalDateMeansApproved`, `DecidedIsRecorded`, `CommandsSound`, `HistoryRecordsDecisions`, `WorklistCanBeDecided`, `ListShowsWhatReadAllows`, `LegalDecisions`, `ChangedByManager` |
| `PatchesLearned` | `ReviewedAtConsistent`, `HistoryTipIsStatus`, `HistoryExplainsStatus`, `RevisionOnlyByAdmin`, `ImplementsTeamReviews` |
| `DecisionsLearned` | `DecisionByAssigned` |
| `Learned` | `CommandsFresh`, `FinalStatusConsistent`, `ApprovalDateStable`, `UnrelatedPatchKeepsReviews`, `ImplementsLedger` |

So within one team the status in the filter does for decisions what a version would: it is
the PATCH, which writes all four statuses unguarded, that needs one. Across the teams,
in the final status, decisions need it as well. The runs show two of these to be
needed: `stale_final` has learned PATCHes only, `reverted_revision` learned decisions only.
The run `versioned` checks the properties with both learned; the theorems are wider.

The inductive invariants are `CommandsFresh` (`PatchesFresh`, `DecisionsFresh`) for the
requests that carry a version: versions only grow, so a command either has
the current version and was built from this document, or will be refused. Under
`PatchesFresh` alone a decision's command is stale in the other teams' fields and in the
final status, and right in its own team's: `Dated`, that a team's status, completion date
and last history entry agree, is kept by both. For `HistoryExplainsStatus` a PATCH that
is stored has recalculated the statuses from the very statuses it overwrites, so it changes
those of reassigned teams only (by `RequiredIffReviewer` also where nobody is assigned);
that a decision enters what it does is `HistoryRecordsDecisions`, which needs no version.

The refinement of `ReviewLedger` shows each action to be a step of it or a stutter, with
one invariant more, `CommandsByManager`, that a PATCH or removal in flight was issued by
an owner or ADMIN. `TeamReview` abstracts further, to one team, and is implemented under
the weaker hypothesis: a write of a decision is a `Decide` of its team by
`LegalDecisions` and a stutter of the others, a PATCH an `Assign` of the teams whose
reviewer it changes.

*Circuit.* The three invariants together are inductive. `CooldownRunsOut` is the measure
behind `OpenAdmitsAgain`: while the circuit refuses requests, the pair of answers
awaited and ticks left falls, in lexicographic order, with every step that does not
close the circuit.

*Rate limiter.* `BurstBound` says that a key's 2·`Most`-th latest request is a window
old. It is not inductive: what a counter still lets through depends on what it has let
through. `WindowInv` ties each counter to the ages: from the `count`-th latest request, the
one that opened the window, all are as old as the counter or older, and from `Most`
further on a window old. It holds for every window and limit, 0 included.
`WindowsRunOut` is behind `RefusedNotForever`: a running window is moved by time alone, and
neither a request nor the sweep takes back what it has counted.

*Pipeline.* `CallerIsTokens` follows from what a `Forward` sends, for every route, token
and header, with the answers leaving the other slots alone. For `ImplementsCircuits` each
action is a step of the circuit of the service it concerns and a stutter of the other's.

*Accounts.* `TypeOK` holds the account to pairs of role and team the rules allow, and is
not inductive: the seed writes only what differs from its read. `SeedReads` adds what
the account can have become since (as found, or as seeded), which makes the mixture of
both the seeded pair. The two properties of deactivation and logout share a lemma,
`OtherSteps`: no step but a login's or a refresh's adds a token. `OpenedSince` is the
invariant behind `LogoutEndsEarlierSessions`: a session beside a logout that has read none
was opened since, because nothing but the save of a login opens one, the seed's save
included. `OtherSteps` also serves
`SessionStaysOver`, behind `SessionsEnd`: with every refresh token expired and nothing in
flight no token is issued until the next login. `ImplementsSessions` is
shown action by action under the mapping of section 3.

*Platform.* The inductive invariant has three parts beside the types: a REVIEWER's job
between its halves has read `PENDING`; once a REVIEWER's decision is recorded
the team is decided and stays so until it is reassigned; every answer of a request that
still speaks of this assignment is backed by the document and the record. `RecordedOnce`
follows because a write needs `PENDING` in its filter and the second part leaves none.

`ImplementsTeamReview` closes the composition: `Platform` takes the steps of others from
`TeamReview`, and its own decisions, with every timeout, loss and repeat, are steps of it
too. It needs `WritesAllowed`, that every job to write, an ADMIN's as well, has read a
status its role may turn into the decision, and that a team has a status exactly while
it has a reviewer. `ImplementsSessions` is the same for the account. `RightsBegin` is what
is left of `RightsEnd` when every token has expired and every job has ended: a role that
no login, token or request carries decides nothing, and none carries it again before the
account has it and is active.

Assumptions are those on the constants, named in the modules and evaluated by TLC in
every run.

*Model-checked only*: all liveness properties (the prover has no fairness reasoning;
`RightsEnd`, `RecoversBesideOutage`, `RefusedNotForever`, `ClosesAfterRecovery`,
`OpenAdmitsAgain`, `SessionsEnd`), and the refutations of section 6. Of four of them the
steps they rest on are proved, as said above; that the steps are taken, and that finitely
many suffice, is TLC's part. `RecoversBesideOutage` is `ClosesAfterRecovery` of either
circuit, which `ImplementsCircuits` carries over but for the fairness.

*Proved only*: `LegalDecisions`, `ChangedByManager`, `ImplementsTeamReviews`, the two
refinements of `Platform` and the four properties behind the liveness have no run.
`DeactivationTakesEffect` follows from `ImplementsSessions` and has none either.

## 8. Plan

Order of work, the most important behaviour first:

1. done – `ReviewRules`, `GameEvents`, `ReviewLedger` with proofs; `GatewayCircuit` with
   proofs; `GatewayRateLimit`; `AuthAccounts` with proofs.
2. done – `GatewayRoutes` and `GatewayPipeline` with proofs: guards, headers and both
   circuits, each implementing `GatewayCircuit`.
3. done – `Sessions` with `AuthAccounts` shown to implement it, and `Platform` on top of
   it: stale claims, timeouts and repeats across the services, with proofs.
4. done – proofs of `BurstBound` for every limit and of `HistoryExplainsStatus`; what a
   logout has ended, with a history variable.
5. done – which requests need a version, theorem by theorem; `TeamReview`, implemented by
   `GameEvents` and by `Platform`; the safety behind the liveness properties.
6. left – a ledger whose decisions carry no version, for what the event as a whole still
   promises then; the steps behind `ClosesAfterRecovery`.
7. left – `Platform` with decisions of ADMINs that carry a version, and the owner's
   removal of the event under a decision in flight; several gateways, each with a
   limiter and circuits of its own.

## 9. Not modelled

Bootstrap and Swagger models: wiring and documentation. Paging and sorting of lists, and
the reading handlers of the auth service (`me`, the user list), concern no
property. How express and the DTOs treat the doubled query parameters lies in their
libraries. The seed's order of accounts and its connection handling are a script's.
MongoDB, Mongoose, bcrypt, jsonwebtoken and axios are modelled only as far as the code
uses them, and marked external. Replica lag and failed writes of MongoDB are not
modelled: the code has no handling of its own for them.
