----------------------------- MODULE GameEvents -----------------------------
(***************************************************************************)
(* One document of the events collection and the requests of game-event     *)
(* that read and write it.                                                   *)
(*                                                                          *)
(* Every mutating handler is an async function with two awaits: findById,   *)
(* then one findOneAndUpdate (or findByIdAndDelete). Between them it works  *)
(* on the document it has read, so each handler is two actions: the read    *)
(* half, which runs from findById to the point where the Mongo command is   *)
(* built, and the write half, which MongoDB applies atomically to whatever  *)
(* the document has become. Handlers of any number of requests interleave   *)
(* between the halves. Documents are independent of each other: a handler   *)
(* names one _id and no command spans two documents.                        *)
(*                                                                          *)
(* A Date is abstracted to the version of the document the handler had read *)
(* when it called new Date(). Replies are not state: a request that is      *)
(* refused before its write changes nothing and is not an action.           *)
(***************************************************************************)
EXTENDS ReviewRules, FiniteSets

CONSTANTS
    Deleted,         \* the document after DELETE /events/:id
    Users,           \* user ids
    Principals,      \* the callers: a user id and the role of its token
    Calls,           \* slots for the requests in flight between their two awaits
    ReviewerChoice,  \* the four reviewer fields a request body may carry
    Details,         \* what POST /events may carry besides the reviewers
    Patches,         \* what PATCH /events/:id may carry besides the reviewers
    DecisionVersions,  \* how clients fill in the v of a decision: a subset of
                       \* {"none", "learned", "guessed"}
    PatchVersions,     \* the same for a PATCH of the event or its reviewers
    MaxVersion       \* bound: no request is read once the writes in flight could pass it

ReviewerId == Users \cup Unassigned
Date == Nat \cup {Null}
Day == Nat

ASSUME PrincipalsAssumption == Principals \subseteq [sub : Users, role : Role]
ASSUME ChoiceAssumption == ReviewerChoice \subseteq [Team -> Users \cup {Null, Empty, Absent}]
ASSUME DetailsAssumption ==
    Details \subseteq [startAt : Day, endAt : Day, isConfidential : BOOLEAN]
ASSUME PatchesAssumption ==
    Patches \subseteq
        [startAt : Day \cup {Absent}, endAt : Day \cup {Absent},
         isConfidential : BOOLEAN \cup {Absent}]
ASSUME VersionAssumption ==
    /\ DecisionVersions \subseteq {"none", "learned", "guessed"}
    /\ PatchVersions \subseteq {"none", "learned", "guessed"}
    /\ MaxVersion \in Nat
ASSUME NullAssumption == Null \notin Nat

ReviewHistory ==
    [team : Team, reviewerId : Users, prevStatus : ReviewStatus,
     nextStatus : ReviewStatus, changedAt : Nat]

\* The stored document. v is mongoose's versionKey.
GameEvent ==
    [ownerId : Users, isConfidential : BOOLEAN, startAt : Day, endAt : Day,
     reviewer : [Team -> ReviewerId], status : [Team -> ReviewStatus],
     reviewedAt : [Team -> Date], finalStatus : FinalStatus, approvedAt : Date,
     reviewHistory : Seq(ReviewHistory), v : Nat]

\* "No document yet" and "no document any more" are neither documents nor each other.
ASSUME DocumentAssumption ==
    Null \notin GameEvent /\ Deleted \notin GameEvent /\ Null # Deleted

(***************************************************************************)
(* The Mongo commands in flight. user is the caller the handler still has   *)
(* in scope; v is Null when the request carried no version.                 *)
(***************************************************************************)
StatusUpdate ==
    [op : {"updateStatus"}, user : Principals, team : Team, prevStatus : ReviewStatus,
     desiredStatus : ReviewStatus, finalStatus : FinalStatus, approvedAt : Date,
     now : Nat, v : Date]

ReviewersUpdate ==
    [op : {"updateReviewers"}, user : Principals, reviewer : [Team -> ReviewerId],
     status : [Team -> ReviewStatus], resets : SUBSET Team, finalStatus : FinalStatus,
     approvedAt : Date, patch : [startAt : Day \cup {Absent}, endAt : Day \cup {Absent},
                                 isConfidential : BOOLEAN \cup {Absent}],
     v : Date]

Removal == [op : {"remove"}, user : Principals]

Idle == [op |-> "idle"]

VARIABLES
    event,  \* the document: Null before POST, Deleted after DELETE
    call    \* the Mongo command each request slot has in flight

vars == <<event, call>>

Live == event \notin {Null, Deleted}

\* Bounds the history of one document; it is no condition of the code.
HasRoom ==
    event.v + Cardinality({c \in Calls : call[c].op \in {"updateStatus", "updateReviewers"}})
        < MaxVersion

\* The v a request may carry: the README's clients send one they have learned
\* from an earlier read, the DTOs accept any number or none.
RequestVersion(choice) ==
    (IF "none" \in choice THEN {Null} ELSE {})
    \cup (IF "learned" \in choice THEN 0 .. event.v ELSE {})
    \cup (IF "guessed" \in choice THEN 0 .. MaxVersion ELSE {})

----------------------------------------------------------------------------
(* POST /events                                                              *)

newEvent(user, reviewer, d) ==
    LET status == initStatusesByReviewers(reviewer)
    IN  [ownerId |-> user.sub, isConfidential |-> d.isConfidential,
         startAt |-> d.startAt, endAt |-> d.endAt,
         reviewer |-> reviewer, status |-> status,
         reviewedAt |-> [t \in Team |-> Null],
         finalStatus |-> calcFinalStatus(status), approvedAt |-> Null,
         reviewHistory |-> << >>, v |-> 0]

Create ==
    /\ event = Null
    /\ \E user \in Principals, dto \in ReviewerChoice, d \in Details :
        /\ d.startAt <= d.endAt
        /\ event' = newEvent(user, mergeReviewers(dto, [t \in Team |-> Null]), d)
    /\ UNCHANGED call

----------------------------------------------------------------------------
(* PATCH /events/:id/reviews/status: ReviewService.updateStatus              *)

computeNextSnapshot(ev, team, desired) ==
    LET final == calcFinalStatus([ev.status EXCEPT ![team] = desired])
    IN  [finalStatus |-> final, approvedAt |-> IF final = "APPROVED" THEN ev.v ELSE Null]

statusUpdate(ev, user, team, desired, v) ==
    LET next == computeNextSnapshot(ev, team, desired)
    IN  [op |-> "updateStatus", user |-> user, team |-> team,
         prevStatus |-> ev.status[team], desiredStatus |-> desired,
         finalStatus |-> next.finalStatus, approvedAt |-> next.approvedAt,
         now |-> ev.v, v |-> v]

\* The read half: up to the findOneAndUpdate.
UpdateStatus(c) ==
    /\ call[c] = Idle
    /\ Live
    /\ HasRoom
    /\ \E user \in Principals, asked \in Team \cup {Null}, desired \in ReviewStatus,
          v \in RequestVersion(DecisionVersions) :
        LET team == decideTeam(user, asked, event.reviewer)
        IN  /\ team # Null
            /\ event.reviewer[team] \notin Unassigned
            /\ canTransition(event.status[team], desired, user.role)
            /\ event.status[team] # desired
            /\ call' = [call EXCEPT ![c] = statusUpdate(event, user, team, desired, v)]
    /\ UNCHANGED event

----------------------------------------------------------------------------
(* PATCH /events/:id/reviewers and PATCH /events/:id                         *)

\* Mutant: only a team that falls back to PENDING loses its completion date.
MutResetsPendingOnly(ev, status) ==
    {t \in Team : status[t] # ev.status[t] /\ status[t] = "PENDING"}

collectReviewedAtResets(ev, status) ==
    {t \in Team : status[t] # ev.status[t] /\ status[t] \in {"PENDING", "NOT_REQUIRED"}}

\* Mutant: an approval that is still standing is stamped anew.
MutApprovedAtRestamped(ev, final) == IF final = "APPROVED" THEN ev.v ELSE Null

\* Mutant: the approval date survives the loss of the approval.
MutApprovedAtKept(ev, final) ==
    IF final = "APPROVED" /\ ev.approvedAt = Null THEN ev.v ELSE ev.approvedAt

resolveApprovedAt(ev, final) ==
    CASE final # "APPROVED" -> Null
      [] final = "APPROVED" /\ ev.finalStatus = "APPROVED" /\ ev.approvedAt # Null -> ev.approvedAt
      [] OTHER -> ev.v

reviewersUpdate(ev, user, dto, patch, v) ==
    LET reviewer == mergeReviewers(dto, ev.reviewer)
        status == recalcStatusesOnReviewerChange(ev.status, ev.reviewer, reviewer)
        final == calcFinalStatus(status)
    IN  [op |-> "updateReviewers", user |-> user, reviewer |-> reviewer, status |-> status,
         resets |-> collectReviewedAtResets(ev, status), finalStatus |-> final,
         approvedAt |-> resolveApprovedAt(ev, final), patch |-> patch, v |-> v]

NoPatch == [startAt |-> Absent, endAt |-> Absent, isConfidential |-> Absent]

\* The read half that both handlers share.
StartReviewersUpdate(c, patch) ==
    /\ call[c] = Idle
    /\ Live
    /\ HasRoom
    /\ \E user \in Principals, dto \in ReviewerChoice, v \in RequestVersion(PatchVersions) :
        /\ canModifyEvent(user, event)
        /\ call' = [call EXCEPT ![c] = reviewersUpdate(event, user, dto, patch, v)]
    /\ UNCHANGED event

UpdateReviewers(c) == StartReviewersUpdate(c, NoPatch)

UpdateByOwnerOrAdmin(c) == \E patch \in Patches : StartReviewersUpdate(c, patch)

----------------------------------------------------------------------------
(* DELETE /events/:id                                                        *)

RemoveByOwnerOrAdmin(c) ==
    /\ call[c] = Idle
    /\ Live
    /\ \E user \in Principals :
        /\ canModifyEvent(user, event)
        /\ call' = [call EXCEPT ![c] = [op |-> "remove", user |-> user]]
    /\ UNCHANGED event

----------------------------------------------------------------------------
(* The write halves, as MongoDB applies them                                 *)

\* Mutant: the status guard is left out of the filter.
MutMatchesWithoutGuard(cmd) == Live /\ cmd.v \in {Null, event.v}

\* Mutant: the version is left out of the filter.
MutMatchesWithoutVersion(cmd) ==
    /\ Live
    /\ cmd.op = "updateStatus" => event.status[cmd.team] = cmd.prevStatus

\* The filter of atomicGuardedUpdateById and updateById: _id, the guards, v.
Matches(cmd) ==
    /\ Live
    /\ cmd.v \in {Null, event.v}
    /\ cmd.op = "updateStatus" => event.status[cmd.team] = cmd.prevStatus

\* Mutant: the history entry names the status that was, not the one that is.
MutHistoryEntryStale(cmd) ==
    [team |-> cmd.team, reviewerId |-> cmd.user.sub, prevStatus |-> cmd.prevStatus,
     nextStatus |-> cmd.prevStatus, changedAt |-> cmd.now]

historyEntry(cmd) ==
    [team |-> cmd.team, reviewerId |-> cmd.user.sub, prevStatus |-> cmd.prevStatus,
     nextStatus |-> cmd.desiredStatus, changedAt |-> cmd.now]

\* Mutant: the review update does not increment v.
MutStatusUpdateKeepsVersion(ev, cmd) ==
    [ev EXCEPT !.status[cmd.team] = cmd.desiredStatus,
               !.reviewedAt[cmd.team] = cmd.now,
               !.finalStatus = cmd.finalStatus,
               !.approvedAt = cmd.approvedAt,
               !.reviewHistory = Append(@, historyEntry(cmd))]

\* The $set and $push of buildReviewAtomicUpdate, and the $inc of v that
\* atomicGuardedUpdateById adds to them.
applyStatusUpdate(ev, cmd) ==
    [ev EXCEPT !.status[cmd.team] = cmd.desiredStatus,
               !.reviewedAt[cmd.team] = cmd.now,
               !.finalStatus = cmd.finalStatus,
               !.approvedAt = cmd.approvedAt,
               !.reviewHistory = Append(@, historyEntry(cmd)),
               !.v = @ + 1]

given(new, old) == IF new = Absent THEN old ELSE new

\* The $set of updateReviewers and of updateByOwnerOrAdmin.
applyReviewersUpdate(ev, cmd) ==
    [ev EXCEPT !.reviewer = cmd.reviewer,
               !.status = cmd.status,
               !.reviewedAt = [t \in Team |-> IF t \in cmd.resets THEN Null ELSE @[t]],
               !.finalStatus = cmd.finalStatus,
               !.approvedAt = cmd.approvedAt,
               !.startAt = given(cmd.patch.startAt, @),
               !.endAt = given(cmd.patch.endAt, @),
               !.isConfidential = given(cmd.patch.isConfidential, @),
               !.v = @ + 1]

WriteStatus(c) ==
    /\ call[c].op = "updateStatus"
    /\ Matches(call[c])
    /\ event' = applyStatusUpdate(event, call[c])
    /\ call' = [call EXCEPT ![c] = Idle]

WriteReviewers(c) ==
    /\ call[c].op = "updateReviewers"
    /\ Matches(call[c])
    /\ event' = applyReviewersUpdate(event, call[c])
    /\ call' = [call EXCEPT ![c] = Idle]

\* findOneAndUpdate finds no document: the handler answers 409.
Conflict(c) ==
    /\ call[c].op \in {"updateStatus", "updateReviewers"}
    /\ ~Matches(call[c])
    /\ call' = [call EXCEPT ![c] = Idle]
    /\ UNCHANGED event

\* findByIdAndDelete, successful whether or not the document is still there.
DeleteById(c) ==
    /\ call[c].op = "remove"
    /\ event' = Deleted
    /\ call' = [call EXCEPT ![c] = Idle]

\* The game-event process stops: the handlers in flight never send their command.
Restart ==
    /\ call # [c \in Calls |-> Idle]
    /\ call' = [c \in Calls |-> Idle]
    /\ UNCHANGED event

----------------------------------------------------------------------------
Init ==
    /\ event = Null
    /\ call = [c \in Calls |-> Idle]

Next ==
    \/ Create
    \/ \E c \in Calls :
        \/ UpdateStatus(c)
        \/ UpdateReviewers(c)
        \/ UpdateByOwnerOrAdmin(c)
        \/ RemoveByOwnerOrAdmin(c)
        \/ WriteStatus(c)
        \/ WriteReviewers(c)
        \/ Conflict(c)
        \/ DeleteById(c)
    \/ Restart

Spec == Init /\ [][Next]_vars

----------------------------------------------------------------------------
(* Safety whatever the interleaving and whatever version the clients send    *)

\* The stored document and the commands in flight stay within their schemas.
TypeOK ==
    /\ event \in GameEvent \cup {Null, Deleted}
    /\ call \in [Calls -> StatusUpdate \cup ReviewersUpdate \cup Removal \cup {Idle}]

\* A team's review is NOT_REQUIRED exactly when nobody is assigned to it, also
\* after a decision and a reassignment that were computed from the same read.
RequiredIffReviewer ==
    Live => \A t \in Team :
                event.status[t] = "NOT_REQUIRED" <=> event.reviewer[t] \in Unassigned

\* Only an event whose final status is APPROVED has an approval date.
ApprovalDateMeansApproved ==
    Live => (event.approvedAt # Null => event.finalStatus = "APPROVED")

Recorded(history, team, status) ==
    \E i \in getTeamHistoryReviews(history, team) : history[i].nextStatus = status

\* A decided status was once recorded in the history with that very outcome,
\* even when a stale PATCH has brought it back.
DecidedIsRecorded ==
    Live => \A t \in Team : event.status[t] \in Decided =>
        Recorded(event.reviewHistory, t, event.status[t])

\* What a Mongo command in flight carries is sound by itself, whatever has become
\* of the document since its handler read it: a decision leaves a review that is
\* required, and a PATCH pairs reviewers with statuses and brings back only
\* decisions that are on record.
CommandsSound ==
    /\ event = Null => \A c \in Calls : call[c] = Idle
    /\ \A c \in Calls : call[c].op = "updateStatus" =>
        /\ call[c].prevStatus # "NOT_REQUIRED"
        /\ call[c].desiredStatus \in Decided
        /\ call[c].approvedAt # Null => call[c].finalStatus = "APPROVED"
    /\ \A c \in Calls : call[c].op = "updateReviewers" =>
        /\ \A t \in Team :
            call[c].status[t] = "NOT_REQUIRED" <=> call[c].reviewer[t] \in Unassigned
        /\ call[c].approvedAt # Null => call[c].finalStatus = "APPROVED"
        /\ Live => \A t \in Team : call[c].status[t] \in Decided =>
                Recorded(event.reviewHistory, t, call[c].status[t])

\* The step adds one entry to the history, for the change of t's status it makes.
RecordsDecision(t) ==
    \E i \in DOMAIN event'.reviewHistory :
        LET entry == event'.reviewHistory[i]
        IN  /\ event'.reviewHistory = Append(event.reviewHistory, entry)
            /\ entry.team = t
            /\ entry.prevStatus = event.status[t]
            /\ entry.nextStatus = event'.status[t]
            /\ entry.prevStatus # entry.nextStatus

\* The history is append-only and tells what happened: every entry is that of a
\* decision which took its team, when it was stored, from the one status to the
\* other. So a decision that is sent again is not recorded again.
HistoryRecordsDecisions ==
    [][Live /\ Live' =>
        \/ event'.reviewHistory = event.reviewHistory
        \/ \E t \in Team : RecordsDecision(t)]_vars

\* GET /events lists an event to a caller exactly when GET /events/:id shows it:
\* the two rules are coded apart, as a query and as a predicate.
ListShowsWhatReadAllows ==
    Live => \A user \in Principals : buildAccessFilter(user, event) <=> canReadEvent(user, event)

\* What GET /events/reviews/my shows a REVIEWER as PENDING, PATCH .../reviews/status
\* lets that reviewer decide without naming a team: list and handler pick the
\* same one of several teams, and the event and its history can be read.
WorklistCanBeDecided ==
    Live => \A user \in Principals :
        LET item == listMyReviews(user.sub, event)
        IN  (/\ user.role = "REVIEWER"
             /\ findMyReviews(user.sub, Null, Null, event)
             /\ item.myStatus = "PENDING")
            => /\ canReadEvent(user, event)
               /\ canReadReviewHistory(user, event)
               /\ decideTeam(user, Null, event.reviewer) = item.myTeam
               /\ event.reviewer[item.myTeam] \notin Unassigned
               /\ canTransition(item.myStatus, "APPROVED", user.role)

----------------------------------------------------------------------------
(* Safety when every write carries a version its client has learned          *)

\* README, section 3: the final status is the one the team statuses call for.
FinalStatusConsistent == Live => event.finalStatus = calcFinalStatus(event.status)

\* README, section 5: a team has a completion date exactly while it is decided.
ReviewedAtConsistent ==
    Live => \A t \in Team : event.reviewedAt[t] # Null <=> event.status[t] \in Decided

\* For a decided team the latest entry of its history is that decision, taken
\* at the completion date the document shows.
HistoryTipIsStatus ==
    Live => \A t \in Team : event.status[t] \in Decided =>
        \E i \in DOMAIN event.reviewHistory :
            /\ event.reviewHistory[i].team = t
            /\ event.reviewHistory[i].nextStatus = event.status[t]
            /\ event.reviewHistory[i].changedAt = event.reviewedAt[t]
            /\ \A j \in i + 1 .. Len(event.reviewHistory) : event.reviewHistory[j].team # t

\* The command is the one its handler would build from the document as it is now.
BuiltFromCurrent(cmd) ==
    \/ /\ cmd.op = "updateStatus"
       /\ cmd = statusUpdate(event, cmd.user, cmd.team, cmd.desiredStatus, cmd.v)
       /\ event.reviewer[cmd.team] \notin Unassigned
       /\ canTransition(event.status[cmd.team], cmd.desiredStatus, cmd.user.role)
       /\ event.status[cmd.team] # cmd.desiredStatus
       /\ \/ cmd.user.role = "ADMIN"
          \/ cmd.user.role = "REVIEWER" /\ event.reviewer[cmd.team] = cmd.user.sub
    \/ /\ cmd.op = "updateReviewers"
       /\ canModifyEvent(cmd.user, event)
       /\ \E dto \in ReviewerChoice :
            cmd = reviewersUpdate(event, cmd.user, dto, cmd.patch, cmd.v)

\* A command whose version is still the document's was built from this very
\* document: it is never refused, so 409 always means that somebody else's write
\* came first, and what it stores was computed from what it overwrites.
CommandsFresh ==
    Live => \A c \in Calls : call[c].op \in {"updateStatus", "updateReviewers"} =>
        /\ call[c].v \in Nat
        /\ call[c].v <= event.v
        /\ call[c].v = event.v => BuiltFromCurrent(call[c]) /\ Matches(call[c])

\* The history accounts for the statuses: a team's status changes with an entry of
\* its own, which changes no other team's, or without one when that very team is
\* reassigned. So an entry of a team starts where its last one ended, unless the
\* team has been given another reviewer, or none, in between.
HistoryExplainsStatus ==
    [][Live /\ Live' =>
        \/ /\ \E t \in Team : /\ RecordsDecision(t)
                              /\ \A u \in Team \ {t} : event'.status[u] = event.status[u]
           /\ event'.reviewer = event.reviewer
        \/ /\ event'.reviewHistory = event.reviewHistory
           /\ \A t \in Team : \/ event'.status[t] = event.status[t]
                              \/ event'.reviewer[t] # event.reviewer[t]]_vars

\* README, role table: a decision is taken by the reviewer assigned at the
\* moment it is stored, or by an ADMIN.
DecisionByAssigned ==
    [][\A c \in Calls : WriteStatus(c) =>
        \/ call[c].user.role = "ADMIN"
        \/ event.reviewer[call[c].team] = call[c].user.sub]_vars

\* README, section 2: a decision is turned over only by another one, an ADMIN's.
RevisionOnlyByAdmin ==
    [][\A t \in Team :
        (/\ Live /\ Live'
         /\ event.status[t] \in Decided
         /\ event'.status[t] \in Decided \ {event.status[t]})
        => \E c \in Calls : /\ WriteStatus(c)
                            /\ call[c].team = t
                            /\ call[c].user.role = "ADMIN"]_vars

\* A PATCH that leaves the reviewers as they are leaves the reviews as they are.
UnrelatedPatchKeepsReviews ==
    [][\A c \in Calls : (WriteReviewers(c) /\ call[c].reviewer = event.reviewer) =>
        /\ event'.status = event.status
        /\ event'.reviewedAt = event.reviewedAt
        /\ event'.finalStatus = event.finalStatus]_vars

\* The approval date stands as long as the approval does.
ApprovalDateStable ==
    [][(Live /\ Live' /\ event.finalStatus = "APPROVED" /\ event'.finalStatus = "APPROVED")
        => (event.approvedAt # Null => event'.approvedAt = event.approvedAt)]_vars

----------------------------------------------------------------------------
(* The atomic workflow the document implements when versions are learned     *)

plainId(id) == IF id \in Unassigned THEN Null ELSE id
logEntry(h) == [team |-> h.team, by |-> h.reviewerId, from |-> h.prevStatus, to |-> h.nextStatus]

ledgerPhase == IF event = Null THEN "absent" ELSE IF event = Deleted THEN "deleted" ELSE "present"
ledgerOwner == IF Live THEN event.ownerId ELSE Null
ledgerReviewer == [t \in Team |-> IF Live THEN plainId(event.reviewer[t]) ELSE Null]
ledgerStatus == [t \in Team |-> IF Live THEN event.status[t] ELSE "NOT_REQUIRED"]
ledgerOutcome == IF Live THEN event.finalStatus ELSE Null
ledgerLog ==
    IF Live THEN [i \in 1 .. Len(event.reviewHistory) |-> logEntry(event.reviewHistory[i])]
    ELSE << >>

Ledger == INSTANCE ReviewLedger WITH
    Teams <- Team, NoReviewer <- Null,
    phase <- ledgerPhase, owner <- ledgerOwner, reviewer <- ledgerReviewer,
    status <- ledgerStatus, outcome <- ledgerOutcome, log <- ledgerLog

\* Every step of the interleaved handlers is one atomic step of the workflow, or none.
ImplementsLedger == Ledger!Spec

\* One team's review, as Platform composes it with the other services. It needs the
\* PATCHes alone to carry learned versions.
Review(t) == INSTANCE TeamReview WITH
    NoReviewer <- Null, reviewer <- ledgerReviewer[t], status <- ledgerStatus[t]

ImplementsTeamReviews == \A t \in Team : Review(t)!Spec

----------------------------------------------------------------------------
(* What the documentation says and the code does not do; see the README      *)

\* README, section 2: turning a decided status over is for ADMINs only. So no other
\* caller's request does it, decision or PATCH.
RevisionOnlyOnAdminsRequest ==
    [][\A t \in Team :
        (/\ Live /\ Live'
         /\ event.status[t] \in Decided
         /\ event'.status[t] \in Decided \ {event.status[t]})
        => \E c \in Calls : /\ WriteStatus(c) \/ WriteReviewers(c)
                            /\ call[c].user.role = "ADMIN"]_vars

\* event.schema.ts: 'endAt must be after startAt'.
DatesOrdered == Live => event.startAt <= event.endAt
=============================================================================
