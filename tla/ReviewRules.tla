---------------------------- MODULE ReviewRules ----------------------------
(***************************************************************************)
(* The pure rules of libs/common and the pure helpers of the game-event     *)
(* services: how review statuses are derived from the assigned reviewers,   *)
(* which status transitions are legal, how the final status is computed,    *)
(* and who may read or change an event.                                     *)
(*                                                                          *)
(* The code keeps one field per team (pmStatus, devStatus, ...); here such  *)
(* a family of fields is one function on Team.                              *)
(***************************************************************************)
EXTENDS Naturals, Sequences

CONSTANTS
    Null,    \* JSON null / a null field of the document
    Empty,   \* the empty string as a reviewer id
    Absent   \* a field the request body leaves out (undefined)

Team == {"PM", "DEV", "QA", "CS"}
Role == {"VIEWER", "PLANNER", "REVIEWER", "ADMIN"}
ReviewStatus == {"PENDING", "APPROVED", "REJECTED", "NOT_REQUIRED"}
FinalStatus == {"PENDING", "APPROVED", "REJECTED", "IN_PROGRESS"}

Decided == {"APPROVED", "REJECTED"}

\* The reviewer ids that JavaScript's truthiness test takes for "no reviewer".
Unassigned == {Null, Empty}

\* What `x ?? y` falls through on.
Nullish == {Null, Absent}

----------------------------------------------------------------------------
(* Statuses derived from reviewers: event-review.util.ts                     *)

initStatusesByReviewers(reviewer) ==
    [t \in Team |-> IF reviewer[t] \in Unassigned THEN "NOT_REQUIRED" ELSE "PENDING"]

\* Mutant: a replaced reviewer inherits the decision of the one before.
MutRecalcKeepsDecision(status, before, after) ==
    [t \in Team |->
        IF after[t] \in Unassigned THEN "NOT_REQUIRED"
        ELSE IF before[t] \in Unassigned THEN "PENDING"
        ELSE status[t]]

\* Mutant: a team whose reviewer is removed keeps its status.
MutRecalcKeepsRemoved(status, before, after) ==
    [t \in Team |->
        IF before[t] # after[t] /\ after[t] \notin Unassigned
            THEN "PENDING" ELSE status[t]]

\* Mutant: every team that has a reviewer starts afresh.
MutRecalcResetsAll(status, before, after) ==
    [t \in Team |-> IF after[t] \in Unassigned THEN "NOT_REQUIRED" ELSE "PENDING"]

recalcStatusesOnReviewerChange(status, before, after) ==
    [t \in Team |->
        IF after[t] \in Unassigned THEN "NOT_REQUIRED"
        ELSE IF before[t] \in Unassigned \/ before[t] # after[t] THEN "PENDING"
        ELSE IF status[t] = "NOT_REQUIRED" THEN "PENDING"
        ELSE status[t]]

\* Mutant: teams that all agree lend their common status to the event.
MutFinalIsCommonStatus(status) ==
    IF \A t, u \in Team : status[t] = status[u] THEN status["PM"] ELSE "IN_PROGRESS"

calcFinalStatus(status) ==
    LET considered == {status[t] : t \in Team} \ {"NOT_REQUIRED"}
    IN  IF "REJECTED" \in considered THEN "REJECTED"
        ELSE IF "PENDING" \in considered THEN "IN_PROGRESS"
        ELSE IF considered \subseteq {"APPROVED"} THEN "APPROVED"
        ELSE "IN_PROGRESS"

\* The reviewers after a PATCH: `dto.xReviewerId ?? event.xReviewerId`.
mergeReviewers(dto, reviewer) ==
    [t \in Team |-> IF dto[t] \in Nullish THEN reviewer[t] ELSE dto[t]]

----------------------------------------------------------------------------
(* The review state machine: state-machine.util.ts                           *)

\* Mutant: the ADMIN test on decided reviews is lost.
MutAnyoneRevises(prev, next, actor) ==
    prev \in {"PENDING"} \cup Decided /\ next \in Decided

canTransition(prev, next, actor) ==
    /\ next \in Decided
    /\ \/ prev = "PENDING"
       \/ prev \in Decided /\ actor = "ADMIN"

----------------------------------------------------------------------------
(* Which team a caller decides for: ReviewService.decideTeam                 *)

Rank == [PM |-> 1, DEV |-> 2, QA |-> 3, CS |-> 4]

\* The first team, in the order PM, DEV, QA, CS, that sub reviews; Null if none.
FirstTeamOf(sub, reviewer) ==
    LET mine == {t \in Team : reviewer[t] = sub}
    IN  IF mine = {} THEN Null
        ELSE CHOOSE t \in mine : \A u \in mine : Rank[t] <= Rank[u]

\* Mutant: the team a REVIEWER names in the request is taken at its word.
MutDecideTeamTrustsRequest(user, asked, reviewer) ==
    IF user.role \in {"ADMIN", "REVIEWER"} THEN asked ELSE Null

\* The team the request is about; Null stands for the 400 and 403 replies.
decideTeam(user, asked, reviewer) ==
    CASE user.role = "ADMIN" -> asked
      [] user.role = "REVIEWER" ->
            LET t == FirstTeamOf(user.sub, reviewer)
            IN  IF asked \in {Null, t} THEN t ELSE Null
      [] OTHER -> Null

----------------------------------------------------------------------------
(* Access control: policy.util.ts, acl.util.ts, buildAccessFilter            *)

IsOwner(user, ev) == user.role = "PLANNER" /\ ev.ownerId = user.sub

IsAssigned(user, ev) == user.role = "REVIEWER" /\ \E t \in Team : ev.reviewer[t] = user.sub

canReadEvent(user, ev) ==
    \/ ~ev.isConfidential
    \/ user.role = "ADMIN"
    \/ IsOwner(user, ev)
    \/ IsAssigned(user, ev)

canModifyEvent(user, ev) == user.role = "ADMIN" \/ IsOwner(user, ev)

canReadReviewHistory(user, ev) == user.role = "ADMIN" \/ IsOwner(user, ev) \/ IsAssigned(user, ev)

\* Mutant: the list filter forgets the clause for PLANNERs.
MutFilterForgetsOwner(user, ev) ==
    user.role = "ADMIN" \/ ~ev.isConfidential \/ IsAssigned(user, ev)

\* Whether the query of GET /events, without the client's filters, returns ev.
buildAccessFilter(user, ev) ==
    CASE user.role = "ADMIN"    -> TRUE
      [] user.role = "PLANNER"  -> ~ev.isConfidential \/ ev.ownerId = user.sub
      [] user.role = "REVIEWER" -> ~ev.isConfidential \/ \E t \in Team : ev.reviewer[t] = user.sub
      [] OTHER                  -> ~ev.isConfidential

----------------------------------------------------------------------------
(* GET /events/reviews/my: findMyReviews and ReviewService.listMyReviews     *)

\* Whether the query returns ev to sub; team and status are Null when not given.
findMyReviews(sub, team, status, ev) ==
    \E t \in Team : /\ team \in {Null, t}
                    /\ ev.reviewer[t] = sub
                    /\ status \in {Null, ev.status[t]}

\* Mutant: the tests of the teams run in the opposite order.
MutMyReviewsLastTeam(sub, ev) ==
    LET mine == {t \in Team : ev.reviewer[t] = sub}
        t == IF mine = {} THEN Null ELSE CHOOSE u \in mine : \A w \in mine : Rank[w] <= Rank[u]
    IN  [myTeam |-> t, myStatus |-> IF t = Null THEN Null ELSE ev.status[t]]

\* The team and status shown for a returned event.
listMyReviews(sub, ev) ==
    LET t == FirstTeamOf(sub, ev.reviewer)
    IN  [myTeam |-> t, myStatus |-> IF t = Null THEN Null ELSE ev.status[t]]

----------------------------------------------------------------------------
(* GET /events/:id/reviews/:team/history: getTeamHistoryReviews              *)

\* Where in the history the entries are that the reply lists, in this order.
getTeamHistoryReviews(history, team) == {i \in DOMAIN history : history[i].team = team}
=============================================================================
