-------------------------- MODULE GameEventsProofs --------------------------
(***************************************************************************)
(* What holds of GameEvents for every set of users, callers, requests and    *)
(* bounds.                                                                   *)
(***************************************************************************)
EXTENDS GameEvents, TLAPS

----------------------------------------------------------------------------
(* The rules of ReviewRules                                                  *)

LEMMA FinalStatusType ==
    ASSUME NEW status
    PROVE  calcFinalStatus(status) \in FinalStatus
BY DEF calcFinalStatus, FinalStatus

LEMMA MergeType ==
    ASSUME NEW dto \in ReviewerChoice, NEW reviewer \in [Team -> ReviewerId]
    PROVE  mergeReviewers(dto, reviewer) \in [Team -> ReviewerId]
BY ChoiceAssumption DEF mergeReviewers, ReviewerId, Unassigned, Nullish

LEMMA RecalcType ==
    ASSUME NEW status \in [Team -> ReviewStatus], NEW before, NEW after
    PROVE  recalcStatusesOnReviewerChange(status, before, after) \in [Team -> ReviewStatus]
BY DEF recalcStatusesOnReviewerChange, ReviewStatus

\* A team that decideTeam settles on is a team, and a REVIEWER's own.
LEMMA DecideTeamType ==
    ASSUME NEW user \in Principals, NEW asked \in Team \cup {Null}, NEW reviewer,
           decideTeam(user, asked, reviewer) # Null
    PROVE  /\ decideTeam(user, asked, reviewer) \in Team
           /\ \/ user.role = "ADMIN"
              \/ user.role = "REVIEWER" /\ reviewer[decideTeam(user, asked, reviewer)] = user.sub
<1> DEFINE mine == {t \in Team : reviewer[t] = user.sub}
           first == FirstTeamOf(user.sub, reviewer)
<1>1. first # Null => first \in mine
  <2> SUFFICES ASSUME mine # {}
               PROVE  (CHOOSE t \in mine : \A u \in mine : Rank[t] <= Rank[u]) \in mine
    BY DEF FirstTeamOf
  <2>1. \E t \in mine : \A u \in mine : Rank[t] <= Rank[u]
    BY DEF Team, Rank
  <2> QED BY <2>1
<1>2. CASE user.role = "ADMIN"
  BY <1>2 DEF decideTeam
<1>3. CASE user.role = "REVIEWER"
  <2>1. decideTeam(user, asked, reviewer) = first
    BY <1>3 DEF decideTeam
  <2> QED BY <1>1, <1>3, <2>1
<1> QED BY <1>2, <1>3 DEF decideTeam

----------------------------------------------------------------------------
(* Type correctness                                                          *)

LEMMA NewEventType ==
    ASSUME NEW user \in Principals, NEW reviewer \in [Team -> ReviewerId], NEW d \in Details
    PROVE  newEvent(user, reviewer, d) \in GameEvent
<1>1. initStatusesByReviewers(reviewer) \in [Team -> ReviewStatus]
  BY DEF initStatusesByReviewers, ReviewStatus
<1>2. calcFinalStatus(initStatusesByReviewers(reviewer)) \in FinalStatus
  BY FinalStatusType
<1>3. << >> \in Seq(ReviewHistory)
  OBVIOUS
<1> QED
  BY <1>1, <1>2, <1>3, PrincipalsAssumption, DetailsAssumption DEF newEvent, GameEvent, Date

LEMMA StatusUpdateType ==
    ASSUME NEW ev \in GameEvent, NEW user \in Principals, NEW team \in Team,
           NEW desired \in ReviewStatus, NEW v \in Date
    PROVE  statusUpdate(ev, user, team, desired, v) \in StatusUpdate
<1>1. computeNextSnapshot(ev, team, desired).finalStatus \in FinalStatus
  BY FinalStatusType DEF computeNextSnapshot
<1>2. computeNextSnapshot(ev, team, desired).approvedAt \in Date
  BY DEF computeNextSnapshot, GameEvent, Date
<1> QED
  BY <1>1, <1>2 DEF statusUpdate, StatusUpdate, GameEvent

LEMMA ReviewersUpdateType ==
    ASSUME NEW ev \in GameEvent, NEW user \in Principals, NEW dto \in ReviewerChoice,
           NEW patch \in Patches \cup {NoPatch}, NEW v \in Date
    PROVE  reviewersUpdate(ev, user, dto, patch, v) \in ReviewersUpdate
<1> DEFINE reviewer == mergeReviewers(dto, ev.reviewer)
           status == recalcStatusesOnReviewerChange(ev.status, ev.reviewer, reviewer)
           final == calcFinalStatus(status)
<1>1. reviewer \in [Team -> ReviewerId]
  BY MergeType DEF GameEvent
<1>2. status \in [Team -> ReviewStatus]
  BY RecalcType DEF GameEvent
<1>3. final \in FinalStatus
  BY FinalStatusType
<1>4. collectReviewedAtResets(ev, status) \in SUBSET Team
  BY DEF collectReviewedAtResets
<1>5. resolveApprovedAt(ev, final) \in Date
  BY DEF resolveApprovedAt, GameEvent, Date
<1>6. patch \in [startAt : Day \cup {Absent}, endAt : Day \cup {Absent},
                 isConfidential : BOOLEAN \cup {Absent}]
  BY PatchesAssumption DEF NoPatch
<1> HIDE DEF reviewer, status, final
<1>7. [op |-> "updateReviewers", user |-> user, reviewer |-> reviewer, status |-> status,
       resets |-> collectReviewedAtResets(ev, status), finalStatus |-> final,
       approvedAt |-> resolveApprovedAt(ev, final), patch |-> patch, v |-> v]
      \in ReviewersUpdate
  BY <1>1, <1>2, <1>3, <1>4, <1>5, <1>6 DEF ReviewersUpdate
<1> QED
  BY <1>7 DEF reviewersUpdate, reviewer, status, final

LEMMA ApplyStatusType ==
    ASSUME NEW ev \in GameEvent, NEW cmd \in StatusUpdate
    PROVE  applyStatusUpdate(ev, cmd) \in GameEvent
<1> DEFINE s == [ev.status EXCEPT ![cmd.team] = cmd.desiredStatus]
           r == [ev.reviewedAt EXCEPT ![cmd.team] = cmd.now]
           h == Append(ev.reviewHistory, historyEntry(cmd))
           n == ev.v + 1
<1>1. cmd.finalStatus \in FinalStatus /\ cmd.approvedAt \in Date
  BY DEF StatusUpdate
<1>2. s \in [Team -> ReviewStatus] /\ r \in [Team -> Date] /\ n \in Nat
  BY DEF StatusUpdate, GameEvent, Date
<1>3. h \in Seq(ReviewHistory)
  <2>1. historyEntry(cmd) \in ReviewHistory
    BY PrincipalsAssumption DEF historyEntry, ReviewHistory, StatusUpdate
  <2> QED BY <2>1 DEF GameEvent
<1>4. applyStatusUpdate(ev, cmd) =
        [ev EXCEPT !.status = s, !.reviewedAt = r, !.finalStatus = cmd.finalStatus,
                   !.approvedAt = cmd.approvedAt, !.reviewHistory = h, !.v = n]
  BY DEF applyStatusUpdate
<1> HIDE DEF s, r, h, n
<1> QED BY <1>1, <1>2, <1>3, <1>4 DEF GameEvent

LEMMA ApplyReviewersType ==
    ASSUME NEW ev \in GameEvent, NEW cmd \in ReviewersUpdate
    PROVE  applyReviewersUpdate(ev, cmd) \in GameEvent
<1> DEFINE r == [t \in Team |-> IF t \in cmd.resets THEN Null ELSE ev.reviewedAt[t]]
           s == given(cmd.patch.startAt, ev.startAt)
           e == given(cmd.patch.endAt, ev.endAt)
           x == given(cmd.patch.isConfidential, ev.isConfidential)
           n == ev.v + 1
<1>1. r \in [Team -> Date] /\ n \in Nat
  BY DEF GameEvent, Date
<1>2. s \in Day /\ e \in Day
  BY DEF given, GameEvent, ReviewersUpdate
<1>3. x \in BOOLEAN
  BY DEF given, GameEvent, ReviewersUpdate
<1>4. applyReviewersUpdate(ev, cmd) =
        [ev EXCEPT !.reviewer = cmd.reviewer, !.status = cmd.status, !.reviewedAt = r,
                   !.finalStatus = cmd.finalStatus, !.approvedAt = cmd.approvedAt,
                   !.startAt = s, !.endAt = e, !.isConfidential = x, !.v = n]
  BY DEF applyReviewersUpdate
<1> HIDE DEF r, s, e, x, n
<1> QED BY <1>1, <1>2, <1>3, <1>4 DEF GameEvent, ReviewersUpdate

----------------------------------------------------------------------------
(* One fact per action: what it takes from the state and what it writes      *)

Command == StatusUpdate \cup ReviewersUpdate \cup Removal

LEMMA CommandKinds ==
    ASSUME TypeOK, NEW c \in Calls
    PROVE  /\ call[c].op = "updateStatus" => call[c] \in StatusUpdate
           /\ call[c].op = "updateReviewers" => call[c] \in ReviewersUpdate
           /\ call[c].op = "remove" => call[c] \in Removal
BY DEF TypeOK, StatusUpdate, ReviewersUpdate, Removal, Idle

LEMMA LiveType ==
    ASSUME TypeOK, Live
    PROVE  event \in GameEvent
BY DEF TypeOK, Live

LEMMA RequestVersionType ==
    ASSUME TypeOK, Live
    PROVE  \A choice : RequestVersion(choice) \subseteq Date
BY LiveType, VersionAssumption DEF RequestVersion, Date, GameEvent

LEMMA CreateFacts ==
    ASSUME Create
    PROVE  \E user \in Principals, reviewer \in [Team -> ReviewerId], d \in Details :
               /\ d.startAt <= d.endAt
               /\ event' = newEvent(user, reviewer, d)
<1>1. [t \in Team |-> Null] \in [Team -> ReviewerId]
  BY DEF ReviewerId, Unassigned
<1> QED
  BY <1>1, MergeType DEF Create

LEMMA UpdateStatusFacts ==
    ASSUME TypeOK, NEW c \in Calls, UpdateStatus(c)
    PROVE  \E user \in Principals, team \in Team, desired \in ReviewStatus,
              v \in RequestVersion(DecisionVersions) :
               /\ event.reviewer[team] \notin Unassigned
               /\ canTransition(event.status[team], desired, user.role)
               /\ event.status[team] # desired
               /\ \/ user.role = "ADMIN"
                  \/ user.role = "REVIEWER" /\ event.reviewer[team] = user.sub
               /\ call' = [call EXCEPT ![c] = statusUpdate(event, user, team, desired, v)]
               /\ statusUpdate(event, user, team, desired, v) \in StatusUpdate
<1>1. Live /\ event \in GameEvent
  BY LiveType DEF UpdateStatus
<1>2. PICK user \in Principals, asked \in Team \cup {Null}, desired \in ReviewStatus,
           v \in RequestVersion(DecisionVersions) :
        LET team == decideTeam(user, asked, event.reviewer)
        IN  /\ team # Null
            /\ event.reviewer[team] \notin Unassigned
            /\ canTransition(event.status[team], desired, user.role)
            /\ event.status[team] # desired
            /\ call' = [call EXCEPT ![c] = statusUpdate(event, user, team, desired, v)]
  BY DEF UpdateStatus
<1> DEFINE team == decideTeam(user, asked, event.reviewer)
<1>3. /\ team \in Team
      /\ \/ user.role = "ADMIN"
         \/ user.role = "REVIEWER" /\ event.reviewer[team] = user.sub
  BY <1>2, DecideTeamType
<1>4. v \in Date
  BY <1>1, RequestVersionType
<1>5. statusUpdate(event, user, team, desired, v) \in StatusUpdate
  BY <1>1, <1>3, <1>4, StatusUpdateType
<1> QED
  BY <1>2, <1>3, <1>5

LEMMA StartReviewersUpdateFacts ==
    ASSUME TypeOK, NEW c \in Calls, NEW patch \in Patches \cup {NoPatch},
           StartReviewersUpdate(c, patch)
    PROVE  \E user \in Principals, dto \in ReviewerChoice, v \in RequestVersion(PatchVersions) :
               /\ canModifyEvent(user, event)
               /\ call' = [call EXCEPT ![c] = reviewersUpdate(event, user, dto, patch, v)]
               /\ reviewersUpdate(event, user, dto, patch, v) \in ReviewersUpdate
<1>1. Live /\ event \in GameEvent
  BY LiveType DEF StartReviewersUpdate
<1>2. PICK user \in Principals, dto \in ReviewerChoice, v \in RequestVersion(PatchVersions) :
        /\ canModifyEvent(user, event)
        /\ call' = [call EXCEPT ![c] = reviewersUpdate(event, user, dto, patch, v)]
  BY DEF StartReviewersUpdate
<1>3. v \in Date
  BY <1>1, RequestVersionType
<1> QED
  BY <1>1, <1>2, <1>3, ReviewersUpdateType

----------------------------------------------------------------------------
(* The schemas hold in every reachable state: mongoose's field types and the *)
(* enum validators never have to reject what the handlers write.             *)
THEOREM TypeCorrect == Spec => []TypeOK
<1>1. Init => TypeOK
  BY DEF Init, TypeOK
<1>2. TypeOK /\ [Next]_vars => TypeOK'
  <2> SUFFICES ASSUME TypeOK, [Next]_vars PROVE TypeOK'
    OBVIOUS
  <2>1. CASE Create
    <3>1. event' \in GameEvent
      BY <2>1, CreateFacts, NewEventType
    <3> QED BY <2>1, <3>1 DEF Create, TypeOK
  <2>2. ASSUME NEW c \in Calls, UpdateStatus(c) PROVE TypeOK'
    BY <2>2, UpdateStatusFacts DEF UpdateStatus, TypeOK
  <2>3. ASSUME NEW c \in Calls, NEW patch \in Patches \cup {NoPatch},
               StartReviewersUpdate(c, patch)
        PROVE  TypeOK'
    <3>1. PICK cmd \in ReviewersUpdate : call' = [call EXCEPT ![c] = cmd]
      BY <2>3, StartReviewersUpdateFacts
    <3>2. UNCHANGED event
      BY <2>3 DEF StartReviewersUpdate
    <3> QED BY <3>1, <3>2 DEF TypeOK
  <2>4. ASSUME NEW c \in Calls, RemoveByOwnerOrAdmin(c) PROVE TypeOK'
    BY <2>4 DEF RemoveByOwnerOrAdmin, TypeOK, Removal
  <2>5. ASSUME NEW c \in Calls, WriteStatus(c) PROVE TypeOK'
    <3>1. event' \in GameEvent
      BY <2>5, CommandKinds, LiveType, ApplyStatusType DEF WriteStatus, Matches
    <3> QED BY <2>5, <3>1 DEF WriteStatus, TypeOK
  <2>6. ASSUME NEW c \in Calls, WriteReviewers(c) PROVE TypeOK'
    <3>1. event' \in GameEvent
      BY <2>6, CommandKinds, LiveType, ApplyReviewersType DEF WriteReviewers, Matches
    <3> QED BY <2>6, <3>1 DEF WriteReviewers, TypeOK
  <2>7. ASSUME NEW c \in Calls, Conflict(c) PROVE TypeOK'
    BY <2>7 DEF Conflict, TypeOK
  <2>8. ASSUME NEW c \in Calls, DeleteById(c) PROVE TypeOK'
    BY <2>8 DEF DeleteById, TypeOK
  <2>9. CASE Restart
    BY <2>9 DEF Restart, TypeOK
  <2>10. CASE UNCHANGED vars
    BY <2>10 DEF vars, TypeOK
  <2> QED
    BY <2>1, <2>2, <2>3, <2>4, <2>5, <2>6, <2>7, <2>8, <2>9, <2>10
       DEF Next, UpdateReviewers, UpdateByOwnerOrAdmin
<1> QED
  BY <1>1, <1>2, PTL DEF Spec

----------------------------------------------------------------------------
(* What a read or a write makes of each field                                *)

LEMMA ApplyStatusFields ==
    ASSUME NEW ev \in GameEvent, NEW cmd \in StatusUpdate
    PROVE  LET new == applyStatusUpdate(ev, cmd)
           IN  /\ new.ownerId = ev.ownerId
               /\ new.reviewer = ev.reviewer
               /\ new.status = [ev.status EXCEPT ![cmd.team] = cmd.desiredStatus]
               /\ new.reviewedAt = [ev.reviewedAt EXCEPT ![cmd.team] = cmd.now]
               /\ new.finalStatus = cmd.finalStatus
               /\ new.approvedAt = cmd.approvedAt
               /\ new.reviewHistory = Append(ev.reviewHistory, historyEntry(cmd))
               /\ new.v = ev.v + 1
BY DEF applyStatusUpdate, GameEvent

LEMMA ApplyReviewersFields ==
    ASSUME NEW ev \in GameEvent, NEW cmd \in ReviewersUpdate
    PROVE  LET new == applyReviewersUpdate(ev, cmd)
           IN  /\ new.ownerId = ev.ownerId
               /\ new.reviewer = cmd.reviewer
               /\ new.status = cmd.status
               /\ new.reviewedAt = [t \in Team |-> IF t \in cmd.resets THEN Null ELSE ev.reviewedAt[t]]
               /\ new.finalStatus = cmd.finalStatus
               /\ new.approvedAt = cmd.approvedAt
               /\ new.reviewHistory = ev.reviewHistory
               /\ new.v = ev.v + 1
BY DEF applyReviewersUpdate, GameEvent

LEMMA ReviewersUpdateFields ==
    ASSUME NEW ev, NEW user, NEW dto, NEW patch, NEW v
    PROVE  LET cmd == reviewersUpdate(ev, user, dto, patch, v)
           IN  /\ cmd.op = "updateReviewers"
               /\ cmd.user = user /\ cmd.patch = patch /\ cmd.v = v
               /\ cmd.reviewer = mergeReviewers(dto, ev.reviewer)
               /\ cmd.status =
                    recalcStatusesOnReviewerChange(ev.status, ev.reviewer, cmd.reviewer)
               /\ cmd.resets = collectReviewedAtResets(ev, cmd.status)
               /\ cmd.finalStatus = calcFinalStatus(cmd.status)
               /\ cmd.approvedAt = resolveApprovedAt(ev, cmd.finalStatus)
BY DEF reviewersUpdate

LEMMA StatusUpdateFields ==
    ASSUME NEW ev, NEW user, NEW team, NEW desired, NEW v
    PROVE  LET cmd == statusUpdate(ev, user, team, desired, v)
           IN  /\ cmd.op = "updateStatus"
               /\ cmd.user = user /\ cmd.team = team /\ cmd.desiredStatus = desired
               /\ cmd.v = v /\ cmd.now = ev.v
               /\ cmd.prevStatus = ev.status[team]
               /\ cmd.finalStatus = calcFinalStatus([ev.status EXCEPT ![team] = desired])
               /\ cmd.approvedAt = (IF cmd.finalStatus = "APPROVED" THEN ev.v ELSE Null)
BY DEF statusUpdate, computeNextSnapshot

----------------------------------------------------------------------------
(* Statuses paired with reviewers, and decisions on record                   *)

Paired(status, reviewer) ==
    \A t \in Team : status[t] = "NOT_REQUIRED" <=> reviewer[t] \in Unassigned

AllRecorded(history, status) ==
    \A t \in Team : status[t] \in Decided => Recorded(history, t, status[t])

\* Whatever the statuses were, recalculating them pairs them with the new reviewers.
LEMMA RecalcPairs ==
    ASSUME NEW status, NEW before, NEW after
    PROVE  Paired(recalcStatusesOnReviewerChange(status, before, after), after)
BY DEF recalcStatusesOnReviewerChange, Paired

LEMMA InitPairs ==
    ASSUME NEW reviewer
    PROVE  /\ Paired(initStatusesByReviewers(reviewer), reviewer)
           /\ \A t \in Team : initStatusesByReviewers(reviewer)[t] \notin Decided
BY DEF initStatusesByReviewers, Paired, Decided

\* Recalculating invents no decision.
LEMMA RecalcRecorded ==
    ASSUME NEW status, NEW before, NEW after, NEW history, AllRecorded(history, status)
    PROVE  AllRecorded(history, recalcStatusesOnReviewerChange(status, before, after))
BY DEF recalcStatusesOnReviewerChange, AllRecorded, Decided

\* A longer history still records what it recorded.
LEMMA RecordedAppend ==
    ASSUME NEW history \in Seq(ReviewHistory), NEW e \in ReviewHistory, NEW status,
           AllRecorded(history, status)
    PROVE  AllRecorded(Append(history, e), status)
<1>1. \A i \in DOMAIN history : i \in DOMAIN Append(history, e) /\ Append(history, e)[i] = history[i]
  OBVIOUS
<1> QED
  BY <1>1 DEF AllRecorded, Recorded, getTeamHistoryReviews

\* A decision and its history entry, stored together, leave every decision on record.
LEMMA DecisionRecorded ==
    ASSUME NEW ev \in GameEvent, NEW cmd \in StatusUpdate,
           AllRecorded(ev.reviewHistory, ev.status)
    PROVE  AllRecorded(applyStatusUpdate(ev, cmd).reviewHistory, applyStatusUpdate(ev, cmd).status)
<1> DEFINE h == Append(ev.reviewHistory, historyEntry(cmd))
           s == [ev.status EXCEPT ![cmd.team] = cmd.desiredStatus]
<1>1. historyEntry(cmd) \in ReviewHistory
  BY PrincipalsAssumption DEF historyEntry, ReviewHistory, StatusUpdate
<1>2. ev.reviewHistory \in Seq(ReviewHistory)
  BY DEF GameEvent
<1>3. AllRecorded(h, ev.status)
  BY <1>1, <1>2, RecordedAppend
<1>4. Recorded(h, cmd.team, cmd.desiredStatus)
  <2>1. Len(h) \in DOMAIN h /\ h[Len(h)] = historyEntry(cmd)
    BY <1>1, <1>2
  <2> QED BY <2>1 DEF Recorded, getTeamHistoryReviews, historyEntry
<1>5. \A t \in Team : s[t] = IF t = cmd.team THEN cmd.desiredStatus ELSE ev.status[t]
  BY DEF GameEvent
<1>6. AllRecorded(h, s)
  BY <1>3, <1>4, <1>5 DEF AllRecorded
<1> QED
  BY <1>6, ApplyStatusFields

----------------------------------------------------------------------------
(* Safety under every interleaving and every choice of versions. The         *)
(* invariants are not inductive alone: a write is only as sound as the       *)
(* command its handler built earlier, hence CommandsSound.                   *)

DocumentSound == RequiredIffReviewer /\ ApprovalDateMeansApproved /\ DecidedIsRecorded

SoundInv == TypeOK /\ DocumentSound /\ CommandsSound

\* The part of CommandsSound that speaks of one command.
Sound(cmd) ==
    /\ cmd.op = "updateStatus" =>
        /\ cmd.prevStatus # "NOT_REQUIRED"
        /\ cmd.desiredStatus \in Decided
        /\ cmd.approvedAt # Null => cmd.finalStatus = "APPROVED"
    /\ cmd.op = "updateReviewers" =>
        /\ Paired(cmd.status, cmd.reviewer)
        /\ cmd.approvedAt # Null => cmd.finalStatus = "APPROVED"
        /\ Live => AllRecorded(event.reviewHistory, cmd.status)

LEMMA CommandsSoundIsPointwise ==
    CommandsSound <=> /\ event = Null => \A c \in Calls : call[c] = Idle
                      /\ \A c \in Calls : Sound(call[c])
BY DEF CommandsSound, Sound, Paired, AllRecorded

\* A read half adds one sound command and touches nothing else.
LEMMA ReadKeepsSoundInv ==
    ASSUME SoundInv, TypeOK', UNCHANGED event, Live,
           NEW c \in Calls, NEW cmd, call' = [call EXCEPT ![c] = cmd], Sound(cmd)
    PROVE  SoundInv'
<1>1. DocumentSound'
  BY DEF SoundInv, DocumentSound, RequiredIffReviewer, ApprovalDateMeansApproved,
         DecidedIsRecorded, Live
<1>2. event' # Null
  BY DEF Live
<1>3. \A d \in Calls : Sound(call[d])'
  <2> SUFFICES ASSUME NEW d \in Calls PROVE Sound(call[d])'
    OBVIOUS
  <2>1. Sound(call[d])
    BY CommandsSoundIsPointwise DEF SoundInv
  <2>2. call'[d] = IF d = c THEN cmd ELSE call[d]
    BY DEF SoundInv, TypeOK
  <2> QED
    BY <2>1, <2>2 DEF Sound, Live
<1>4. CommandsSound'
  BY <1>2, <1>3 DEF CommandsSound, Sound, Paired, AllRecorded
<1> QED
  BY <1>1, <1>4 DEF SoundInv

\* A write half takes one command away; the others stay sound, for the history
\* only grows or the document is gone.
LEMMA WriteKeepsSoundInv ==
    ASSUME SoundInv, TypeOK', event # Null, event' # Null, DocumentSound',
           NEW c \in Calls, call' = [call EXCEPT ![c] = Idle],
           Live' => \A status : (Live /\ AllRecorded(event.reviewHistory, status))
                                    => AllRecorded(event'.reviewHistory, status),
           Live' => Live
    PROVE  SoundInv'
<1>1. \A d \in Calls : Sound(call[d])'
  <2> SUFFICES ASSUME NEW d \in Calls PROVE Sound(call[d])'
    OBVIOUS
  <2>1. Sound(call[d])
    BY CommandsSoundIsPointwise DEF SoundInv
  <2>2. call'[d] = IF d = c THEN Idle ELSE call[d]
    BY DEF SoundInv, TypeOK
  <2> QED
    BY <2>1, <2>2 DEF Sound, Idle
<1>2. CommandsSound'
  BY <1>1 DEF CommandsSound, Sound, Paired, AllRecorded
<1> QED
  BY <1>2 DEF SoundInv

LEMMA SoundInvInductive ==
    ASSUME SoundInv, [Next]_vars, TypeOK'
    PROVE  SoundInv'
<1> USE DEF SoundInv
<1>1. CASE Create
  <2>1. PICK user \in Principals, reviewer \in [Team -> ReviewerId], d \in Details :
            event' = newEvent(user, reviewer, d)
    BY <1>1, CreateFacts
  <2>2. /\ event'.reviewer = reviewer
        /\ event'.status = initStatusesByReviewers(reviewer)
        /\ event'.approvedAt = Null
    BY <2>1 DEF newEvent
  <2>3. DocumentSound'
    BY <2>2, InitPairs
       DEF DocumentSound, RequiredIffReviewer, ApprovalDateMeansApproved, DecidedIsRecorded, Paired
  <2>4. \A c \in Calls : call'[c] = Idle
    BY <1>1 DEF Create, CommandsSound
  <2>5. CommandsSound'
    BY <2>4 DEF CommandsSound, Idle
  <2> QED BY <2>3, <2>5
<1>2. ASSUME NEW c \in Calls, UpdateStatus(c) PROVE SoundInv'
  <2>1. Live /\ UNCHANGED event
    BY <1>2 DEF UpdateStatus
  <2>2. PICK user \in Principals, team \in Team, desired \in ReviewStatus,
              v \in RequestVersion(DecisionVersions) :
            /\ canTransition(event.status[team], desired, user.role)
            /\ call' = [call EXCEPT ![c] = statusUpdate(event, user, team, desired, v)]
    BY <1>2, UpdateStatusFacts
  <2>3. Sound(statusUpdate(event, user, team, desired, v))
    <3> DEFINE cmd == statusUpdate(event, user, team, desired, v)
    <3>1. /\ cmd.op = "updateStatus"
          /\ cmd.prevStatus = event.status[team] /\ cmd.desiredStatus = desired
          /\ cmd.approvedAt # Null => cmd.finalStatus = "APPROVED"
      BY DEF statusUpdate, computeNextSnapshot
    <3> HIDE DEF cmd
    <3>2. Sound(cmd)
      BY <2>2, <3>1 DEF Sound, canTransition, Decided
    <3> QED BY <3>2 DEF cmd
  <2> QED BY <2>1, <2>2, <2>3, ReadKeepsSoundInv
<1>3. ASSUME NEW c \in Calls, NEW patch \in Patches \cup {NoPatch},
             StartReviewersUpdate(c, patch)
      PROVE  SoundInv'
  <2>1. Live /\ UNCHANGED event
    BY <1>3 DEF StartReviewersUpdate
  <2>2. PICK user \in Principals, dto \in ReviewerChoice, v \in RequestVersion(PatchVersions) :
            call' = [call EXCEPT ![c] = reviewersUpdate(event, user, dto, patch, v)]
    BY <1>3, StartReviewersUpdateFacts
  <2> DEFINE cmd == reviewersUpdate(event, user, dto, patch, v)
  <2>3. Paired(cmd.status, cmd.reviewer)
    BY ReviewersUpdateFields, RecalcPairs
  <2>4. cmd.approvedAt # Null => cmd.finalStatus = "APPROVED"
    BY ReviewersUpdateFields DEF resolveApprovedAt
  <2>5. AllRecorded(event.reviewHistory, event.status)
    BY <2>1 DEF DocumentSound, DecidedIsRecorded, AllRecorded
  <2>6. AllRecorded(event.reviewHistory, cmd.status)
    BY <2>5, ReviewersUpdateFields, RecalcRecorded
  <2>7. Sound(cmd)
    BY <2>3, <2>4, <2>6, ReviewersUpdateFields DEF Sound
  <2> QED BY <2>1, <2>2, <2>7, ReadKeepsSoundInv
<1>4. ASSUME NEW c \in Calls, RemoveByOwnerOrAdmin(c) PROVE SoundInv'
  <2>1. PICK user : call' = [call EXCEPT ![c] = [op |-> "remove", user |-> user]]
    BY <1>4 DEF RemoveByOwnerOrAdmin
  <2>2. Sound([op |-> "remove", user |-> user])
    BY DEF Sound
  <2> QED BY <1>4, <2>1, <2>2, ReadKeepsSoundInv DEF RemoveByOwnerOrAdmin
<1>5. ASSUME NEW c \in Calls, WriteStatus(c) PROVE SoundInv'
  <2> DEFINE cmd == call[c]
  <2>1. /\ Live /\ event \in GameEvent
        /\ cmd \in StatusUpdate /\ cmd.op = "updateStatus"
        /\ event.status[cmd.team] = cmd.prevStatus
        /\ event' = applyStatusUpdate(event, cmd)
        /\ call' = [call EXCEPT ![c] = Idle]
    BY <1>5, CommandKinds, LiveType DEF WriteStatus, Matches
  <2>2. Sound(cmd)
    BY CommandsSoundIsPointwise
  <2>3. event' \in GameEvent
    BY <2>1, ApplyStatusType
  <2>4. event' # Null /\ event # Null
    BY <2>1, <2>3, DocumentAssumption
  <2>5. \A t \in Team :
            event'.status[t] = IF t = cmd.team THEN cmd.desiredStatus ELSE event.status[t]
    BY <2>1, ApplyStatusFields DEF GameEvent
  <2>6. RequiredIffReviewer'
    BY <2>1, <2>2, <2>5, ApplyStatusFields
       DEF RequiredIffReviewer, DocumentSound, Sound, Decided, StatusUpdate
  <2>7. ApprovalDateMeansApproved'
    BY <2>1, <2>2, ApplyStatusFields DEF ApprovalDateMeansApproved, Sound
  <2>8. AllRecorded(event.reviewHistory, event.status)
    BY <2>1 DEF DocumentSound, DecidedIsRecorded, AllRecorded
  <2>9. DecidedIsRecorded'
    BY <2>1, <2>8, DecisionRecorded DEF DecidedIsRecorded, AllRecorded
  <2>10. \A status : AllRecorded(event.reviewHistory, status)
                        => AllRecorded(event'.reviewHistory, status)
    <3>1. historyEntry(cmd) \in ReviewHistory
      BY <2>1, PrincipalsAssumption DEF historyEntry, ReviewHistory, StatusUpdate
    <3>2. event.reviewHistory \in Seq(ReviewHistory)
      BY <2>1 DEF GameEvent
    <3> QED BY <2>1, <3>1, <3>2, RecordedAppend, ApplyStatusFields
  <2> QED
    BY <2>1, <2>4, <2>6, <2>7, <2>9, <2>10, WriteKeepsSoundInv DEF DocumentSound
<1>6. ASSUME NEW c \in Calls, WriteReviewers(c) PROVE SoundInv'
  <2> DEFINE cmd == call[c]
  <2>1. /\ Live /\ event \in GameEvent
        /\ cmd \in ReviewersUpdate /\ cmd.op = "updateReviewers"
        /\ event' = applyReviewersUpdate(event, cmd)
        /\ call' = [call EXCEPT ![c] = Idle]
    BY <1>6, CommandKinds, LiveType DEF WriteReviewers, Matches
  <2>2. Sound(cmd)
    BY CommandsSoundIsPointwise
  <2>3. event' \in GameEvent
    BY <2>1, ApplyReviewersType
  <2>4. event' # Null /\ event # Null
    BY <2>1, <2>3, DocumentAssumption
  <2>5. /\ event'.status = cmd.status /\ event'.reviewer = cmd.reviewer
        /\ event'.finalStatus = cmd.finalStatus /\ event'.approvedAt = cmd.approvedAt
        /\ event'.reviewHistory = event.reviewHistory
    BY <2>1, ApplyReviewersFields
  <2>6. DocumentSound'
    BY <2>1, <2>2, <2>5
       DEF DocumentSound, RequiredIffReviewer, ApprovalDateMeansApproved, DecidedIsRecorded,
           Sound, Paired, AllRecorded
  <2> QED
    BY <2>1, <2>4, <2>5, <2>6, WriteKeepsSoundInv
<1>7. ASSUME NEW c \in Calls, Conflict(c) PROVE SoundInv'
  <2>1. event # Null
    <3>1. call[c] # Idle
      BY <1>7 DEF Conflict, Idle
    <3> QED BY <3>1 DEF CommandsSound
  <2>2. DocumentSound'
    BY <1>7 DEF Conflict, DocumentSound, RequiredIffReviewer, ApprovalDateMeansApproved,
                DecidedIsRecorded, Live
  <2> QED
    BY <1>7, <2>1, <2>2, WriteKeepsSoundInv DEF Conflict, Live
<1>8. ASSUME NEW c \in Calls, DeleteById(c) PROVE SoundInv'
  <2>1. event # Null
    <3>1. call[c] # Idle
      BY <1>8 DEF DeleteById, Idle
    <3> QED BY <3>1 DEF CommandsSound
  <2>2. event' # Null /\ ~Live'
    BY <1>8, DocumentAssumption DEF DeleteById, Live
  <2>3. DocumentSound'
    BY <2>2 DEF DocumentSound, RequiredIffReviewer, ApprovalDateMeansApproved, DecidedIsRecorded
  <2> QED
    BY <1>8, <2>1, <2>2, <2>3, WriteKeepsSoundInv DEF DeleteById
<1>9. CASE Restart
  <2>1. DocumentSound'
    BY <1>9 DEF Restart, DocumentSound, RequiredIffReviewer, ApprovalDateMeansApproved,
                DecidedIsRecorded, Live
  <2>2. CommandsSound'
    BY <1>9 DEF Restart, CommandsSound, Idle
  <2> QED BY <2>1, <2>2
<1>10. CASE UNCHANGED vars
  BY <1>10 DEF vars, DocumentSound, RequiredIffReviewer, ApprovalDateMeansApproved,
               DecidedIsRecorded, CommandsSound, Live
<1> QED
  BY <1>1, <1>2, <1>3, <1>4, <1>5, <1>6, <1>7, <1>8, <1>9, <1>10
     DEF Next, UpdateReviewers, UpdateByOwnerOrAdmin

LEMMA SoundInvHolds == Spec => []SoundInv
<1>1. Init => SoundInv
  BY DEF Init, SoundInv, DocumentSound, RequiredIffReviewer,
     ApprovalDateMeansApproved, DecidedIsRecorded, CommandsSound, Live, Idle, TypeOK
<1>2. SoundInv /\ TypeOK' /\ [Next]_vars => SoundInv'
  BY SoundInvInductive
<1> QED
  BY <1>1, <1>2, TypeCorrect, PTL DEF Spec

\* A decision and a reassignment computed from the same read may both be stored,
\* in either order, with or without versions: whoever ends up unassigned has no
\* review to give, and whoever is assigned has one.
THEOREM RequiredIffReviewerHolds == Spec => []RequiredIffReviewer
BY SoundInvHolds, PTL DEF SoundInv, DocumentSound

\* No interleaving leaves an approval date on an event that is not APPROVED.
THEOREM ApprovalDateHolds == Spec => []ApprovalDateMeansApproved
BY SoundInvHolds, PTL DEF SoundInv, DocumentSound

\* No interleaving shows a decision that the history does not hold.
THEOREM DecidedIsRecordedHolds == Spec => []DecidedIsRecorded
BY SoundInvHolds, PTL DEF SoundInv, DocumentSound

\* Every command in flight is sound by itself, whatever has become of the document.
THEOREM CommandsSoundHolds == Spec => []CommandsSound
BY SoundInvHolds, PTL DEF SoundInv

----------------------------------------------------------------------------
(* Reading and recording                                                     *)

\* The list of events and the single event agree on who may see what: the query's
\* clauses and the predicate of policy.util.ts say the same.
THEOREM ListShowsWhatReadAllowsHolds == Spec => []ListShowsWhatReadAllows
<1>1. ASSUME NEW user \in Principals PROVE buildAccessFilter(user, event) <=> canReadEvent(user, event)
  <2>1. user.role \in Role
    BY PrincipalsAssumption
  <2>2. CASE user.role = "ADMIN"
    BY <2>2 DEF buildAccessFilter, canReadEvent
  <2>3. CASE user.role = "PLANNER"
    BY <2>3 DEF buildAccessFilter, canReadEvent, IsOwner, IsAssigned
  <2>4. CASE user.role = "REVIEWER"
    BY <2>4 DEF buildAccessFilter, canReadEvent, IsOwner, IsAssigned
  <2>5. CASE user.role = "VIEWER"
    BY <2>5 DEF buildAccessFilter, canReadEvent, IsOwner, IsAssigned
  <2> QED BY <2>1, <2>2, <2>3, <2>4, <2>5 DEF Role
<1>2. ListShowsWhatReadAllows
  BY <1>1 DEF ListShowsWhatReadAllows
<1> QED
  BY <1>2, PTL

\* Whatever the interleaving, a review that is shown to its reviewer as PENDING
\* is one the reviewer can decide.
THEOREM WorklistCanBeDecidedHolds == Spec => []WorklistCanBeDecided
<1>1. RequiredIffReviewer => WorklistCanBeDecided
  <2> SUFFICES ASSUME RequiredIffReviewer, Live, NEW user \in Principals,
                      user.role = "REVIEWER",
                      findMyReviews(user.sub, Null, Null, event),
                      listMyReviews(user.sub, event).myStatus = "PENDING"
               PROVE  /\ canReadEvent(user, event)
                      /\ canReadReviewHistory(user, event)
                      /\ decideTeam(user, Null, event.reviewer)
                            = listMyReviews(user.sub, event).myTeam
                      /\ event.reviewer[listMyReviews(user.sub, event).myTeam] \notin Unassigned
                      /\ canTransition(listMyReviews(user.sub, event).myStatus,
                                       "APPROVED", user.role)
    BY DEF WorklistCanBeDecided
  <2> DEFINE mine == {t \in Team : event.reviewer[t] = user.sub}
             first == FirstTeamOf(user.sub, event.reviewer)
  <2>1. mine # {}
    BY DEF findMyReviews
  <2>2. \E t \in mine : \A u \in mine : Rank[t] <= Rank[u]
    BY <2>1 DEF Team, Rank
  <2>3. (CHOOSE t \in mine : \A u \in mine : Rank[t] <= Rank[u]) \in mine
    BY <2>2
  <2>4. first \in mine
    BY <2>1, <2>3 DEF FirstTeamOf
  <2>5. IsAssigned(user, event)
    BY <2>1 DEF IsAssigned
  <2>6. decideTeam(user, Null, event.reviewer) = first
    BY DEF decideTeam
  <2>7. listMyReviews(user.sub, event).myTeam = first
    BY DEF listMyReviews
  <2>8. listMyReviews(user.sub, event).myStatus = IF first = Null THEN Null ELSE event.status[first]
    BY DEF listMyReviews
  <2>9. event.reviewer[first] \notin Unassigned
    <3>1. first \in Team /\ first # "PENDING" /\ event.reviewer[first] = user.sub
      BY <2>4 DEF Team
    <3>2. event.status[first] = "PENDING"
      BY <2>8, <3>1
    <3> QED
      BY <3>1, <3>2 DEF RequiredIffReviewer
  <2> QED
    BY <2>5, <2>6, <2>7, <2>9 DEF canReadEvent, canReadReviewHistory, canTransition, Decided
<1> QED
  BY <1>1, RequiredIffReviewerHolds, PTL

----------------------------------------------------------------------------
(* Legal decisions                                                           *)

\* A decision in flight is a transition that the review state machine allows its
\* caller from the status the handler has read.
TransitionsLegal ==
    \A c \in Calls : call[c].op = "updateStatus" =>
        /\ canTransition(call[c].prevStatus, call[c].desiredStatus, call[c].user.role)
        /\ call[c].prevStatus # call[c].desiredStatus

\* A step that puts no decision in flight leaves the others as they are.
LEMMA SlotKeepsTransitions ==
    ASSUME TypeOK, TransitionsLegal, NEW c \in Calls, NEW cmd,
           call' = [call EXCEPT ![c] = cmd], cmd.op # "updateStatus"
    PROVE  TransitionsLegal'
BY DEF TypeOK, TransitionsLegal

LEMMA TransitionsInductive ==
    ASSUME TypeOK, TransitionsLegal, [Next]_vars
    PROVE  TransitionsLegal'
<1>1. ASSUME UNCHANGED call PROVE TransitionsLegal'
  BY <1>1 DEF TransitionsLegal
<1>2. ASSUME NEW c \in Calls, UpdateStatus(c) PROVE TransitionsLegal'
  <2>1. PICK user \in Principals, team \in Team, desired \in ReviewStatus,
             v \in RequestVersion(DecisionVersions) :
            /\ canTransition(event.status[team], desired, user.role)
            /\ event.status[team] # desired
            /\ call' = [call EXCEPT ![c] = statusUpdate(event, user, team, desired, v)]
    BY <1>2, UpdateStatusFacts
  <2> DEFINE cmd == statusUpdate(event, user, team, desired, v)
  <2>2. /\ cmd.user = user /\ cmd.desiredStatus = desired
        /\ cmd.prevStatus = event.status[team]
    BY DEF statusUpdate
  <2>3. \A d \in Calls : call'[d] = IF d = c THEN cmd ELSE call[d]
    BY <2>1 DEF TypeOK
  <2> HIDE DEF cmd
  <2> QED BY <2>1, <2>2, <2>3 DEF TransitionsLegal
<1>3. ASSUME NEW c \in Calls, NEW patch \in Patches \cup {NoPatch},
             StartReviewersUpdate(c, patch)
      PROVE  TransitionsLegal'
  <2>1. PICK user \in Principals, dto \in ReviewerChoice, v \in RequestVersion(PatchVersions) :
            call' = [call EXCEPT ![c] = reviewersUpdate(event, user, dto, patch, v)]
    BY <1>3, StartReviewersUpdateFacts
  <2> DEFINE cmd == reviewersUpdate(event, user, dto, patch, v)
  <2>2. cmd.op # "updateStatus" /\ call' = [call EXCEPT ![c] = cmd]
    BY <2>1 DEF reviewersUpdate
  <2> HIDE DEF cmd
  <2> QED BY <2>2, SlotKeepsTransitions
<1>4. ASSUME NEW c \in Calls, RemoveByOwnerOrAdmin(c) PROVE TransitionsLegal'
  <2>1. PICK user : call' = [call EXCEPT ![c] = [op |-> "remove", user |-> user]]
    BY <1>4 DEF RemoveByOwnerOrAdmin
  <2> DEFINE cmd == [op |-> "remove", user |-> user]
  <2>2. cmd.op # "updateStatus" /\ call' = [call EXCEPT ![c] = cmd]
    BY <2>1
  <2> HIDE DEF cmd
  <2> QED BY <2>2, SlotKeepsTransitions
<1>5. ASSUME NEW c \in Calls, call' = [call EXCEPT ![c] = Idle] PROVE TransitionsLegal'
  <2>1. Idle.op # "updateStatus"
    BY DEF Idle
  <2> QED BY <1>5, <2>1, SlotKeepsTransitions
<1>6. CASE Restart
  BY <1>6 DEF Restart, TransitionsLegal, Idle
<1> QED
  BY <1>1, <1>2, <1>3, <1>4, <1>5, <1>6
     DEF Next, vars, Create, UpdateReviewers, UpdateByOwnerOrAdmin, WriteStatus, WriteReviewers,
         Conflict, DeleteById

LEMMA TransitionsHold == Spec => []TransitionsLegal
<1>1. Init => TransitionsLegal
  BY DEF Init, TransitionsLegal, Idle
<1>2. TypeOK /\ TransitionsLegal /\ [Next]_vars => TransitionsLegal'
  BY TransitionsInductive
<1> QED
  BY <1>1, <1>2, TypeCorrect, PTL DEF Spec

\* What the state machine of state-machine.util.ts is for: a decision is allowed from
\* the very status it overwrites, however long ago that status was read. A REVIEWER's
\* decision always ends a PENDING one.
LegalDecisions ==
    [][\A c \in Calls : WriteStatus(c) =>
        /\ canTransition(event.status[call[c].team], call[c].desiredStatus, call[c].user.role)
        /\ event.status[call[c].team] # call[c].desiredStatus]_vars

\* The filter on the status read is enough for that, with or without versions.
THEOREM LegalDecisionsHold == Spec => LegalDecisions
<1>1. TransitionsLegal /\ [Next]_vars =>
        [\A c \in Calls : WriteStatus(c) =>
            /\ canTransition(event.status[call[c].team], call[c].desiredStatus, call[c].user.role)
            /\ event.status[call[c].team] # call[c].desiredStatus]_vars
  BY DEF WriteStatus, Matches, TransitionsLegal
<1> QED
  BY <1>1, TransitionsHold, PTL DEF Spec, LegalDecisions

----------------------------------------------------------------------------
(* What a decision stores, with or without a version                         *)

LEMMA WriteStatusStores ==
    ASSUME TypeOK, TransitionsLegal, NEW c \in Calls, WriteStatus(c)
    PROVE  LET user == call[c].user
               team == call[c].team
               desired == call[c].desiredStatus
               now == call[c].now
           IN  /\ Live /\ event \in GameEvent
               /\ user \in Principals /\ team \in Team /\ desired \in Decided /\ now \in Nat
               /\ canTransition(event.status[team], desired, user.role)
               /\ event.status[team] # desired
               /\ event'.ownerId = event.ownerId
               /\ event'.reviewer = event.reviewer
               /\ event'.status = [event.status EXCEPT ![team] = desired]
               /\ event'.reviewedAt = [event.reviewedAt EXCEPT ![team] = now]
               /\ event'.reviewHistory = Append(event.reviewHistory,
                    [team |-> team, reviewerId |-> user.sub, prevStatus |-> event.status[team],
                     nextStatus |-> desired, changedAt |-> now])
               /\ event' \in GameEvent
<1> DEFINE cmd == call[c]
<1>1. /\ Live /\ event \in GameEvent
      /\ cmd \in StatusUpdate /\ cmd.op = "updateStatus"
      /\ event.status[cmd.team] = cmd.prevStatus
      /\ event' = applyStatusUpdate(event, cmd)
  BY CommandKinds, LiveType DEF WriteStatus, Matches
<1>2. /\ canTransition(event.status[cmd.team], cmd.desiredStatus, cmd.user.role)
      /\ event.status[cmd.team] # cmd.desiredStatus
  BY <1>1 DEF TransitionsLegal
<1>3. /\ cmd.user \in Principals /\ cmd.team \in Team /\ cmd.desiredStatus \in Decided
      /\ cmd.now \in Nat
  BY <1>1, <1>2 DEF StatusUpdate, canTransition
<1>4. /\ event'.ownerId = event.ownerId
      /\ event'.reviewer = event.reviewer
      /\ event'.status = [event.status EXCEPT ![cmd.team] = cmd.desiredStatus]
      /\ event'.reviewedAt = [event.reviewedAt EXCEPT ![cmd.team] = cmd.now]
      /\ event'.reviewHistory = Append(event.reviewHistory, historyEntry(cmd))
  BY <1>1, ApplyStatusFields
<1>5. historyEntry(cmd) =
        [team |-> cmd.team, reviewerId |-> cmd.user.sub, prevStatus |-> event.status[cmd.team],
         nextStatus |-> cmd.desiredStatus, changedAt |-> cmd.now]
  BY <1>1 DEF historyEntry
<1>6. event' \in GameEvent
  BY <1>1, ApplyStatusType
<1> QED
  BY <1>1, <1>2, <1>3, <1>4, <1>5, <1>6

\* A stored decision is recorded as what it does to its team.
LEMMA WriteStatusRecords ==
    ASSUME TypeOK, TransitionsLegal, NEW c \in Calls, WriteStatus(c)
    PROVE  call[c].team \in Team /\ RecordsDecision(call[c].team)
<1> DEFINE team == call[c].team
           h == event.reviewHistory
           e == [team |-> team, reviewerId |-> call[c].user.sub, prevStatus |-> event.status[team],
                 nextStatus |-> call[c].desiredStatus, changedAt |-> call[c].now]
<1>1. /\ event \in GameEvent
      /\ call[c].user \in Principals /\ team \in Team
      /\ call[c].desiredStatus \in Decided /\ call[c].now \in Nat
      /\ event.status[team] # call[c].desiredStatus
      /\ event'.status = [event.status EXCEPT ![team] = call[c].desiredStatus]
      /\ event'.reviewHistory = Append(h, e)
  BY WriteStatusStores
<1>2. event'.status[team] = call[c].desiredStatus
  BY <1>1 DEF GameEvent
<1>3. h \in Seq(ReviewHistory) /\ e \in ReviewHistory
  BY <1>1, PrincipalsAssumption DEF GameEvent, ReviewHistory, Decided, ReviewStatus
<1>4. /\ e.team = team
      /\ e.prevStatus = event.status[team]
      /\ e.nextStatus = event'.status[team]
      /\ e.prevStatus # e.nextStatus
  BY <1>1, <1>2
<1> HIDE DEF e, h
<1>5. Len(h) + 1 \in DOMAIN Append(h, e) /\ Append(h, e)[Len(h) + 1] = e
  BY <1>3
<1> QED
  BY <1>1, <1>4, <1>5 DEF RecordsDecision, h

\* The audit trail is append-only and true: with any version or none, an entry is
\* added only for a change of a team's status, by the write that makes the change.
THEOREM HistoryRecordsDecisionsHolds == Spec => HistoryRecordsDecisions
<1> DEFINE Truthful == \/ event'.reviewHistory = event.reviewHistory
                       \/ \E t \in Team : RecordsDecision(t)
<1>1. ASSUME TypeOK, TransitionsLegal, [Next]_vars, Live, Live' PROVE Truthful
  <2>1. ASSUME NEW c \in Calls, WriteStatus(c) PROVE Truthful
    BY <1>1, <2>1, WriteStatusRecords
  <2>2. ASSUME NEW c \in Calls, WriteReviewers(c) PROVE Truthful
    <3>1. /\ event \in GameEvent
          /\ call[c] \in ReviewersUpdate /\ event' = applyReviewersUpdate(event, call[c])
      BY <1>1, <2>2, CommandKinds, LiveType DEF WriteReviewers
    <3> QED BY <3>1, ApplyReviewersFields
  <2>3. CASE Create
    BY <1>1, <2>3 DEF Create, Live
  <2>4. ASSUME NEW c \in Calls, DeleteById(c) PROVE Truthful
    BY <1>1, <2>4 DEF DeleteById, Live
  <2>5. CASE UNCHANGED event
    BY <2>5
  <2> QED
    BY <1>1, <2>1, <2>2, <2>3, <2>4, <2>5
       DEF Next, vars, UpdateStatus, UpdateReviewers, UpdateByOwnerOrAdmin, StartReviewersUpdate,
           RemoveByOwnerOrAdmin, Conflict, Restart
<1>2. TypeOK /\ TransitionsLegal /\ [Next]_vars =>
        [Live /\ Live' =>
            \/ event'.reviewHistory = event.reviewHistory
            \/ \E t \in Team : RecordsDecision(t)]_vars
  BY <1>1
<1> QED
  BY <1>2, TypeCorrect, TransitionsHold, PTL DEF Spec, HistoryRecordsDecisions

=============================================================================
