---------------------- MODULE GameEventsVersionedProofs ----------------------
(***************************************************************************)
(* What holds of GameEvents when clients send versions they have learned,    *)
(* for every set of users, callers, requests and bounds. Each result names   *)
(* the requests that have to carry a version for it:                         *)
(*                                                                          *)
(*   a PATCH of the event or its reviewers   PatchesLearned                  *)
(*   a decision                              DecisionsLearned                *)
(*   both                                    Learned                         *)
(*                                                                          *)
(* The argument is one invariant, FreshFor: a command whose version is still *)
(* the document's was built from this very document, because every write,    *)
(* with or without a version, increments v. So the write half of a request   *)
(* that carries a version acts as if its handler ran atomically. A decision  *)
(* without one still finds the team's status as its handler has read it.     *)
(***************************************************************************)
EXTENDS GameEventsProofs

PatchesLearned == PatchVersions = {"learned"}
DecisionsLearned == DecisionVersions = {"learned"}
Learned == PatchesLearned /\ DecisionsLearned

----------------------------------------------------------------------------
(* CommandsFresh, for the requests that carry learned versions               *)

Versioned == {"updateStatus", "updateReviewers"}

Fresh(cmd) ==
    /\ cmd.v \in Nat
    /\ cmd.v <= event.v
    /\ cmd.v = event.v => BuiltFromCurrent(cmd) /\ Matches(cmd)

FreshFor(ops) == Live => \A c \in Calls : call[c].op \in ops => Fresh(call[c])

\* The operations ops are versioned writes whose clients send learned versions.
LearnedFor(ops) ==
    /\ ops \subseteq Versioned
    /\ "updateStatus" \in ops => DecisionsLearned
    /\ "updateReviewers" \in ops => PatchesLearned

LEMMA CommandsFreshIsFreshFor ==
    /\ CommandsFresh <=> FreshFor(Versioned)
    /\ CommandsFresh' <=> FreshFor(Versioned)'
BY DEF CommandsFresh, FreshFor, Fresh, Versioned

\* A read half that adds a fresh command keeps the others fresh.
LEMMA ReadKeepsFresh ==
    ASSUME NEW ops, FreshFor(ops), TypeOK, Live, UNCHANGED event,
           NEW c \in Calls, NEW cmd, call' = [call EXCEPT ![c] = cmd],
           cmd.op \in ops => Fresh(cmd)
    PROVE  FreshFor(ops)'
<1>1. ASSUME NEW d \in Calls, call'[d].op \in ops PROVE Fresh(call[d])'
  <2>1. call[d].op \in ops => Fresh(call[d])
    BY DEF FreshFor
  <2>2. call'[d] = IF d = c THEN cmd ELSE call[d]
    BY DEF TypeOK
  <2> QED
    BY <1>1, <2>1, <2>2 DEF Fresh, BuiltFromCurrent, Matches, Live
<1> QED
  BY <1>1 DEF FreshFor

\* A write increments v, so every other command in flight becomes outdated.
LEMMA WriteKeepsFresh ==
    ASSUME NEW ops \in SUBSET Versioned, FreshFor(ops), TypeOK, Live,
           event.v \in Nat, event'.v = event.v + 1,
           NEW c \in Calls, call' = [call EXCEPT ![c] = Idle]
    PROVE  FreshFor(ops)'
<1>1. ASSUME NEW d \in Calls, call'[d].op \in ops
      PROVE  call'[d].v \in Nat /\ call'[d].v < event'.v
  <2>1. call'[d] = IF d = c THEN Idle ELSE call[d]
    BY DEF TypeOK
  <2>2. call'[d] = call[d]
    BY <1>1, <2>1 DEF Idle, Versioned
  <2> QED
    BY <1>1, <2>2 DEF FreshFor, Fresh
<1> QED
  BY <1>1 DEF FreshFor, Fresh

LEMMA LearnedVersion ==
    ASSUME TypeOK, Live
    PROVE  \A v \in RequestVersion({"learned"}) : v \in Nat /\ v <= event.v
BY LiveType DEF RequestVersion, GameEvent

LEMMA FreshInductive ==
    ASSUME NEW ops, LearnedFor(ops), TypeOK, CommandsSound, FreshFor(ops), [Next]_vars
    PROVE  FreshFor(ops)'
<1>0. ops \in SUBSET Versioned
  BY DEF LearnedFor
<1>1. CASE Create
  <2>1. \A c \in Calls : call'[c] = Idle
    BY <1>1 DEF Create, CommandsSound
  <2> QED BY <1>0, <2>1 DEF FreshFor, Versioned, Idle
<1>2. ASSUME NEW c \in Calls, UpdateStatus(c) PROVE FreshFor(ops)'
  <2>1. Live /\ UNCHANGED event
    BY <1>2 DEF UpdateStatus
  <2>2. PICK user \in Principals, team \in Team, desired \in ReviewStatus,
             v \in RequestVersion(DecisionVersions) :
            /\ event.reviewer[team] \notin Unassigned
            /\ canTransition(event.status[team], desired, user.role)
            /\ event.status[team] # desired
            /\ \/ user.role = "ADMIN"
               \/ user.role = "REVIEWER" /\ event.reviewer[team] = user.sub
            /\ call' = [call EXCEPT ![c] = statusUpdate(event, user, team, desired, v)]
    BY <1>2, UpdateStatusFacts
  <2> DEFINE cmd == statusUpdate(event, user, team, desired, v)
  <2>3. /\ cmd.op = "updateStatus"
        /\ cmd.user = user /\ cmd.team = team /\ cmd.desiredStatus = desired /\ cmd.v = v
        /\ cmd.prevStatus = event.status[team]
    BY DEF statusUpdate
  <2>4. BuiltFromCurrent(cmd)
    BY <2>2, <2>3 DEF BuiltFromCurrent
  <2>5. cmd.v = event.v => Matches(cmd)
    BY <2>1, <2>3 DEF Matches
  <2>6. cmd.op \in ops => Fresh(cmd)
    BY <2>1, <2>2, <2>3, <2>4, <2>5, LearnedVersion DEF Fresh, LearnedFor, DecisionsLearned
  <2> QED
    BY <2>1, <2>2, <2>6, ReadKeepsFresh
<1>3. ASSUME NEW c \in Calls, NEW patch \in Patches \cup {NoPatch},
             StartReviewersUpdate(c, patch)
      PROVE  FreshFor(ops)'
  <2>1. Live /\ UNCHANGED event
    BY <1>3 DEF StartReviewersUpdate
  <2>2. PICK user \in Principals, dto \in ReviewerChoice, v \in RequestVersion(PatchVersions) :
            /\ canModifyEvent(user, event)
            /\ call' = [call EXCEPT ![c] = reviewersUpdate(event, user, dto, patch, v)]
    BY <1>3, StartReviewersUpdateFacts
  <2> DEFINE cmd == reviewersUpdate(event, user, dto, patch, v)
  <2>3. /\ cmd.op = "updateReviewers"
        /\ cmd.user = user /\ cmd.patch = patch /\ cmd.v = v
    BY DEF reviewersUpdate
  <2>4. BuiltFromCurrent(cmd)
    BY <2>2, <2>3 DEF BuiltFromCurrent
  <2>5. cmd.v = event.v => Matches(cmd)
    BY <2>1, <2>3 DEF Matches
  <2>6. cmd.op \in ops => Fresh(cmd)
    BY <2>1, <2>2, <2>3, <2>4, <2>5, LearnedVersion DEF Fresh, LearnedFor, PatchesLearned
  <2> QED
    BY <2>1, <2>2, <2>6, ReadKeepsFresh
<1>4. ASSUME NEW c \in Calls, RemoveByOwnerOrAdmin(c) PROVE FreshFor(ops)'
  <2>1. PICK user : call' = [call EXCEPT ![c] = [op |-> "remove", user |-> user]]
    BY <1>4 DEF RemoveByOwnerOrAdmin
  <2> DEFINE cmd == [op |-> "remove", user |-> user]
  <2>2. cmd.op \notin ops /\ call' = [call EXCEPT ![c] = cmd]
    BY <1>0, <2>1 DEF Versioned
  <2> HIDE DEF cmd
  <2> QED BY <1>4, <2>2, ReadKeepsFresh DEF RemoveByOwnerOrAdmin
<1>5. ASSUME NEW c \in Calls, WriteStatus(c) PROVE FreshFor(ops)'
  <2>1. /\ Live /\ event \in GameEvent /\ call[c] \in StatusUpdate
        /\ event' = applyStatusUpdate(event, call[c])
        /\ call' = [call EXCEPT ![c] = Idle]
    BY <1>5, CommandKinds, LiveType DEF WriteStatus, Matches
  <2>2. event.v \in Nat /\ event'.v = event.v + 1
    BY <2>1, ApplyStatusFields DEF GameEvent
  <2> QED BY <2>1, <2>2, <1>0, WriteKeepsFresh
<1>6. ASSUME NEW c \in Calls, WriteReviewers(c) PROVE FreshFor(ops)'
  <2>1. /\ Live /\ event \in GameEvent /\ call[c] \in ReviewersUpdate
        /\ event' = applyReviewersUpdate(event, call[c])
        /\ call' = [call EXCEPT ![c] = Idle]
    BY <1>6, CommandKinds, LiveType DEF WriteReviewers, Matches
  <2>2. event.v \in Nat /\ event'.v = event.v + 1
    BY <2>1, ApplyReviewersFields DEF GameEvent
  <2> QED BY <2>1, <2>2, <1>0, WriteKeepsFresh
<1>7. ASSUME NEW c \in Calls, Conflict(c) PROVE FreshFor(ops)'
  <2>1. CASE Live
    <3>1. Idle.op \notin ops
      BY <1>0 DEF Versioned, Idle
    <3> QED BY <1>7, <2>1, <3>1, ReadKeepsFresh DEF Conflict
  <2>2. CASE ~Live
    BY <1>7, <2>2 DEF Conflict, FreshFor, Live
  <2> QED BY <2>1, <2>2
<1>8. ASSUME NEW c \in Calls, DeleteById(c) PROVE FreshFor(ops)'
  BY <1>8 DEF DeleteById, FreshFor, Live
<1>9. CASE Restart
  BY <1>0, <1>9 DEF Restart, FreshFor, Versioned, Idle
<1>10. CASE UNCHANGED vars
  BY <1>10 DEF vars, FreshFor, Fresh, BuiltFromCurrent, Matches, Live
<1> QED
  BY <1>1, <1>2, <1>3, <1>4, <1>5, <1>6, <1>7, <1>8, <1>9, <1>10
     DEF Next, UpdateReviewers, UpdateByOwnerOrAdmin

PatchesFresh == FreshFor({"updateReviewers"})
DecisionsFresh == FreshFor({"updateStatus"})

LEMMA PatchesFreshHolds == ASSUME PatchesLearned PROVE Spec => []PatchesFresh
<1>1. Init => PatchesFresh
  BY DEF Init, Live, PatchesFresh, FreshFor
<1>2. SoundInv /\ PatchesFresh /\ [Next]_vars => PatchesFresh'
  <2>1. LearnedFor({"updateReviewers"})
    BY DEF LearnedFor, Versioned
  <2> QED BY <2>1, FreshInductive DEF SoundInv, PatchesFresh
<1> QED
  BY <1>1, <1>2, SoundInvHolds, PTL DEF Spec

LEMMA DecisionsFreshHolds == ASSUME DecisionsLearned PROVE Spec => []DecisionsFresh
<1>1. Init => DecisionsFresh
  BY DEF Init, Live, DecisionsFresh, FreshFor
<1>2. SoundInv /\ DecisionsFresh /\ [Next]_vars => DecisionsFresh'
  <2>1. LearnedFor({"updateStatus"})
    BY DEF LearnedFor, Versioned
  <2> QED BY <2>1, FreshInductive DEF SoundInv, DecisionsFresh
<1> QED
  BY <1>1, <1>2, SoundInvHolds, PTL DEF Spec

\* README, section 4: when clients send the versions they have learned, 409 means
\* that somebody else's write came first, and a write that is stored was computed
\* from the document it overwrites.
THEOREM CommandsFreshHolds == ASSUME Learned PROVE Spec => []CommandsFresh
<1>1. Init => CommandsFresh
  BY DEF Init, Live, CommandsFresh
<1>2. SoundInv /\ CommandsFresh /\ [Next]_vars => CommandsFresh'
  <2>1. LearnedFor(Versioned)
    BY DEF Learned, LearnedFor, Versioned
  <2> QED BY <2>1, FreshInductive, CommandsFreshIsFreshFor DEF SoundInv
<1> QED
  BY <1>1, <1>2, SoundInvHolds, PTL DEF Spec

----------------------------------------------------------------------------
(* Atomic handlers: what a write stores is computed from what it overwrites  *)

LEMMA WriteStatusIsAtomic ==
    ASSUME TypeOK, DecisionsFresh, NEW c \in Calls, WriteStatus(c)
    PROVE  LET user == call[c].user
               team == call[c].team
               desired == call[c].desiredStatus
           IN  /\ Live /\ event \in GameEvent
               /\ user \in Principals /\ team \in Team /\ desired \in Decided
               /\ event.reviewer[team] \notin Unassigned
               /\ canTransition(event.status[team], desired, user.role)
               /\ event.status[team] # desired
               /\ \/ user.role = "ADMIN"
                  \/ user.role = "REVIEWER" /\ event.reviewer[team] = user.sub
               /\ event'.ownerId = event.ownerId
               /\ event'.reviewer = event.reviewer
               /\ event'.status = [event.status EXCEPT ![team] = desired]
               /\ event'.reviewedAt = [event.reviewedAt EXCEPT ![team] = event.v]
               /\ event'.finalStatus = calcFinalStatus(event'.status)
               /\ event'.reviewHistory = Append(event.reviewHistory,
                    [team |-> team, reviewerId |-> user.sub, prevStatus |-> event.status[team],
                     nextStatus |-> desired, changedAt |-> event.v])
               /\ event' \in GameEvent
<1> DEFINE cmd == call[c]
<1>1. /\ Live /\ event \in GameEvent
      /\ cmd \in StatusUpdate /\ cmd.op = "updateStatus"
      /\ cmd.v \in {Null, event.v}
      /\ event' = applyStatusUpdate(event, cmd)
  BY CommandKinds, LiveType DEF WriteStatus, Matches
<1>2. cmd.v = event.v
  BY <1>1, NullAssumption DEF DecisionsFresh, FreshFor, Fresh
<1>3. BuiltFromCurrent(cmd)
  BY <1>1, <1>2 DEF DecisionsFresh, FreshFor, Fresh
<1>4. /\ cmd = statusUpdate(event, cmd.user, cmd.team, cmd.desiredStatus, cmd.v)
      /\ event.reviewer[cmd.team] \notin Unassigned
      /\ canTransition(event.status[cmd.team], cmd.desiredStatus, cmd.user.role)
      /\ event.status[cmd.team] # cmd.desiredStatus
      /\ \/ cmd.user.role = "ADMIN"
         \/ cmd.user.role = "REVIEWER" /\ event.reviewer[cmd.team] = cmd.user.sub
  BY <1>1, <1>3 DEF BuiltFromCurrent
<1>5. /\ cmd.prevStatus = event.status[cmd.team]
      /\ cmd.now = event.v
      /\ cmd.finalStatus = calcFinalStatus([event.status EXCEPT ![cmd.team] = cmd.desiredStatus])
  BY <1>4 DEF statusUpdate, computeNextSnapshot
<1>6. cmd.user \in Principals /\ cmd.team \in Team /\ cmd.desiredStatus \in Decided
  BY <1>1, <1>4 DEF StatusUpdate, canTransition
<1>7. /\ event'.ownerId = event.ownerId
      /\ event'.reviewer = event.reviewer
      /\ event'.status = [event.status EXCEPT ![cmd.team] = cmd.desiredStatus]
      /\ event'.reviewedAt = [event.reviewedAt EXCEPT ![cmd.team] = cmd.now]
      /\ event'.finalStatus = cmd.finalStatus
      /\ event'.reviewHistory = Append(event.reviewHistory, historyEntry(cmd))
  BY <1>1, ApplyStatusFields
<1>8. historyEntry(cmd) =
        [team |-> cmd.team, reviewerId |-> cmd.user.sub, prevStatus |-> event.status[cmd.team],
         nextStatus |-> cmd.desiredStatus, changedAt |-> event.v]
  BY <1>5 DEF historyEntry
<1>9. event' \in GameEvent
  BY <1>1, ApplyStatusType
<1> QED
  BY <1>1, <1>4, <1>5, <1>6, <1>7, <1>8, <1>9

LEMMA WriteReviewersIsAtomic ==
    ASSUME TypeOK, PatchesFresh, NEW c \in Calls, WriteReviewers(c)
    PROVE  \E dto \in ReviewerChoice :
            /\ Live /\ event \in GameEvent
            /\ canModifyEvent(call[c].user, event)
            /\ event'.ownerId = event.ownerId
            /\ event'.reviewer = mergeReviewers(dto, event.reviewer)
            /\ event'.status =
                    recalcStatusesOnReviewerChange(event.status, event.reviewer, event'.reviewer)
            /\ event'.reviewedAt =
                    [t \in Team |-> IF t \in collectReviewedAtResets(event, event'.status)
                                    THEN Null ELSE event.reviewedAt[t]]
            /\ event'.finalStatus = calcFinalStatus(event'.status)
            /\ event'.approvedAt = resolveApprovedAt(event, event'.finalStatus)
            /\ event'.reviewHistory = event.reviewHistory
            /\ event' \in GameEvent
<1> DEFINE cmd == call[c]
<1>1. /\ Live /\ event \in GameEvent
      /\ cmd \in ReviewersUpdate /\ cmd.op = "updateReviewers"
      /\ cmd.v \in {Null, event.v}
      /\ event' = applyReviewersUpdate(event, cmd)
  BY CommandKinds, LiveType DEF WriteReviewers, Matches
<1>2. cmd.v = event.v
  BY <1>1, NullAssumption DEF PatchesFresh, FreshFor, Fresh
<1>3. BuiltFromCurrent(cmd)
  BY <1>1, <1>2 DEF PatchesFresh, FreshFor, Fresh
<1>4. PICK dto \in ReviewerChoice :
        /\ canModifyEvent(cmd.user, event)
        /\ cmd = reviewersUpdate(event, cmd.user, dto, cmd.patch, cmd.v)
  BY <1>1, <1>3 DEF BuiltFromCurrent
<1>5. /\ cmd.reviewer = mergeReviewers(dto, event.reviewer)
      /\ cmd.status = recalcStatusesOnReviewerChange(event.status, event.reviewer, cmd.reviewer)
      /\ cmd.resets = collectReviewedAtResets(event, cmd.status)
      /\ cmd.finalStatus = calcFinalStatus(cmd.status)
      /\ cmd.approvedAt = resolveApprovedAt(event, cmd.finalStatus)
  BY <1>4 DEF reviewersUpdate
<1>6. /\ event'.ownerId = event.ownerId
      /\ event'.reviewer = cmd.reviewer
      /\ event'.status = cmd.status
      /\ event'.reviewedAt =
            [t \in Team |-> IF t \in cmd.resets THEN Null ELSE event.reviewedAt[t]]
      /\ event'.finalStatus = cmd.finalStatus
      /\ event'.approvedAt = cmd.approvedAt
      /\ event'.reviewHistory = event.reviewHistory
  BY <1>1, ApplyReviewersFields
<1>7. event' \in GameEvent
  BY <1>1, ApplyReviewersType
<1> QED
  BY <1>1, <1>4, <1>5, <1>6, <1>7

----------------------------------------------------------------------------
(* The dates and the history agree with the statuses, if PATCHes are learned *)

Dated == ReviewedAtConsistent /\ HistoryTipIsStatus

\* The latest entry of a team is the given decision with the given date.
Tip(history, team, status, date) ==
    \E i \in DOMAIN history :
        /\ history[i].team = team
        /\ history[i].nextStatus = status
        /\ history[i].changedAt = date
        /\ \A j \in i + 1 .. Len(history) : history[j].team # team

\* An entry of another team leaves the tip where it was.
LEMMA TipKept ==
    ASSUME NEW history \in Seq(ReviewHistory), NEW e \in ReviewHistory, NEW team, NEW status,
           NEW date, Tip(history, team, status, date), e.team # team
    PROVE  Tip(Append(history, e), team, status, date)
<1> DEFINE h == Append(history, e)
<1>1. /\ Len(h) = Len(history) + 1 /\ Len(history) \in Nat
      /\ DOMAIN history = 1 .. Len(history) /\ DOMAIN h = 1 .. Len(h)
      /\ \A i \in 1 .. Len(history) : h[i] = history[i]
      /\ h[Len(history) + 1] = e
  OBVIOUS
<1>2. PICK i \in DOMAIN history :
        /\ history[i].team = team
        /\ history[i].nextStatus = status
        /\ history[i].changedAt = date
        /\ \A j \in i + 1 .. Len(history) : history[j].team # team
  BY DEF Tip
<1>3. ASSUME NEW j \in i + 1 .. Len(h) PROVE h[j].team # team
  <2>1. CASE j = Len(history) + 1
    BY <1>1, <2>1
  <2>2. CASE j # Len(history) + 1
    <3>1. j \in i + 1 .. Len(history) /\ j \in 1 .. Len(history)
      BY <1>1, <2>2
    <3> QED BY <1>1, <1>2, <3>1
  <2> QED BY <2>1, <2>2
<1>4. i \in DOMAIN h /\ h[i] = history[i]
  BY <1>1
<1> HIDE DEF h
<1>5. Tip(h, team, status, date)
  BY <1>2, <1>3, <1>4 DEF Tip
<1> QED BY <1>5 DEF h

LEMMA TipAppended ==
    ASSUME NEW history \in Seq(ReviewHistory), NEW e \in ReviewHistory
    PROVE  Tip(Append(history, e), e.team, e.nextStatus, e.changedAt)
<1> DEFINE h == Append(history, e)
<1>1. /\ Len(h) \in DOMAIN h /\ h[Len(h)] = e /\ Len(h) \in Nat
  OBVIOUS
<1> HIDE DEF h
<1>2. \A j \in Len(h) + 1 .. Len(h) : FALSE
  BY <1>1
<1>3. Tip(h, e.team, e.nextStatus, e.changedAt)
  BY <1>1, <1>2 DEF Tip
<1> QED BY <1>3 DEF h

LEMMA WriteStatusKeepsDated ==
    ASSUME TypeOK, TransitionsLegal, Dated, NEW c \in Calls, WriteStatus(c)
    PROVE  Dated'
<1> DEFINE user == call[c].user
           team == call[c].team
           desired == call[c].desiredStatus
           now == call[c].now
           e == [team |-> team, reviewerId |-> user.sub, prevStatus |-> event.status[team],
                 nextStatus |-> desired, changedAt |-> now]
<1>1. /\ Live /\ event \in GameEvent /\ event' \in GameEvent
      /\ user \in Principals /\ team \in Team /\ desired \in Decided /\ now \in Nat
      /\ event'.status = [event.status EXCEPT ![team] = desired]
      /\ event'.reviewedAt = [event.reviewedAt EXCEPT ![team] = now]
      /\ event'.reviewHistory = Append(event.reviewHistory, e)
  BY WriteStatusStores
<1>2. /\ \A t \in Team : event'.status[t] = IF t = team THEN desired ELSE event.status[t]
      /\ \A t \in Team : event'.reviewedAt[t] = IF t = team THEN now ELSE event.reviewedAt[t]
  BY <1>1 DEF GameEvent
<1>3. ReviewedAtConsistent'
  BY <1>1, <1>2, NullAssumption DEF Dated, ReviewedAtConsistent
<1>4. event.reviewHistory \in Seq(ReviewHistory) /\ e \in ReviewHistory
  BY <1>1, PrincipalsAssumption DEF GameEvent, ReviewHistory, Decided, ReviewStatus
<1>5. ASSUME NEW t \in Team, event'.status[t] \in Decided
      PROVE  Tip(event'.reviewHistory, t, event'.status[t], event'.reviewedAt[t])
  <2>1. CASE t = team
    <3>1. Tip(Append(event.reviewHistory, e), e.team, e.nextStatus, e.changedAt)
      BY <1>4, TipAppended
    <3> QED BY <1>1, <1>2, <2>1, <3>1
  <2>2. CASE t # team
    <3>1. Tip(event.reviewHistory, t, event.status[t], event.reviewedAt[t])
      BY <1>1, <1>2, <1>5, <2>2 DEF Dated, HistoryTipIsStatus, Tip
    <3> QED BY <1>1, <1>2, <1>4, <2>2, <3>1, TipKept
  <2> QED BY <2>1, <2>2
<1>6. HistoryTipIsStatus'
  BY <1>5 DEF HistoryTipIsStatus, Tip
<1> QED
  BY <1>3, <1>6 DEF Dated

LEMMA WriteReviewersKeepsDated ==
    ASSUME TypeOK, PatchesFresh, Dated, NEW c \in Calls, WriteReviewers(c)
    PROVE  Dated'
<1>1. PICK dto \in ReviewerChoice :
        /\ Live /\ event \in GameEvent /\ event' \in GameEvent
        /\ event'.status =
                recalcStatusesOnReviewerChange(event.status, event.reviewer, event'.reviewer)
        /\ event'.reviewedAt =
                [t \in Team |-> IF t \in collectReviewedAtResets(event, event'.status)
                                THEN Null ELSE event.reviewedAt[t]]
        /\ event'.reviewHistory = event.reviewHistory
  BY WriteReviewersIsAtomic
\* A team that is decided afterwards was so before and keeps its date.
<1>2. ASSUME NEW t \in Team, event'.status[t] \in Decided
      PROVE  event'.status[t] = event.status[t] /\ event'.reviewedAt[t] = event.reviewedAt[t]
  BY <1>1, <1>2 DEF recalcStatusesOnReviewerChange, collectReviewedAtResets, Decided
\* A team that is not decided afterwards has lost its date, or had none.
<1>3. ASSUME NEW t \in Team, event'.status[t] \notin Decided
      PROVE  event'.reviewedAt[t] = Null
  <2>1. event'.status[t] \in {"PENDING", "NOT_REQUIRED"}
    BY <1>1, <1>3 DEF GameEvent, ReviewStatus, Decided
  <2>2. event'.reviewedAt[t] = IF event'.status[t] # event.status[t]
                               THEN Null ELSE event.reviewedAt[t]
    BY <1>1, <2>1 DEF collectReviewedAtResets
  <2> QED
    BY <1>1, <1>3, <2>2 DEF Dated, ReviewedAtConsistent
<1>4. ReviewedAtConsistent'
  BY <1>1, <1>2, <1>3 DEF Dated, ReviewedAtConsistent
<1>5. HistoryTipIsStatus'
  BY <1>1, <1>2 DEF Dated, HistoryTipIsStatus
<1> QED
  BY <1>4, <1>5 DEF Dated

LEMMA DatedInductive ==
    ASSUME TypeOK, TransitionsLegal, PatchesFresh, Dated, [Next]_vars
    PROVE  Dated'
<1>1. CASE Create
  <2>1. PICK user \in Principals, reviewer \in [Team -> ReviewerId], d \in Details :
            event' = newEvent(user, reviewer, d)
    BY <1>1, CreateFacts
  <2>2. /\ event'.status = initStatusesByReviewers(reviewer)
        /\ event'.reviewedAt = [t \in Team |-> Null]
    BY <2>1 DEF newEvent
  <2> QED
    BY <2>2, InitPairs DEF Dated, ReviewedAtConsistent, HistoryTipIsStatus
<1>2. ASSUME NEW c \in Calls, WriteStatus(c) PROVE Dated'
  BY <1>2, WriteStatusKeepsDated
<1>3. ASSUME NEW c \in Calls, WriteReviewers(c) PROVE Dated'
  BY <1>3, WriteReviewersKeepsDated
<1>4. ASSUME NEW c \in Calls, DeleteById(c) PROVE Dated'
  BY <1>4 DEF DeleteById, Live, Dated, ReviewedAtConsistent, HistoryTipIsStatus
<1>5. CASE UNCHANGED event
  BY <1>5 DEF Live, Dated, ReviewedAtConsistent, HistoryTipIsStatus
<1> QED
  BY <1>1, <1>2, <1>3, <1>4, <1>5
     DEF Next, vars, UpdateStatus, UpdateReviewers, UpdateByOwnerOrAdmin, StartReviewersUpdate,
         RemoveByOwnerOrAdmin, Conflict, Restart

LEMMA DatedHolds == ASSUME PatchesLearned PROVE Spec => []Dated
<1>1. Init => Dated
  BY DEF Init, Live, Dated, ReviewedAtConsistent, HistoryTipIsStatus
<1>2. TypeOK /\ TransitionsLegal /\ PatchesFresh /\ Dated /\ [Next]_vars => Dated'
  BY DatedInductive
<1> QED
  BY <1>1, <1>2, TypeCorrect, TransitionsHold, PatchesFreshHolds, PTL DEF Spec

\* README, section 5: completion dates come and go with the decisions.
THEOREM ReviewedAtHolds == ASSUME PatchesLearned PROVE Spec => []ReviewedAtConsistent
BY DatedHolds, PTL DEF Dated

\* The audit trail explains every decision the document shows.
THEOREM HistoryTipHolds == ASSUME PatchesLearned PROVE Spec => []HistoryTipIsStatus
BY DatedHolds, PTL DEF Dated

----------------------------------------------------------------------------
(* The final status, which the decisions of all teams compute                *)

LEMMA FinalStatusInductive ==
    ASSUME TypeOK, DecisionsFresh, PatchesFresh, FinalStatusConsistent, [Next]_vars
    PROVE  FinalStatusConsistent'
<1>1. CASE Create
  <2>1. PICK user \in Principals, reviewer \in [Team -> ReviewerId], d \in Details :
            event' = newEvent(user, reviewer, d)
    BY <1>1, CreateFacts
  <2> QED
    BY <2>1 DEF newEvent, FinalStatusConsistent
<1>2. ASSUME NEW c \in Calls, WriteStatus(c) PROVE FinalStatusConsistent'
  BY <1>2, WriteStatusIsAtomic DEF FinalStatusConsistent
<1>3. ASSUME NEW c \in Calls, WriteReviewers(c) PROVE FinalStatusConsistent'
  BY <1>3, WriteReviewersIsAtomic DEF FinalStatusConsistent
<1>4. ASSUME NEW c \in Calls, DeleteById(c) PROVE FinalStatusConsistent'
  BY <1>4 DEF DeleteById, Live, FinalStatusConsistent
<1>5. CASE UNCHANGED event
  BY <1>5 DEF Live, FinalStatusConsistent
<1> QED
  BY <1>1, <1>2, <1>3, <1>4, <1>5
     DEF Next, vars, UpdateStatus, UpdateReviewers, UpdateByOwnerOrAdmin, StartReviewersUpdate,
         RemoveByOwnerOrAdmin, Conflict, Restart

\* README, section 3: the final status is always the one the statuses call for.
THEOREM FinalStatusHolds == ASSUME Learned PROVE Spec => []FinalStatusConsistent
<1>1. Init => FinalStatusConsistent
  BY DEF Init, Live, FinalStatusConsistent
<1>2. TypeOK /\ DecisionsFresh /\ PatchesFresh /\ FinalStatusConsistent /\ [Next]_vars
        => FinalStatusConsistent'
  BY FinalStatusInductive
<1>3. DecisionsLearned /\ PatchesLearned
  BY DEF Learned
<1> QED
  BY <1>1, <1>2, <1>3, TypeCorrect, DecisionsFreshHolds, PatchesFreshHolds, PTL DEF Spec

----------------------------------------------------------------------------
(* Action properties                                                         *)

\* The audit trail explains the statuses: with a learned version in every PATCH,
\* whatever decisions carry, no team's status changes but by a decision on record or
\* by a reassignment of that team, in one write that does nothing else to reviews.
THEOREM HistoryExplainsStatusHolds == ASSUME PatchesLearned PROVE Spec => HistoryExplainsStatus
<1> DEFINE ByDecision == /\ \E t \in Team :
                            /\ RecordsDecision(t)
                            /\ \A u \in Team \ {t} : event'.status[u] = event.status[u]
                       /\ event'.reviewer = event.reviewer
           Reassigned == /\ event'.reviewHistory = event.reviewHistory
                         /\ \A t \in Team : \/ event'.status[t] = event.status[t]
                                            \/ event'.reviewer[t] # event.reviewer[t]
<1>1. ASSUME TypeOK, TransitionsLegal, PatchesFresh, RequiredIffReviewer, [Next]_vars, Live, Live'
      PROVE  ByDecision \/ Reassigned
  <2>1. ASSUME NEW c \in Calls, WriteStatus(c) PROVE ByDecision
    <3>1. /\ event \in GameEvent
          /\ event'.reviewer = event.reviewer
          /\ event'.status = [event.status EXCEPT ![call[c].team] = call[c].desiredStatus]
      BY <1>1, <2>1, WriteStatusStores
    <3>2. call[c].team \in Team /\ RecordsDecision(call[c].team)
      BY <1>1, <2>1, WriteStatusRecords
    <3>3. \A u \in Team \ {call[c].team} : event'.status[u] = event.status[u]
      BY <3>1 DEF GameEvent
    <3> QED BY <3>1, <3>2, <3>3
  <2>2. ASSUME NEW c \in Calls, WriteReviewers(c) PROVE Reassigned
    <3>1. /\ event'.reviewHistory = event.reviewHistory
          /\ event'.status =
                recalcStatusesOnReviewerChange(event.status, event.reviewer, event'.reviewer)
      BY <1>1, <2>2, WriteReviewersIsAtomic
    <3>2. ASSUME NEW t \in Team, event'.reviewer[t] = event.reviewer[t]
          PROVE  event'.status[t] = event.status[t]
      BY <1>1, <3>1, <3>2 DEF recalcStatusesOnReviewerChange, RequiredIffReviewer
    <3> QED BY <3>1, <3>2
  <2>3. CASE Create
    BY <1>1, <2>3 DEF Create, Live
  <2>4. ASSUME NEW c \in Calls, DeleteById(c) PROVE FALSE
    BY <1>1, <2>4 DEF DeleteById, Live
  <2>5. CASE UNCHANGED event
    BY <2>5
  <2> QED
    BY <1>1, <2>1, <2>2, <2>3, <2>4, <2>5
       DEF Next, vars, UpdateStatus, UpdateReviewers, UpdateByOwnerOrAdmin, StartReviewersUpdate,
           RemoveByOwnerOrAdmin, Conflict, Restart
<1>2. TypeOK /\ TransitionsLegal /\ PatchesFresh /\ RequiredIffReviewer /\ [Next]_vars =>
        [Live /\ Live' =>
            \/ /\ \E t \in Team : /\ RecordsDecision(t)
                                  /\ \A u \in Team \ {t} : event'.status[u] = event.status[u]
               /\ event'.reviewer = event.reviewer
            \/ /\ event'.reviewHistory = event.reviewHistory
               /\ \A t \in Team : \/ event'.status[t] = event.status[t]
                                  \/ event'.reviewer[t] # event.reviewer[t]]_vars
  BY <1>1
<1> QED
  BY <1>2, TypeCorrect, TransitionsHold, PatchesFreshHolds, RequiredIffReviewerHolds, PTL
     DEF Spec, HistoryExplainsStatus

\* README, role table: the reviewer who decides is still assigned when the
\* decision is stored.
THEOREM DecisionByAssignedHolds == ASSUME DecisionsLearned PROVE Spec => DecisionByAssigned
<1>1. TypeOK /\ DecisionsFresh /\ [Next]_vars =>
        [\A c \in Calls : WriteStatus(c) =>
            \/ call[c].user.role = "ADMIN"
            \/ event.reviewer[call[c].team] = call[c].user.sub]_vars
  BY WriteStatusIsAtomic
<1> QED
  BY <1>1, TypeCorrect, DecisionsFreshHolds, PTL DEF Spec, DecisionByAssigned

\* README, section 2: only an ADMIN's own request turns a decision over, no PATCH does.
THEOREM RevisionOnlyByAdminHolds == ASSUME PatchesLearned PROVE Spec => RevisionOnlyByAdmin
<1> DEFINE Revised(t) == /\ Live /\ Live'
                         /\ event.status[t] \in Decided
                         /\ event'.status[t] \in Decided \ {event.status[t]}
           ByAdmin(t) == \E c \in Calls : /\ WriteStatus(c)
                                         /\ call[c].team = t
                                         /\ call[c].user.role = "ADMIN"
<1>1. ASSUME TypeOK, TransitionsLegal, PatchesFresh, [Next]_vars, NEW t \in Team, Revised(t) PROVE ByAdmin(t)
  <2>1. CASE Create
    BY <1>1, <2>1 DEF Create, Live
  <2>2. ASSUME NEW c \in Calls, WriteStatus(c) PROVE ByAdmin(t)
    <3>1. /\ event \in GameEvent /\ call[c].team \in Team
          /\ event'.status = [event.status EXCEPT ![call[c].team] = call[c].desiredStatus]
          /\ canTransition(event.status[call[c].team], call[c].desiredStatus, call[c].user.role)
      BY <1>1, <2>2, WriteStatusStores
    <3>2. call[c].team = t
      BY <1>1, <3>1 DEF GameEvent
    <3>3. call[c].user.role = "ADMIN"
      BY <1>1, <3>1, <3>2 DEF canTransition, Decided
    <3> QED BY <2>2, <3>2, <3>3
  <2>3. ASSUME NEW c \in Calls, WriteReviewers(c) PROVE FALSE
    <3>1. event'.status =
            recalcStatusesOnReviewerChange(event.status, event.reviewer, event'.reviewer)
      BY <1>1, <2>3, WriteReviewersIsAtomic
    <3> QED BY <1>1, <3>1 DEF recalcStatusesOnReviewerChange, Decided
  <2>4. ASSUME NEW c \in Calls, DeleteById(c) PROVE FALSE
    BY <1>1, <2>4 DEF DeleteById, Live
  <2>5. CASE UNCHANGED event
    BY <1>1, <2>5
  <2> QED
    BY <1>1, <2>1, <2>2, <2>3, <2>4, <2>5
       DEF Next, vars, UpdateStatus, UpdateReviewers, UpdateByOwnerOrAdmin, StartReviewersUpdate,
           RemoveByOwnerOrAdmin, Conflict, Restart
<1>2. TypeOK /\ TransitionsLegal /\ PatchesFresh /\ [Next]_vars =>
        [\A t \in Team :
            (/\ Live /\ Live'
             /\ event.status[t] \in Decided
             /\ event'.status[t] \in Decided \ {event.status[t]})
            => \E c \in Calls : /\ WriteStatus(c)
                                /\ call[c].team = t
                                /\ call[c].user.role = "ADMIN"]_vars
  BY <1>1
<1> QED
  BY <1>2, TypeCorrect, TransitionsHold, PatchesFreshHolds, PTL
     DEF Spec, RevisionOnlyByAdmin

\* What the final status says about the team statuses it was computed from.
LEMMA ApprovedMeans ==
    ASSUME NEW status, NEW t \in Team, calcFinalStatus(status) = "APPROVED"
    PROVE  status[t] \notin {"PENDING", "REJECTED"}
BY DEF calcFinalStatus

\* The date of an approval is the date it was first reached: no review and no
\* PATCH that leaves the event APPROVED moves it.
THEOREM ApprovalDateStableHolds == ASSUME Learned PROVE Spec => ApprovalDateStable
<1> DEFINE Stays == event.approvedAt # Null => event'.approvedAt = event.approvedAt
<1>1. ASSUME TypeOK, DecisionsFresh, PatchesFresh, FinalStatusConsistent, [Next]_vars, Live, Live',
             event.finalStatus = "APPROVED", event'.finalStatus = "APPROVED"
      PROVE  Stays
  <2>1. CASE Create
    BY <1>1, <2>1 DEF Create, Live
  <2>2. ASSUME NEW c \in Calls, WriteStatus(c) PROVE FALSE
    <3> DEFINE team == call[c].team
               desired == call[c].desiredStatus
    <3>1. /\ event \in GameEvent /\ team \in Team /\ desired \in Decided
          /\ canTransition(event.status[team], desired, call[c].user.role)
          /\ event.status[team] # desired
          /\ event'.status = [event.status EXCEPT ![team] = desired]
          /\ event'.finalStatus = calcFinalStatus(event'.status)
      BY <1>1, <2>2, WriteStatusIsAtomic
    <3>2. calcFinalStatus(event.status) = "APPROVED"
      BY <1>1 DEF FinalStatusConsistent
    <3>3. event.status[team] = "APPROVED"
      BY <3>1, <3>2, ApprovedMeans DEF canTransition, Decided
    <3>4. event'.status[team] = "REJECTED"
      BY <3>1, <3>3 DEF Decided, GameEvent
    <3>5. calcFinalStatus(event'.status) = "APPROVED"
      BY <1>1, <3>1
    <3>6. event'.status[team] # "REJECTED"
      BY <3>1, <3>5, ApprovedMeans
    <3> QED BY <3>4, <3>6
  <2>3. ASSUME NEW c \in Calls, WriteReviewers(c) PROVE Stays
    <3>1. event'.approvedAt = resolveApprovedAt(event, event'.finalStatus)
      BY <1>1, <2>3, WriteReviewersIsAtomic
    <3> QED BY <1>1, <3>1 DEF resolveApprovedAt
  <2>4. ASSUME NEW c \in Calls, DeleteById(c) PROVE FALSE
    BY <1>1, <2>4 DEF DeleteById, Live
  <2>5. CASE UNCHANGED event
    BY <2>5
  <2> QED
    BY <1>1, <2>1, <2>2, <2>3, <2>4, <2>5
       DEF Next, vars, UpdateStatus, UpdateReviewers, UpdateByOwnerOrAdmin, StartReviewersUpdate,
           RemoveByOwnerOrAdmin, Conflict, Restart
<1>2. TypeOK /\ DecisionsFresh /\ PatchesFresh /\ FinalStatusConsistent /\ [Next]_vars =>
        [(Live /\ Live' /\ event.finalStatus = "APPROVED" /\ event'.finalStatus = "APPROVED")
            => (event.approvedAt # Null => event'.approvedAt = event.approvedAt)]_vars
  BY <1>1
<1>3. DecisionsLearned /\ PatchesLearned
  BY DEF Learned
<1> QED
  BY <1>2, <1>3, TypeCorrect, DecisionsFreshHolds, PatchesFreshHolds, FinalStatusHolds, PTL
     DEF Spec, ApprovalDateStable

\* Editing an event without touching its reviewers leaves every review alone: with
\* a learned version the team's status and date, whatever the decisions carry ...
LEMMA UnrelatedPatchKeepsStatuses ==
    ASSUME TypeOK, PatchesFresh, RequiredIffReviewer,
           NEW c \in Calls, WriteReviewers(c), call[c].reviewer = event.reviewer
    PROVE  /\ Live
           /\ event'.status = event.status
           /\ event'.reviewedAt = event.reviewedAt
           /\ event'.finalStatus = calcFinalStatus(event.status)
<1>1. /\ Live /\ event \in GameEvent /\ event' \in GameEvent
      /\ event'.status =
              recalcStatusesOnReviewerChange(event.status, event.reviewer, event'.reviewer)
      /\ event'.reviewedAt =
              [t \in Team |-> IF t \in collectReviewedAtResets(event, event'.status)
                              THEN Null ELSE event.reviewedAt[t]]
      /\ event'.finalStatus = calcFinalStatus(event'.status)
  BY WriteReviewersIsAtomic
<1>2. event'.reviewer = event.reviewer
  <2>1. call[c] \in ReviewersUpdate /\ event' = applyReviewersUpdate(event, call[c])
    BY CommandKinds DEF WriteReviewers
  <2> QED BY <1>1, <2>1, ApplyReviewersFields
<1>3. \A t \in Team : event'.status[t] = event.status[t]
  BY <1>1, <1>2 DEF recalcStatusesOnReviewerChange, RequiredIffReviewer
<1>4. event'.status = event.status
  BY <1>1, <1>3 DEF GameEvent
<1>5. collectReviewedAtResets(event, event'.status) = {}
  BY <1>4 DEF collectReviewedAtResets
<1>6. event'.reviewedAt = event.reviewedAt
  BY <1>1, <1>5 DEF GameEvent
<1> QED BY <1>1, <1>4, <1>6

\* ... and the final status too, if decisions have not left it behind the statuses.
THEOREM UnrelatedPatchHolds == ASSUME Learned PROVE Spec => UnrelatedPatchKeepsReviews
<1>1. TypeOK /\ PatchesFresh /\ RequiredIffReviewer /\ FinalStatusConsistent /\ [Next]_vars =>
        [\A c \in Calls : (WriteReviewers(c) /\ call[c].reviewer = event.reviewer) =>
            /\ event'.status = event.status
            /\ event'.reviewedAt = event.reviewedAt
            /\ event'.finalStatus = event.finalStatus]_vars
  BY UnrelatedPatchKeepsStatuses DEF FinalStatusConsistent
<1>2. PatchesLearned
  BY DEF Learned
<1> QED
  BY <1>1, <1>2, TypeCorrect, PatchesFreshHolds, RequiredIffReviewerHolds, FinalStatusHolds, PTL
     DEF Spec, UnrelatedPatchKeepsReviews

=============================================================================
