---------------------- MODULE GameEventsRefinementProofs ----------------------
(***************************************************************************)
(* The abstract specifications that GameEvents implements: the atomic        *)
(* workflow of ReviewLedger when all writes carry learned versions, and for  *)
(* every team TeamReview when the PATCHes do. Both need that the right to    *)
(* change an event, checked before the await, still holds at the write,      *)
(* which takes no version.                                                   *)
(***************************************************************************)
EXTENDS GameEventsVersionedProofs

----------------------------------------------------------------------------
(* The right to change an event                                              *)

\* A PATCH or a removal in flight was asked for by somebody who manages the event:
\* the owner never changes between the handler's read and its write.
CommandsByManager ==
    Live => \A c \in Calls :
        call[c].op \in {"updateReviewers", "remove"} => canModifyEvent(call[c].user, event)

LEMMA WritesKeepOwner ==
    ASSUME TypeOK, NEW c \in Calls, WriteStatus(c) \/ WriteReviewers(c)
    PROVE  /\ Live
           /\ event'.ownerId = event.ownerId
           /\ call' = [call EXCEPT ![c] = Idle]
<1>1. Live /\ event \in GameEvent
  BY LiveType DEF WriteStatus, WriteReviewers, Matches
<1>2. CASE WriteStatus(c)
  BY <1>1, <1>2, CommandKinds, ApplyStatusFields DEF WriteStatus
<1>3. CASE WriteReviewers(c)
  BY <1>1, <1>3, CommandKinds, ApplyReviewersFields DEF WriteReviewers
<1> QED BY <1>2, <1>3

LEMMA ManagersInductive ==
    ASSUME TypeOK, CommandsSound, CommandsByManager, [Next]_vars
    PROVE  CommandsByManager'
<1> SUFFICES ASSUME Live', NEW d \in Calls, call'[d].op \in {"updateReviewers", "remove"}
             PROVE  canModifyEvent(call'[d].user, event')
  BY DEF CommandsByManager, canModifyEvent, IsOwner
<1>1. ASSUME Live, event'.ownerId = event.ownerId, call'[d] = call[d]
      PROVE  canModifyEvent(call'[d].user, event')
  BY <1>1 DEF CommandsByManager, canModifyEvent, IsOwner
\* A read half that puts a command of the caller's in flight, if the caller may.
<1>2. ASSUME NEW c \in Calls, NEW cmd, call' = [call EXCEPT ![c] = cmd],
             Live, UNCHANGED event,
             cmd.op \in {"updateReviewers", "remove"} => canModifyEvent(cmd.user, event)
      PROVE  canModifyEvent(call'[d].user, event')
  <2>1. CASE d = c
    BY <1>2, <2>1 DEF TypeOK, canModifyEvent, IsOwner
  <2>2. CASE d # c
    BY <1>1, <1>2, <2>2 DEF TypeOK
  <2> QED BY <2>1, <2>2
<1>3. CASE Create
  BY <1>3 DEF Create, CommandsSound, Idle
<1>4. ASSUME NEW c \in Calls, UpdateStatus(c) PROVE canModifyEvent(call'[d].user, event')
  <2>1. /\ Live /\ UNCHANGED event
        /\ \E cmd : cmd.op = "updateStatus" /\ call' = [call EXCEPT ![c] = cmd]
    BY <1>4 DEF UpdateStatus, statusUpdate
  <2> QED BY <1>2, <2>1
<1>5. ASSUME NEW c \in Calls, NEW patch, StartReviewersUpdate(c, patch)
      PROVE  canModifyEvent(call'[d].user, event')
  <2>1. /\ Live /\ UNCHANGED event
        /\ \E cmd : canModifyEvent(cmd.user, event) /\ call' = [call EXCEPT ![c] = cmd]
    BY <1>5 DEF StartReviewersUpdate, reviewersUpdate
  <2> QED BY <1>2, <2>1
<1>6. ASSUME NEW c \in Calls, RemoveByOwnerOrAdmin(c)
      PROVE  canModifyEvent(call'[d].user, event')
  <2>1. /\ Live /\ UNCHANGED event
        /\ \E cmd : canModifyEvent(cmd.user, event) /\ call' = [call EXCEPT ![c] = cmd]
    BY <1>6 DEF RemoveByOwnerOrAdmin
  <2> QED BY <1>2, <2>1
<1>7. ASSUME NEW c \in Calls, call' = [call EXCEPT ![c] = Idle], Live,
             event'.ownerId = event.ownerId
      PROVE  canModifyEvent(call'[d].user, event')
  BY <1>1, <1>7 DEF TypeOK, Idle
<1>8. ASSUME NEW c \in Calls, WriteStatus(c) \/ WriteReviewers(c)
      PROVE  canModifyEvent(call'[d].user, event')
  BY <1>7, <1>8, WritesKeepOwner
<1>9. ASSUME NEW c \in Calls, Conflict(c) PROVE canModifyEvent(call'[d].user, event')
  BY <1>7, <1>9 DEF Conflict, Live
<1>10. ASSUME NEW c \in Calls, DeleteById(c) PROVE FALSE
  BY <1>10 DEF DeleteById, Live
<1>11. CASE Restart
  BY <1>11 DEF Restart, Idle
<1>12. CASE UNCHANGED vars
  BY <1>1, <1>12 DEF vars, Live
<1> QED
  BY <1>3, <1>4, <1>5, <1>6, <1>8, <1>9, <1>10, <1>11, <1>12
     DEF Next, UpdateReviewers, UpdateByOwnerOrAdmin

LEMMA ManagersHold == Spec => []CommandsByManager
<1>1. Init => CommandsByManager
  BY DEF Init, CommandsByManager, Live
<1>2. TypeOK /\ SoundInv /\ CommandsByManager /\ [Next]_vars => CommandsByManager'
  BY ManagersInductive DEF SoundInv
<1> QED
  BY <1>1, <1>2, TypeCorrect, SoundInvHolds, PTL DEF Spec

\* The role table of the README: an event is edited, reassigned and deleted by its
\* owner or an ADMIN. The handlers look at that before their await only.
ChangedByManager ==
    [][/\ \A c \in Calls : Live /\ (WriteReviewers(c) \/ DeleteById(c))
                => canModifyEvent(call[c].user, event)
       /\ Live /\ Live' => event'.ownerId = event.ownerId]_vars

\* It is true of the event at the moment of the write as well, with or without
\* versions, because no request changes the owner.
THEOREM ChangedByManagerHolds == Spec => ChangedByManager
<1>1. ASSUME CommandsByManager, NEW c \in Calls, Live, WriteReviewers(c) \/ DeleteById(c)
      PROVE  canModifyEvent(call[c].user, event)
  BY <1>1 DEF CommandsByManager, WriteReviewers, DeleteById
<1>2. ASSUME TypeOK, [Next]_vars, Live, Live' PROVE event'.ownerId = event.ownerId
  <2>1. ASSUME NEW c \in Calls, WriteStatus(c) \/ WriteReviewers(c)
        PROVE  event'.ownerId = event.ownerId
    BY <1>2, <2>1, WritesKeepOwner
  <2>2. CASE Create
    BY <1>2, <2>2 DEF Create, Live
  <2>3. ASSUME NEW c \in Calls, DeleteById(c) PROVE FALSE
    BY <1>2, <2>3 DEF DeleteById, Live
  <2> QED
    BY <1>2, <2>1, <2>2, <2>3
       DEF Next, vars, UpdateStatus, UpdateReviewers, UpdateByOwnerOrAdmin, StartReviewersUpdate,
           RemoveByOwnerOrAdmin, Conflict, Restart
<1>3. TypeOK /\ CommandsByManager /\ [Next]_vars =>
        [/\ \A c \in Calls : Live /\ (WriteReviewers(c) \/ DeleteById(c))
                => canModifyEvent(call[c].user, event)
         /\ Live /\ Live' => event'.ownerId = event.ownerId]_vars
  BY <1>1, <1>2
<1> QED
  BY <1>3, TypeCorrect, ManagersHold, PTL DEF Spec, ChangedByManager

----------------------------------------------------------------------------
(* The refinement mapping, before and after a step                           *)

\* The workflow's outcome is the final status of the team statuses.
LEMMA OutcomeIsFinalStatus ==
    ASSUME NEW status \in [Team -> ReviewStatus]
    PROVE  calcFinalStatus(status) = Ledger!Outcome(status)
BY DEF calcFinalStatus, Ledger!Outcome, ReviewStatus

LEMMA MappingWhenLive ==
    ASSUME Live, event \in GameEvent
    PROVE  /\ ledgerPhase = "present"
           /\ ledgerOwner = event.ownerId
           /\ ledgerReviewer = [t \in Team |-> plainId(event.reviewer[t])]
           /\ ledgerStatus = event.status
           /\ ledgerOutcome = event.finalStatus
           /\ ledgerLog =
                [i \in 1 .. Len(event.reviewHistory) |-> logEntry(event.reviewHistory[i])]
BY DEF Live, ledgerPhase, ledgerOwner, ledgerReviewer, ledgerStatus, ledgerOutcome, ledgerLog,
       GameEvent

LEMMA MappingWhenLiveNext ==
    ASSUME Live', event' \in GameEvent
    PROVE  /\ ledgerPhase' = "present"
           /\ ledgerOwner' = event'.ownerId
           /\ ledgerReviewer' = [t \in Team |-> plainId(event'.reviewer[t])]
           /\ ledgerStatus' = event'.status
           /\ ledgerOutcome' = event'.finalStatus
           /\ ledgerLog' =
                [i \in 1 .. Len(event'.reviewHistory) |-> logEntry(event'.reviewHistory[i])]
BY DEF Live, ledgerPhase, ledgerOwner, ledgerReviewer, ledgerStatus, ledgerOutcome, ledgerLog,
       GameEvent

LEMMA MappingWhenDeletedNext ==
    ASSUME event' = Deleted
    PROVE  /\ ledgerPhase' = "deleted"
           /\ ledgerOwner' = Null
           /\ ledgerReviewer' = [t \in Team |-> Null]
           /\ ledgerStatus' = [t \in Team |-> "NOT_REQUIRED"]
           /\ ledgerOutcome' = Null
           /\ ledgerLog' = << >>
BY DocumentAssumption
   DEF Live, ledgerPhase, ledgerOwner, ledgerReviewer, ledgerStatus, ledgerOutcome, ledgerLog

LEMMA MappingUnchanged ==
    ASSUME UNCHANGED event
    PROVE  UNCHANGED Ledger!lvars
BY DEF Ledger!lvars, Live, ledgerPhase, ledgerOwner, ledgerReviewer, ledgerStatus, ledgerOutcome,
       ledgerLog

LEMMA PlainIdType ==
    ASSUME NEW reviewer \in [Team -> ReviewerId]
    PROVE  [t \in Team |-> plainId(reviewer[t])] \in [Team -> Users \cup {Null}]
BY DEF plainId, ReviewerId

\* The log grows by the mapped entry when the history grows by one.
LEMMA LogAppended ==
    ASSUME NEW history \in Seq(ReviewHistory), NEW e \in ReviewHistory
    PROVE  LET Log(h) == [i \in 1 .. Len(h) |-> logEntry(h[i])]
           IN  Log(Append(history, e)) = Append(Log(history), logEntry(e))
<1> DEFINE Log(h) == [i \in 1 .. Len(h) |-> logEntry(h[i])]
           h1 == Append(history, e)
           l1 == Append(Log(history), logEntry(e))
<1>1. /\ Len(history) \in Nat /\ Len(h1) = Len(history) + 1
      /\ \A i \in 1 .. Len(history) : h1[i] = history[i]
      /\ h1[Len(history) + 1] = e
  OBVIOUS
<1> DEFINE E == {logEntry(h) : h \in ReviewHistory}
<1>2. Log(history) \in Seq(E) /\ Len(Log(history)) = Len(history)
  <2>1. \A i \in 1 .. Len(history) : logEntry(history[i]) \in E
    BY <1>1
  <2> HIDE DEF E
  <2> QED BY <1>1, <2>1
<1>3. /\ l1 \in Seq(E) /\ Len(l1) = Len(history) + 1
      /\ \A i \in 1 .. Len(history) : l1[i] = Log(history)[i]
      /\ l1[Len(history) + 1] = logEntry(e)
  <2>1. logEntry(e) \in E
    OBVIOUS
  <2> DEFINE l0 == Log(history)
             le == logEntry(e)
  <2> HIDE DEF E, l0, le
  <2>2. l0 \in Seq(E) /\ Len(l0) = Len(history) /\ le \in E
    BY <1>2, <2>1 DEF l0, le
  <2>3. /\ Append(l0, le) \in Seq(E) /\ Len(Append(l0, le)) = Len(history) + 1
        /\ \A i \in 1 .. Len(history) : Append(l0, le)[i] = l0[i]
        /\ Append(l0, le)[Len(history) + 1] = le
    BY <1>1, <2>2
  <2> QED BY <2>3 DEF l0, le
<1> HIDE DEF E
<1>4. DOMAIN l1 = 1 .. Len(history) + 1 /\ l1 = [i \in 1 .. Len(history) + 1 |-> l1[i]]
  BY <1>3
<1>5. \A i \in 1 .. Len(history) + 1 : l1[i] = logEntry(h1[i])
  BY <1>1, <1>3
<1> HIDE DEF l1, h1
<1>6. Log(h1) = [i \in 1 .. Len(history) + 1 |-> logEntry(h1[i])]
  BY <1>1
<1>7. Log(h1) = l1
  BY <1>4, <1>5, <1>6
<1> QED
  BY <1>7 DEF l1, h1

----------------------------------------------------------------------------
(* Each step of the handlers is a step of the workflow                       *)

LEMMA CreateRefines ==
    ASSUME Create
    PROVE  Ledger!Create
<1>1. PICK user \in Principals, reviewer \in [Team -> ReviewerId], d \in Details :
            event' = newEvent(user, reviewer, d)
  BY CreateFacts
<1>2. event' \in GameEvent /\ Live'
  BY <1>1, NewEventType, DocumentAssumption DEF Live
<1>3. /\ event'.ownerId = user.sub /\ user.sub \in Users
      /\ event'.reviewer = reviewer
      /\ event'.status = initStatusesByReviewers(reviewer)
      /\ event'.finalStatus = calcFinalStatus(event'.status)
      /\ event'.reviewHistory = << >>
  BY <1>1, PrincipalsAssumption DEF newEvent
<1>4. ledgerPhase = "absent"
  BY DEF Create, ledgerPhase
<1>5. /\ ledgerPhase' = "present"
      /\ ledgerOwner' = user.sub
      /\ ledgerReviewer' = [t \in Team |-> plainId(reviewer[t])]
      /\ ledgerStatus' = event'.status
      /\ ledgerOutcome' = calcFinalStatus(event'.status)
      /\ ledgerLog' = [i \in 1 .. Len(event'.reviewHistory) |-> logEntry(event'.reviewHistory[i])]
  BY <1>2, <1>3, MappingWhenLiveNext
<1>6. ledgerReviewer' \in [Team -> Users \cup {Null}]
  BY <1>5, PlainIdType
<1>7. ledgerStatus' = [t \in Team |->
            IF ledgerReviewer'[t] = Null THEN "NOT_REQUIRED" ELSE "PENDING"]
  BY <1>3, <1>5 DEF initStatusesByReviewers, plainId, Unassigned
<1>8. ledgerOutcome' = Ledger!Outcome(ledgerStatus')
  BY <1>2, <1>5, OutcomeIsFinalStatus DEF GameEvent
<1>9. ledgerLog' = << >>
  BY <1>3, <1>5
<1> QED
  BY <1>3, <1>4, <1>5, <1>6, <1>7, <1>8, <1>9 DEF Ledger!Create

LEMMA WriteStatusRefines ==
    ASSUME TypeOK, DecisionsFresh, NEW c \in Calls, WriteStatus(c)
    PROVE  Ledger!Next
<1> DEFINE user == call[c].user
           team == call[c].team
           desired == call[c].desiredStatus
           e == [team |-> team, reviewerId |-> user.sub, prevStatus |-> event.status[team],
                 nextStatus |-> desired, changedAt |-> event.v]
<1>1. /\ Live /\ event \in GameEvent
      /\ user \in Principals /\ team \in Team /\ desired \in Decided
      /\ event.reviewer[team] \notin Unassigned
      /\ canTransition(event.status[team], desired, user.role)
      /\ event.status[team] # desired
      /\ \/ user.role = "ADMIN"
         \/ user.role = "REVIEWER" /\ event.reviewer[team] = user.sub
      /\ event'.ownerId = event.ownerId
      /\ event'.reviewer = event.reviewer
      /\ event'.status = [event.status EXCEPT ![team] = desired]
      /\ event'.finalStatus = calcFinalStatus(event'.status)
      /\ event'.reviewHistory = Append(event.reviewHistory, e)
      /\ event' \in GameEvent
  BY WriteStatusIsAtomic
<1>2. Live'
  BY <1>1, DocumentAssumption DEF Live
<1>3. e \in ReviewHistory /\ logEntry(e) =
            [team |-> team, by |-> user.sub, from |-> event.status[team], to |-> desired]
  BY <1>1, PrincipalsAssumption DEF ReviewHistory, logEntry, GameEvent, Decided, ReviewStatus
<1>4. ledgerLog' = Append(ledgerLog, logEntry(e))
  <2> HIDE DEF e
  <2>1. event.reviewHistory \in Seq(ReviewHistory)
    BY <1>1 DEF GameEvent
  <2> QED BY <1>1, <1>2, <1>3, <2>1, LogAppended, MappingWhenLive, MappingWhenLiveNext
<1>5. /\ ledgerPhase = "present" /\ ledgerPhase' = ledgerPhase
      /\ ledgerOwner' = ledgerOwner
      /\ ledgerReviewer' = ledgerReviewer
      /\ ledgerStatus = event.status
      /\ ledgerStatus' = [ledgerStatus EXCEPT ![team] = desired]
  BY <1>1, <1>2, MappingWhenLive, MappingWhenLiveNext
<1>6. ledgerReviewer[team] = event.reviewer[team] /\ ledgerReviewer[team] # Null
  BY <1>1, MappingWhenLive DEF plainId, Unassigned
<1>7. ledgerOutcome' = Ledger!Outcome(ledgerStatus')
  <2>1. ledgerOutcome' = calcFinalStatus(event'.status) /\ ledgerStatus' = event'.status
    BY <1>1, <1>2, MappingWhenLiveNext
  <2> QED BY <1>1, <2>1, OutcomeIsFinalStatus DEF GameEvent
<1>8. \/ user.role = "ADMIN" /\ ledgerStatus[team] # desired
      \/ user.role = "REVIEWER" /\ user.sub = ledgerReviewer[team] /\ ledgerStatus[team] = "PENDING"
  BY <1>1, <1>5, <1>6 DEF canTransition
<1>9. Ledger!Decide(user, team, desired)
  BY <1>3, <1>4, <1>5, <1>6, <1>7, <1>8 DEF Ledger!Decide
<1> QED
  BY <1>1, <1>9 DEF Ledger!Next, Decided

LEMMA WriteReviewersRefines ==
    ASSUME TypeOK, PatchesFresh, RequiredIffReviewer, NEW c \in Calls, WriteReviewers(c)
    PROVE  Ledger!Next
<1> DEFINE user == call[c].user
<1>1. PICK dto \in ReviewerChoice :
        /\ Live /\ event \in GameEvent
        /\ canModifyEvent(user, event)
        /\ event'.ownerId = event.ownerId
        /\ event'.reviewer = mergeReviewers(dto, event.reviewer)
        /\ event'.status =
                recalcStatusesOnReviewerChange(event.status, event.reviewer, event'.reviewer)
        /\ event'.finalStatus = calcFinalStatus(event'.status)
        /\ event'.reviewHistory = event.reviewHistory
        /\ event' \in GameEvent
  BY WriteReviewersIsAtomic
<1>2. Live'
  BY <1>1, DocumentAssumption DEF Live
<1>3. user \in Principals
  BY CommandKinds DEF WriteReviewers, ReviewersUpdate
<1>4. /\ ledgerPhase = "present" /\ ledgerPhase' = ledgerPhase
      /\ ledgerOwner' = ledgerOwner /\ ledgerOwner = event.ownerId
      /\ ledgerLog' = ledgerLog
      /\ ledgerReviewer = [t \in Team |-> plainId(event.reviewer[t])]
      /\ ledgerReviewer' = [t \in Team |-> plainId(event'.reviewer[t])]
      /\ ledgerStatus = event.status
      /\ ledgerStatus' = event'.status
      /\ ledgerOutcome' = event'.finalStatus
  BY <1>1, <1>2, MappingWhenLive, MappingWhenLiveNext
<1>5. Ledger!Manages(user)
  BY <1>1, <1>4 DEF canModifyEvent, IsOwner, Ledger!Manages
<1>6. ledgerReviewer' \in [Team -> Users \cup {Null}]
  <2>1. event'.reviewer \in [Team -> ReviewerId]
    BY <1>1 DEF GameEvent
  <2> QED BY <1>4, <2>1, PlainIdType
<1>7. ledgerStatus' = [t \in Team |->
            IF ledgerReviewer'[t] = ledgerReviewer[t] THEN ledgerStatus[t]
            ELSE IF ledgerReviewer'[t] = Null THEN "NOT_REQUIRED" ELSE "PENDING"]
  <2>1. \A t \in Team : event.status[t] = "NOT_REQUIRED" <=> event.reviewer[t] \in Unassigned
    BY <1>1 DEF RequiredIffReviewer
  <2>2. ASSUME NEW t \in Team
        PROVE  event'.status[t] =
                IF plainId(event'.reviewer[t]) = plainId(event.reviewer[t]) THEN event.status[t]
                ELSE IF plainId(event'.reviewer[t]) = Null THEN "NOT_REQUIRED" ELSE "PENDING"
    BY <1>1, <2>1 DEF recalcStatusesOnReviewerChange, plainId, Unassigned
  <2>3. event'.status = [t \in Team |-> event'.status[t]]
    BY <1>1 DEF GameEvent
  <2> QED BY <1>4, <2>2, <2>3
<1>8. ledgerOutcome' = Ledger!Outcome(ledgerStatus')
  BY <1>1, <1>4, OutcomeIsFinalStatus DEF GameEvent
<1>9. Ledger!Reassign(user)
  BY <1>4, <1>5, <1>6, <1>7, <1>8 DEF Ledger!Reassign
<1> QED
  BY <1>3, <1>9 DEF Ledger!Next

LEMMA DeleteRefines ==
    ASSUME TypeOK, CommandsSound, CommandsByManager, NEW c \in Calls, DeleteById(c)
    PROVE  [Ledger!Next]_Ledger!lvars
<1> DEFINE user == call[c].user
<1>1. user \in Principals
  BY CommandKinds DEF DeleteById, Removal
<1>2. CASE Live
  <2>1. ledgerPhase = "present" /\ ledgerOwner = event.ownerId
    BY <1>2, LiveType, MappingWhenLive
  <2>2. canModifyEvent(user, event)
    BY <1>2 DEF CommandsByManager, DeleteById
  <2>3. Ledger!Manages(user)
    BY <2>1, <2>2 DEF canModifyEvent, IsOwner, Ledger!Manages
  <2>4. Ledger!Remove(user)
    BY <2>1, <2>3, MappingWhenDeletedNext DEF DeleteById, Ledger!Remove
  <2> QED BY <1>1, <2>4 DEF Ledger!Next
<1>3. CASE ~Live
  <2>1. call[c] # Idle
    BY DEF DeleteById, Idle
  <2>2. event = Deleted
    BY <1>3, <2>1 DEF CommandsSound, Live
  <2> QED BY <2>2, MappingUnchanged DEF DeleteById
<1> QED BY <1>2, <1>3

\* Under learned versions the handlers with all their interleavings behave as if
\* every request were one atomic step of the workflow, allowed to its caller at
\* the moment it takes effect.
THEOREM ImplementsLedgerHolds == ASSUME Learned PROVE Spec => ImplementsLedger
<1>1. Init => Ledger!Init
  BY DocumentAssumption
     DEF Init, Ledger!Init, Live, ledgerPhase, ledgerOwner, ledgerReviewer, ledgerStatus,
         ledgerOutcome, ledgerLog
<1>2. ASSUME TypeOK, SoundInv, DecisionsFresh, PatchesFresh, CommandsByManager, [Next]_vars
      PROVE  [Ledger!Next]_Ledger!lvars
  <2>1. CASE Create
    BY <2>1, CreateRefines DEF Ledger!Next
  <2>2. ASSUME NEW c \in Calls, WriteStatus(c) PROVE Ledger!Next
    BY <1>2, <2>2, WriteStatusRefines
  <2>3. ASSUME NEW c \in Calls, WriteReviewers(c) PROVE Ledger!Next
    BY <1>2, <2>3, WriteReviewersRefines DEF SoundInv, DocumentSound
  <2>4. ASSUME NEW c \in Calls, DeleteById(c) PROVE [Ledger!Next]_Ledger!lvars
    BY <1>2, <2>4, DeleteRefines DEF SoundInv
  <2>5. CASE UNCHANGED event
    BY <2>5, MappingUnchanged
  <2> QED
    BY <1>2, <2>1, <2>2, <2>3, <2>4, <2>5
       DEF Next, vars, UpdateStatus, UpdateReviewers, UpdateByOwnerOrAdmin, StartReviewersUpdate,
           RemoveByOwnerOrAdmin, Conflict, Restart
<1>3. TypeOK /\ SoundInv /\ DecisionsFresh /\ PatchesFresh /\ CommandsByManager /\ [Next]_vars =>
        [Ledger!Next]_Ledger!lvars
  BY <1>2
<1>4. DecisionsLearned /\ PatchesLearned
  BY DEF Learned
<1> QED
  BY <1>1, <1>3, <1>4, TypeCorrect, SoundInvHolds, DecisionsFreshHolds, PatchesFreshHolds,
     ManagersHold, PTL
     DEF Spec, ImplementsLedger, Ledger!Spec

----------------------------------------------------------------------------
(* Each step of the handlers is a step of every team's review, or leaves it  *)

\* What a step does to a team, read off the mapping.
TeamStays(t) == ledgerReviewer'[t] = ledgerReviewer[t] /\ ledgerStatus'[t] = ledgerStatus[t]

LEMMA StaysRefines ==
    ASSUME NEW t \in Team, TeamStays(t)
    PROVE  [Review(t)!Next]_(Review(t)!tvars)
BY DEF TeamStays, Review!tvars

LEMMA AssignRefines ==
    ASSUME NEW t \in Team,
           ledgerReviewer'[t] \in Users \cup {Null},
           ledgerReviewer'[t] # ledgerReviewer[t],
           ledgerStatus'[t] = IF ledgerReviewer'[t] = Null THEN "NOT_REQUIRED" ELSE "PENDING"
    PROVE  [Review(t)!Next]_(Review(t)!tvars)
BY DEF Review!Next, Review!Assign

\* Where there is no document no team has a reviewer.
LEMMA MappingWhenNotLive ==
    ASSUME ~Live, NEW t \in Team
    PROVE  ledgerReviewer[t] = Null /\ ledgerStatus[t] = "NOT_REQUIRED"
BY DEF ledgerReviewer, ledgerStatus

LEMMA CreateRefinesReview ==
    ASSUME NEW t \in Team, Create
    PROVE  [Review(t)!Next]_(Review(t)!tvars)
<1>1. PICK user \in Principals, reviewer \in [Team -> ReviewerId], d \in Details :
            event' = newEvent(user, reviewer, d)
  BY CreateFacts
<1>2. event' \in GameEvent /\ Live'
  BY <1>1, NewEventType, DocumentAssumption DEF Live
<1>3. event'.reviewer = reviewer /\ event'.status = initStatusesByReviewers(reviewer)
  BY <1>1 DEF newEvent
<1>4. ledgerReviewer[t] = Null /\ ledgerStatus[t] = "NOT_REQUIRED"
  BY MappingWhenNotLive DEF Create, Live
<1>5. /\ ledgerReviewer'[t] = plainId(reviewer[t])
      /\ ledgerStatus'[t] = IF reviewer[t] \in Unassigned THEN "NOT_REQUIRED" ELSE "PENDING"
  BY <1>2, <1>3, MappingWhenLiveNext DEF initStatusesByReviewers
<1>6. CASE reviewer[t] \in Unassigned
  BY <1>4, <1>5, <1>6, StaysRefines DEF plainId, TeamStays
<1>7. CASE reviewer[t] \notin Unassigned
  <2>1. reviewer[t] \in Users /\ reviewer[t] # Null
    BY <1>7 DEF ReviewerId, Unassigned
  <2> QED
    BY <1>4, <1>5, <1>7, <2>1, AssignRefines DEF plainId
<1> QED BY <1>6, <1>7

LEMMA WriteStatusRefinesReview ==
    ASSUME NEW t \in Team, TypeOK, TransitionsLegal, RequiredIffReviewer,
           NEW c \in Calls, WriteStatus(c)
    PROVE  [Review(t)!Next]_(Review(t)!tvars)
<1> DEFINE user == call[c].user
           team == call[c].team
           desired == call[c].desiredStatus
<1>1. /\ Live /\ event \in GameEvent /\ team \in Team /\ desired \in Decided
      /\ canTransition(event.status[team], desired, user.role)
      /\ event.status[team] # desired
      /\ event'.reviewer = event.reviewer
      /\ event'.status = [event.status EXCEPT ![team] = desired]
      /\ event' \in GameEvent
  BY WriteStatusStores
<1>2. Live'
  BY <1>1, DocumentAssumption DEF Live
<1>3. /\ ledgerReviewer[t] = plainId(event.reviewer[t])
      /\ ledgerReviewer'[t] = ledgerReviewer[t]
      /\ ledgerStatus[t] = event.status[t]
      /\ ledgerStatus'[t] = IF t = team THEN desired ELSE event.status[t]
  <2>1. /\ ledgerReviewer[t] = plainId(event.reviewer[t])
        /\ ledgerReviewer'[t] = plainId(event'.reviewer[t])
        /\ ledgerStatus[t] = event.status[t]
        /\ ledgerStatus'[t] = event'.status[t]
    BY <1>1, <1>2, MappingWhenLive, MappingWhenLiveNext
  <2> QED BY <1>1, <2>1 DEF GameEvent
<1>4. CASE t # team
  BY <1>3, <1>4, StaysRefines DEF TeamStays
<1>5. CASE t = team
  <2>1. event.status[t] # "NOT_REQUIRED"
    BY <1>1, <1>5 DEF canTransition, Decided
  <2>2. event.reviewer[t] \notin Unassigned
    BY <1>1, <2>1 DEF RequiredIffReviewer
  <2>3. ledgerReviewer[t] # Null
    BY <1>3, <2>2 DEF plainId, Unassigned
  <2>4. ledgerStatus[t] = "PENDING" \/ user.role = "ADMIN"
    BY <1>1, <1>3, <1>5 DEF canTransition
  <2>5. Review(t)!Decide(IF user.role = "ADMIN" THEN "ADMIN" ELSE "REVIEWER", desired)
    BY <1>1, <1>3, <1>5, <2>3, <2>4 DEF Review!Decide
  <2> QED
    BY <1>1, <2>5 DEF Review!Next, Decided
<1> QED BY <1>4, <1>5

LEMMA WriteReviewersRefinesReview ==
    ASSUME NEW t \in Team, TypeOK, PatchesFresh, RequiredIffReviewer,
           NEW c \in Calls, WriteReviewers(c)
    PROVE  [Review(t)!Next]_(Review(t)!tvars)
<1>1. /\ Live /\ event \in GameEvent /\ event' \in GameEvent
      /\ event'.status =
              recalcStatusesOnReviewerChange(event.status, event.reviewer, event'.reviewer)
  BY WriteReviewersIsAtomic
<1>2. Live'
  BY <1>1, DocumentAssumption DEF Live
<1> DEFINE before == event.reviewer[t]
           after == event'.reviewer[t]
<1>3. /\ ledgerReviewer[t] = plainId(before) /\ ledgerReviewer'[t] = plainId(after)
      /\ ledgerStatus[t] = event.status[t] /\ ledgerStatus'[t] = event'.status[t]
  BY <1>1, <1>2, MappingWhenLive, MappingWhenLiveNext
<1>4. /\ event.status[t] = "NOT_REQUIRED" <=> before \in Unassigned
      /\ event'.status[t] =
            IF after \in Unassigned THEN "NOT_REQUIRED"
            ELSE IF before \in Unassigned \/ before # after THEN "PENDING"
            ELSE IF event.status[t] = "NOT_REQUIRED" THEN "PENDING"
            ELSE event.status[t]
  BY <1>1 DEF RequiredIffReviewer, recalcStatusesOnReviewerChange
<1>5. plainId(after) \in Users \cup {Null}
  BY <1>1 DEF GameEvent, ReviewerId, plainId
<1> HIDE DEF before, after
<1>6. CASE plainId(after) = plainId(before)
  <2>1. event'.status[t] = event.status[t]
    BY <1>4, <1>6 DEF plainId, Unassigned
  <2> QED BY <1>3, <1>6, <2>1, StaysRefines DEF TeamStays
<1>7. CASE plainId(after) # plainId(before)
  <2>1. event'.status[t] = IF plainId(after) = Null THEN "NOT_REQUIRED" ELSE "PENDING"
    BY <1>4, <1>7 DEF plainId, Unassigned
  <2> QED BY <1>3, <1>5, <1>7, <2>1, AssignRefines
<1> QED BY <1>6, <1>7

LEMMA DeleteRefinesReview ==
    ASSUME NEW t \in Team, TypeOK, RequiredIffReviewer, NEW c \in Calls, DeleteById(c)
    PROVE  [Review(t)!Next]_(Review(t)!tvars)
<1>1. ledgerReviewer'[t] = Null /\ ledgerStatus'[t] = "NOT_REQUIRED"
  BY MappingWhenDeletedNext DEF DeleteById
<1>2. CASE ledgerReviewer[t] # Null
  BY <1>1, <1>2, AssignRefines
<1>3. CASE ledgerReviewer[t] = Null
  <2>1. ledgerStatus[t] = "NOT_REQUIRED"
    <3>1. CASE Live
      <4>1. ledgerReviewer[t] = plainId(event.reviewer[t]) /\ ledgerStatus[t] = event.status[t]
        BY <3>1, LiveType, MappingWhenLive
      <4> QED BY <1>3, <3>1, <4>1 DEF plainId, Unassigned, RequiredIffReviewer
    <3>2. CASE ~Live
      BY <3>2, MappingWhenNotLive
    <3> QED BY <3>1, <3>2
  <2> QED BY <1>1, <1>3, <2>1, StaysRefines DEF TeamStays
<1> QED BY <1>2, <1>3

\* Every team's review is what Platform takes it for, as long as the PATCHes carry
\* learned versions: decisions may come without one, and any number of requests may
\* interleave.
THEOREM ImplementsTeamReviewsHolds == ASSUME PatchesLearned PROVE Spec => ImplementsTeamReviews
<1>1. ASSUME NEW t \in Team PROVE Spec => Review(t)!Spec
  <2>1. Init => Review(t)!Init
    BY MappingWhenNotLive DEF Init, Live, Review!Init
  <2>2. ASSUME TypeOK, SoundInv, TransitionsLegal, PatchesFresh, [Next]_vars
        PROVE  [Review(t)!Next]_(Review(t)!tvars)
    <3>1. RequiredIffReviewer
      BY <2>2 DEF SoundInv, DocumentSound
    <3>2. CASE Create
      BY <3>2, CreateRefinesReview
    <3>3. ASSUME NEW c \in Calls, WriteStatus(c) PROVE [Review(t)!Next]_(Review(t)!tvars)
      BY <2>2, <3>1, <3>3, WriteStatusRefinesReview
    <3>4. ASSUME NEW c \in Calls, WriteReviewers(c) PROVE [Review(t)!Next]_(Review(t)!tvars)
      BY <2>2, <3>1, <3>4, WriteReviewersRefinesReview
    <3>5. ASSUME NEW c \in Calls, DeleteById(c) PROVE [Review(t)!Next]_(Review(t)!tvars)
      BY <2>2, <3>1, <3>5, DeleteRefinesReview
    <3>6. CASE UNCHANGED event
      <4>1. TeamStays(t)
        BY <3>6 DEF TeamStays, ledgerReviewer, ledgerStatus, Live
      <4> QED BY <4>1, StaysRefines
    <3> QED
      BY <2>2, <3>2, <3>3, <3>4, <3>5, <3>6
         DEF Next, vars, UpdateStatus, UpdateReviewers, UpdateByOwnerOrAdmin,
             StartReviewersUpdate, RemoveByOwnerOrAdmin, Conflict, Restart
  <2>3. TypeOK /\ SoundInv /\ TransitionsLegal /\ PatchesFresh /\ [Next]_vars
            => [Review(t)!Next]_(Review(t)!tvars)
    BY <2>2
  <2> QED
    BY <2>1, <2>3, TypeCorrect, SoundInvHolds, TransitionsHold, PatchesFreshHolds, PTL
       DEF Spec, Review!Spec
<1> QED
  BY <1>1 DEF ImplementsTeamReviews
=============================================================================
