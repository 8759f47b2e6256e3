---------------------------- MODULE ReviewLedger ----------------------------
(***************************************************************************)
(* What the review workflow promises, with every request as one atomic      *)
(* step: an event has an owner, a reviewer or none for each team, a status   *)
(* per team, an outcome that is always the one the statuses call for, and a  *)
(* log of the decisions taken. Nothing is said of versions, dates, or        *)
(* requests in flight.                                                       *)
(***************************************************************************)
EXTENDS Sequences

CONSTANTS Teams, Users, Principals, NoReviewer

VARIABLES
    phase,     \* "absent", "present" or "deleted"
    owner, reviewer, status, outcome,
    log        \* who decided what, oldest first

lvars == <<phase, owner, reviewer, status, outcome, log>>

\* The outcome is the worst the required teams allow.
Outcome(s) ==
    IF \E t \in Teams : s[t] = "REJECTED" THEN "REJECTED"
    ELSE IF \E t \in Teams : s[t] = "PENDING" THEN "IN_PROGRESS"
    ELSE "APPROVED"

Manages(p) == p.role = "ADMIN" \/ (p.role = "PLANNER" /\ p.sub = owner)

Init ==
    /\ phase = "absent"
    /\ owner = NoReviewer /\ outcome = NoReviewer
    /\ reviewer = [t \in Teams |-> NoReviewer]
    /\ status = [t \in Teams |-> "NOT_REQUIRED"]
    /\ log = << >>

Create ==
    /\ phase = "absent" /\ phase' = "present"
    /\ owner' \in Users
    /\ reviewer' \in [Teams -> Users \cup {NoReviewer}]
    /\ status' = [t \in Teams |-> IF reviewer'[t] = NoReviewer THEN "NOT_REQUIRED" ELSE "PENDING"]
    /\ outcome' = Outcome(status')
    /\ log' = << >>

\* The team's reviewer decides once; an ADMIN decides in the reviewer's place
\* and may turn a decision over.
Decide(p, t, verdict) ==
    /\ phase = "present"
    /\ reviewer[t] # NoReviewer
    /\ \/ p.role = "ADMIN" /\ status[t] # verdict
       \/ p.role = "REVIEWER" /\ p.sub = reviewer[t] /\ status[t] = "PENDING"
    /\ status' = [status EXCEPT ![t] = verdict]
    /\ outcome' = Outcome(status')
    /\ log' = Append(log, [team |-> t, by |-> p.sub, from |-> status[t], to |-> verdict])
    /\ UNCHANGED <<phase, owner, reviewer>>

\* A team whose reviewer stays keeps its status; a new reviewer starts afresh.
Reassign(p) ==
    /\ phase = "present"
    /\ Manages(p)
    /\ reviewer' \in [Teams -> Users \cup {NoReviewer}]
    /\ status' = [t \in Teams |->
            IF reviewer'[t] = reviewer[t] THEN status[t]
            ELSE IF reviewer'[t] = NoReviewer THEN "NOT_REQUIRED" ELSE "PENDING"]
    /\ outcome' = Outcome(status')
    /\ UNCHANGED <<phase, owner, log>>

Remove(p) ==
    /\ phase = "present" /\ phase' = "deleted"
    /\ Manages(p)
    /\ owner' = NoReviewer /\ outcome' = NoReviewer
    /\ reviewer' = [t \in Teams |-> NoReviewer]
    /\ status' = [t \in Teams |-> "NOT_REQUIRED"]
    /\ log' = << >>

Next ==
    \/ Create
    \/ \E p \in Principals :
        \/ \E t \in Teams, verdict \in {"APPROVED", "REJECTED"} : Decide(p, t, verdict)
        \/ Reassign(p)
        \/ Remove(p)

Spec == Init /\ [][Next]_lvars
=============================================================================
