----------------------------- MODULE TeamReview -----------------------------
(***************************************************************************)
(* What the other services may rely on of one team's review of one event: a  *)
(* reviewer or none, and a status that starts afresh with every reviewer.    *)
(* The event is created and deleted by assigning to the team, and taking     *)
(* from it, a reviewer. Nothing is said of the other teams, of the outcome   *)
(* they add up to, of dates, or of who asked.                                *)
(***************************************************************************)

CONSTANTS Users, NoReviewer

VARIABLES reviewer, status

tvars == <<reviewer, status>>

Init ==
    /\ reviewer = NoReviewer
    /\ status = "NOT_REQUIRED"

\* A decision in the given role: only an ADMIN's may turn another one over.
Decide(role, verdict) ==
    /\ reviewer # NoReviewer
    /\ status # verdict
    /\ status = "PENDING" \/ role = "ADMIN"
    /\ status' = verdict
    /\ UNCHANGED reviewer

Assign(new) ==
    /\ new # reviewer
    /\ reviewer' = new
    /\ status' = IF new = NoReviewer THEN "NOT_REQUIRED" ELSE "PENDING"

Next ==
    \/ \E role \in {"REVIEWER", "ADMIN"}, verdict \in {"APPROVED", "REJECTED"} :
            Decide(role, verdict)
    \/ \E new \in Users \cup {NoReviewer} : Assign(new)

Spec == Init /\ [][Next]_tvars
=============================================================================
