--------------------------- MODULE MCAuthAccounts ---------------------------
(* The values TLC gives to the constants of AuthAccounts.                    *)
EXTENDS AuthLogouts

\* A team that is normalized, one that is kept, and one that is missing.
MCRequests == {[role |-> "PLANNER", team |-> "DEV"],
               [role |-> "REVIEWER", team |-> "QA"],
               [role |-> "REVIEWER", team |-> Absent]}

MCSeedUser == [password |-> "seeded", pair |-> [role |-> "PLANNER", team |-> "PM"]]
=============================================================================
