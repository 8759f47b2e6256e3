-------------------------- MODULE MCGatewayPipeline --------------------------
(* The values TLC gives to the constants of GatewayPipeline.                 *)
EXTENDS GatewayPipeline

\* A route of each kind: public, for any caller, and with each role list.
MCRoutes == {"login", "me", "patchStatus", "create", "list", "teamHistory", "updateStatus"}

\* An ADMIN without a team, a REVIEWER with one, a PLANNER whose token has expired, and
\* a refresh token.
MCTokens == {[sub |-> "ann", role |-> "ADMIN", team |-> Null, sound |-> TRUE],
             [sub |-> "rob", role |-> "REVIEWER", team |-> "QA", sound |-> TRUE],
             [sub |-> "pat", role |-> "PLANNER", team |-> "PM", sound |-> FALSE],
             [sub |-> "rob", role |-> Absent, team |-> Null, sound |-> TRUE]}

\* Clients that set no headers of their own, and that repeat what the gateway writes.
MCClaimed == {[id |-> Absent, role |-> Absent, team |-> Absent],
              [id |-> "pat", role |-> "PLANNER", team |-> "PM"]}
=============================================================================
