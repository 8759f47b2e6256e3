----------------------------- MODULE MCPlatform -----------------------------
(* The values TLC gives to the constants of Platform.                        *)
EXTENDS Platform

\* A role that decides once, and one that may turn a decision over.
MCClaims == {[role |-> "REVIEWER", team |-> "QA"],
             [role |-> "ADMIN", team |-> Null]}
=============================================================================
