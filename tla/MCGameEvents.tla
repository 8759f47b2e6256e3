---------------------------- MODULE MCGameEvents ----------------------------
(* Instances of GameEvents for TLC. *)
EXTENDS GameEvents, TLC

CONSTANTS c1, c2, admin, owner, dev, qa

MCCalls == {c1, c2}
Symmetry == Permutations(MCCalls)
MCUsers == {admin, owner, dev, qa}

Actor(id, r) == [sub |-> id, role |-> r]
MCPrincipals ==
    {Actor(admin, "ADMIN"), Actor(owner, "PLANNER"), Actor(dev, "REVIEWER"), Actor(qa, "REVIEWER")}

\* Reviewer fields of a body that speaks of the DEV and QA teams only.
DevQa(d, q) == [PM |-> Absent, DEV |-> d, QA |-> q, CS |-> Absent]

\* DEV and QA assigned, handed over, removed, and left alone.
TwoTeams == {DevQa(dev, qa), DevQa(qa, Absent), DevQa(Absent, Empty)}

\* Bodies for the reading rules: nobody, one reviewer, and no change.
OneTeam == {DevQa(dev, Absent), DevQa(Absent, Absent)}

WithViewer == MCPrincipals \cup {Actor(qa, "VIEWER")}

OneDay == {[startAt |-> 1, endAt |-> 1, isConfidential |-> FALSE]}

\* A confidential event, which an edit opens, closes again, or moves to another day.
Confidential == {[startAt |-> 1, endAt |-> 2, isConfidential |-> TRUE]}

Edit(start, conf) == [startAt |-> start, endAt |-> Absent, isConfidential |-> conf]
Edits == {Edit(Absent, FALSE), Edit(Absent, TRUE), Edit(2, Absent)}

TwoDays == [startAt : 1 .. 2, endAt : 1 .. 2, isConfidential : BOOLEAN]

TwoDayPatches ==
    [startAt : {2, Absent}, endAt : {1, Absent}, isConfidential : BOOLEAN \cup {Absent}]
=============================================================================
