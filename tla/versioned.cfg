CONSTANTS
    Null = Null
    Empty = Empty
    Absent = Absent
    Deleted = Deleted
    c1 = c1
    c2 = c2
    admin = admin
    owner = owner
    dev = dev
    qa = qa
    Calls <- MCCalls
    Users <- MCUsers
    Principals <- WithViewer
    ReviewerChoice <- TwoTeams
    Details <- Confidential
    Patches <- Edits
    DecisionVersions = {"learned"}
    PatchVersions = {"learned"}
    MaxVersion = 3
SPECIFICATION Spec
SYMMETRY Symmetry
CHECK_DEADLOCK FALSE
INVARIANTS
    FinalStatusConsistent
    ReviewedAtConsistent
    HistoryTipIsStatus
    CommandsFresh
    ListShowsWhatReadAllows
PROPERTIES
    HistoryExplainsStatus
    DecisionByAssigned
    RevisionOnlyByAdmin
    ApprovalDateStable
    UnrelatedPatchKeepsReviews
    ImplementsLedger
