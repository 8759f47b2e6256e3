CONSTANTS
    Null = Null
    Empty = Empty
    Absent = Absent
    Deleted = Deleted
    c1 = c1
    c2 = c2
    admin = admin
    owner = owner
    dev = dev
    qa = qa
    Calls <- MCCalls
    Users <- MCUsers
    Principals <- MCPrincipals
    ReviewerChoice <- TwoTeams
    Details <- OneDay
    Patches = {}
    DecisionVersions = {"none", "guessed"}
    PatchVersions = {"none", "guessed"}
    MaxVersion = 3
SPECIFICATION Spec
SYMMETRY Symmetry
CHECK_DEADLOCK FALSE
INVARIANTS
    TypeOK
    RequiredIffReviewer
    ApprovalDateMeansApproved
    DecidedIsRecorded
    CommandsSound
    WorklistCanBeDecided
PROPERTIES
    HistoryRecordsDecisions
