CONSTANTS
    Null = Null
    Empty = Empty
    Absent = Absent
    UserIds = {"rob", "rae"}
    Account = "rob"
    Claims <- MCClaims
    AccessTTL = 1
    Calls = {c1}
    Requests = {r1, r2}

SPECIFICATION FairSpec

INVARIANTS
    TypeOK
    RecordedOnce

PROPERTIES
    AnswersHold
    RightsEnd
