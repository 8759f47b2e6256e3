CONSTANTS
    Null = Null
    Empty = Empty
    Absent = Absent
    UserIds = {"ann", "rob", "pat"}
    Calls = {c1, c2}
    Routes <- MCRoutes
    Tokens <- MCTokens
    Claimed <- MCClaimed
    Threshold = 2
    Cooldown = 2

SPECIFICATION FairSpec

INVARIANT CallerIsTokens

PROPERTIES
    ImplementsCircuits
    RecoversBesideOutage
