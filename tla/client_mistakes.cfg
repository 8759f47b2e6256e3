CONSTANTS
    Null = Null
    Empty = Empty
    Absent = Absent
    UserIds = {"ann", "rob", "pat"}
    Calls = {c1, c2}
    Routes = {"create", "teamHistory"}
    Tokens <- MCTokens
    Claimed <- MCClaimed
    Threshold = 2
    Cooldown = 2

SPECIFICATION Spec

INVARIANT MistakesAreRefused
