CONSTANTS
    Null = Null
    Empty = Empty
    Absent = Absent
    Calls = {c1, c2}
    Password = {"seeded", "chosen"}
    Requests <- MCRequests
    SeedUser <- MCSeedUser
    Tokens = {t1, t2}
    AccessTTL = 1
    RefreshTTL = 2

SPECIFICATION HSpec

PROPERTY RoleTeamChangeStored
