CONSTANTS
    Requests = {r1, r2, r3, r4, r5}
    Threshold = 3
    Cooldown = 3
SPECIFICATION FairSpec
INVARIANTS
    TypeOK
    ClosedBelowThreshold
    HalfOpenHasProbe
PROPERTIES
    OpenAdmitsAgain
    ClosesAfterRecovery
