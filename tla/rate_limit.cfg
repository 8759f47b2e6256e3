CONSTANTS
    Keys = {k1, k2}
    Window = 4
    Limit = 3
    NoEntry = NoEntry
SPECIFICATION Spec
INVARIANTS
    TypeOK
    BurstBound
PROPERTIES
    StaleEntriesGo
    RefusedNotForever
