SPECIFICATION Spec
CONSTANTS
    r1 = r1
    r2 = r2
    r3 = r3
    r4 = r4
    k1 = k1
    k2 = k2
    nokey = nokey
    seed = seed
    none = none
    Requests = {r1, r2, r3, r4}
    Seed <- seed
    None <- none
    Keys = {k1, k2}
    NoKey <- nokey
    Plans <- MCPlans
    Opening = 10
    SeedAmount = 4
    Owned = 0
CHECK_DEADLOCK FALSE
INVARIANTS
    KeyNamesOneRow
    RetriesCountOnce
PROPERTIES
    EveryRequestEnds
