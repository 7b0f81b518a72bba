SPECIFICATION Spec
CHECK_DEADLOCK FALSE
CONSTANTS
    Runners = {r1, r2}
    Configs = {c1}
    NoSnapshot = NoSnapshot
    r1 = r1
    r2 = r2
    c1 = c1
    Tracked = {}
    MaxFaults = 2
INVARIANTS
    FlagImpliesData
PROPERTIES
    ImplementsContract
