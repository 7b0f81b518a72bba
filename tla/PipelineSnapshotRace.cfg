SPECIFICATION Spec
CONSTANTS
    Runners = {r1, r2}
    Configs = {c1, c2}
    NoSnapshot = NoSnapshot
    r1 = r1
    r2 = r2
    c1 = c1
    c2 = c2
    Tracked = {}
    MaxFaults = 0
PROPERTIES
    SnapshotFrozen
