SPECIFICATION OperatorSpec
CHECK_DEADLOCK FALSE
CONSTANTS
    Runners = {r1}
    Configs = {c1, c2}
    NoSnapshot = NoSnapshot
    r1 = r1
    c1 = c1
    c2 = c2
    Tracked = {"notified"}
    MaxFaults = 3
INVARIANTS
    OneUserConfig
PROPERTIES
    SnapshotFrozen
    NotifiedOnce
    RecoverAfterOutage
    FirstRunHangAlerted
