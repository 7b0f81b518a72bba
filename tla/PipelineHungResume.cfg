SPECIFICATION FairSpec
CHECK_DEADLOCK FALSE
CONSTANTS
    Runners = {r1}
    Configs = {c1}
    NoSnapshot = NoSnapshot
    r1 = r1
    c1 = c1
    Tracked = {}
    MaxFaults = 2
PROPERTIES
    HungRunAlerted
