SPECIFICATION Spec
CHECK_DEADLOCK FALSE
CONSTANTS
    h1 = h1
    h2 = h2
    account = account
    Holdings = {h1}
    Account <- account
    Verdicts = {"none", "stop", "factor", "add"}
    Careful = TRUE
    MaxFaults = 2
INVARIANTS
    OneRowPerTopic
    PushedOnceUnlessLost
    RecheckIsFresh
PROPERTIES
    ToldDespiteOneFault
