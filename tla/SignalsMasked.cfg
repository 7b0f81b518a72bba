SPECIFICATION Spec
CHECK_DEADLOCK FALSE
CONSTANTS
    h1 = h1
    h2 = h2
    account = account
    Holdings = {h1}
    Account <- account
    Verdicts = {"none", "stop", "factor"}
    Careful = TRUE
    MaxFaults = 0
PROPERTIES
    BrokenStopTold
