SPECIFICATION CalendarSpec
CONSTANTS
    LastCalDay = 6
    OpenDays = {0, 1, 3, 4, 5}
    PublishDays = {3, 6}
    RefreshDays = {2, 5}
    RequiredAhead = 2
    FillAhead = 3
    MaxCalFaults = 1
INVARIANT RefreshReachesTheJobs
CHECK_DEADLOCK FALSE
