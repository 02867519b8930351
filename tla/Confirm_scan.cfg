SPECIFICATION Joined
CONSTANTS
    Ids = {1, 2}
    MaxPlan = 1
    TextAfter = 3
    Cap = 1
    Seats = 2
    EduMax = 2
    PerSetup = 1
    Advised = FALSE
    OwnEngine = FALSE
    ChartEnabled = TRUE
    ChartWatch = FALSE
    Stale = TRUE
    Expires = FALSE
    MaxSendFails = 0
    MaxChartFails = 0
    MaxDbFails = 0
    MaxCrashes = 0
    MaxRefreshes = 0
INVARIANTS
    AnnouncedIsTracked
CHECK_DEADLOCK FALSE
