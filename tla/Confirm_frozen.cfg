SPECIFICATION Watched1
CONSTANTS
    Ids = {1}
    MaxPlan = 2
    TextAfter = 3
    Cap = 1
    Seats = 2
    EduMax = 2
    PerSetup = 1
    Advised = FALSE
    OwnEngine = FALSE
    ChartEnabled = TRUE
    ChartWatch = TRUE
    Stale = FALSE
    Expires = FALSE
    MaxSendFails = 0
    MaxChartFails = 0
    MaxDbFails = 0
    MaxCrashes = 0
    MaxRefreshes = 0
INVARIANTS
    PlanAsAnnounced
CHECK_DEADLOCK FALSE
