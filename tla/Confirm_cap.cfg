SPECIFICATION Watched1
CONSTANTS
    Ids = {1, 2}
    MaxPlan = 2
    TextAfter = 3
    Cap = 1
    Seats = 2
    EduMax = 2
    PerSetup = 1
    Advised = FALSE
    OwnEngine = TRUE
    ChartEnabled = TRUE
    ChartWatch = TRUE
    Stale = TRUE
    Expires = TRUE
    MaxSendFails = 0
    MaxChartFails = 0
    MaxDbFails = 0
    MaxCrashes = 0
    MaxRefreshes = 0
INVARIANTS
    TypeOK
    CapacityKept
    NoTwins
CHECK_DEADLOCK FALSE
