SPECIFICATION Watched1
CONSTANTS
    Ids = {1}
    MaxPlan = 1
    TextAfter = 3
    Cap = 1
    Seats = 2
    EduMax = 2
    PerSetup = 1
    Advised = TRUE
    OwnEngine = FALSE
    ChartEnabled = TRUE
    ChartWatch = TRUE
    Stale = FALSE
    Expires = FALSE
    MaxSendFails = 1
    MaxChartFails = 0
    MaxDbFails = 0
    MaxCrashes = 0
    MaxRefreshes = 1
INVARIANTS
    OneAnnouncement
    AnnouncedIsTracked
CHECK_DEADLOCK FALSE
