SPECIFICATION Retried
CONSTANTS
    Ids = {1}
    MaxPlan = 2
    TextAfter = 3
    Cap = 1
    Seats = 2
    EduMax = 2
    PerSetup = 1
    Advised = FALSE
    OwnEngine = FALSE
    ChartEnabled = TRUE
    ChartWatch = FALSE
    Stale = FALSE
    Expires = FALSE
    MaxSendFails = 2
    MaxChartFails = 4
    MaxDbFails = 2
    MaxCrashes = 1
    MaxRefreshes = 0
INVARIANTS
    PlanAsAnnounced
    ArmedWasAnnounced
    OneFaultOnePost
    ConfirmedRowIsTracked
PROPERTIES
    ImplementsSignal
    PublicIsFinished
CHECK_DEADLOCK FALSE
