SPECIFICATION Spec
CONSTANTS
    Setups = {"BREAK", "LINE", "ZONE"}
    Candles <- Tape
    SubCloses = {117, 124}
    Line = 120
    Slope <- FallingSlope
    ZoneBottom = 100
    ZoneTop = 116
    Start <- AlertPlan
    StopMax = 40
    StopMin = 5
    TargetMax = 50
    SpanMin = 6
    Buffer = 2
    Chase = 8
    FastChase = 15
    StaleBars = 2
    MaxBars = 4
    MaxRefused = 1
INVARIANTS
    TypeOK
    LadderAhead
    ConsumedBarNeverRefires
    EntryIsRecent
    TakenBackWasBroken
CHECK_DEADLOCK FALSE
