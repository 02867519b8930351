SPECIFICATION Spec
CONSTANTS
    Step = 2
    BeGap = 1
    TickGap = 1
    Risk = 2
    MinGap = 3
    RoundTrip = 1
    Positions = {1}
    Key <- OwnKeys
    Levels <- WideLevels
    CandleLen = 2
    Horizon = 3
    MaxTicks = 6
    MaxFaults = 1
    MaxRestarts = 1
INVARIANTS
    AnnouncedInOrder
    AnnouncedIsBooked
    NoPreFillAccounting
PROPERTY SettledIsFinalUpToRepair
