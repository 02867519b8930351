SPECIFICATION FairSpec
CONSTANTS
    Step = 2
    BeGap = 1
    TickGap = 1
    Risk = 2
    MinGap = 1
    RoundTrip = 1
    Positions = {1, 2}
    Key <- OneKey
    Levels <- ShallowLevels
    CandleLen = 1
    Horizon = 1
    MaxTicks = 3
    MaxFaults = 0
    MaxRestarts = 0
INVARIANTS
    BooksAgree
    CacheCoherent
    CandleSnapshotFresh
PROPERTIES
    SettledIsFinal
    ImplementsPosition
    StopExecutes
    ResultAnnounced
    LockIsReleased
