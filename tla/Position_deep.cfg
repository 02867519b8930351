SPECIFICATION Spec
CONSTANTS
    Step = 2
    BeGap = 1
    TickGap = 1
    Risk = 2
    MinGap = 1
    RoundTrip = 1
    Positions = {1}
    Key <- OwnKeys
    Levels <- DeepLevels
    CandleLen = 1
    Horizon = 3
    MaxTicks = 4
    MaxFaults = 0
    MaxRestarts = 0
INVARIANTS
    TypeOK
    ProtectedStop
    BankedNeverLoses
    RepliesPointBack
PROPERTY LadderForward
