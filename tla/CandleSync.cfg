SPECIFICATION FairSpec
CONSTANTS
    DayLength = 2
    Lookback = 1
    PageSize = 2
    Horizon = 4
    MaxFaults = 1
INVARIANTS
    TypeOK
    CandlesHeal
    LoopsLoseNoCandle
PROPERTIES
    RecentCandlesArrive
