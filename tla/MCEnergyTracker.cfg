CONSTANTS
    None = None
    Corrupt = Corrupt
    Readings <- MCReadings
    Cap = 2
    Month = 2
    FanMax = 44000
    Days = 2
    Horizon = 4
    Budget = 2
SPECIFICATION Spec
INVARIANTS
    TypeOK
    NothingTwice
    NothingMissing
    TodayWithinDay
