CONSTANTS
    DayLen = 4
    Ats <- MCAts
    Actions <- MCActions
    fan = fan
    MaxEntries = 2
    RetryCadence = 1
    RetryDeadline = 2
    None = None
    MaxMono = 5
    MaxBack = 2
    MaxForward = 1
    Budget = 2
SPECIFICATION FairSilenceSpec
INVARIANTS
    TypeOK
    RetryShowsAlert
    DiskMatches
PROPERTIES
    OncePerDay
    DeadlineKept
    FiresOnlyCrossed
    SilentForAReason
    RetryEnds
