CONSTANTS
    DayLen = 4
    Ats <- MCAts
    Actions <- MCActions
    fan = fan
    MaxEntries = 2
    RetryCadence = 1
    RetryDeadline = 2
    None = None
    MaxMono = 7
    MaxBack = 0
    MaxForward = 0
    Budget = 2
SPECIFICATION SilenceSpec
PROPERTY FiresEveryDay
