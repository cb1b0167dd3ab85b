SPECIFICATION FairSpec
CONSTANTS
    Day = 6
    IST = 1
    MarketClose = 4
    DailyTimes = {0, 1, 5}
    Zones <- MCZones
    ClientTimeout = 1
    Window = 2
    MaxRunTime = 1
    MaxTime = 15
    MaxCalls = 3
    MaxEvents = 1
INVARIANTS
    DailyTypeOK
    WindowsDisjoint
    AtTheDailyTime
    NoDayMissed
    ToldRunsOnDisk
    FoldsPurged
PROPERTY
    SchedulerSleepsAgain
CHECK_DEADLOCK FALSE
