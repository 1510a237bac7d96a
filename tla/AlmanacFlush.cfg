SPECIFICATION FlushSpec
CONSTANTS
    DayLen = 2
    FutureSkew = 1
    FlushLag = 1
    Retention = 1
    GraceDays = 1
    MaxDaysPerRun = 2
    SegmentMax = 2
    Ingesters = {i1}
    ObserveLag = 0
    MaxRepeats = 0
    PreDeploy <- MCPreDeploy
    StartClock = 4
    MaxClock = 6
    LastDay = 3
    MaxSpots = 3
    MaxCrashes = 1
INVARIANT FlushConserves
PROPERTIES EveryFinalDayPassed MemCatchesUp
CHECK_DEADLOCK FALSE
