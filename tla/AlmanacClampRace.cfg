SPECIFICATION Spec
CONSTANTS
    DayLen = 2
    FutureSkew = 1
    FlushLag = 1
    Retention = 1
    GraceDays = 1
    MaxDaysPerRun = 2
    SegmentMax = 2
    Ingesters = {i1}
    ObserveLag = 1
    MaxRepeats = 0
    PreDeploy <- MCPreDeploy
    StartClock = 4
    MaxClock = 8
    LastDay = 4
    MaxSpots = 1
    MaxCrashes = 0
INVARIANT ViewExact
CHECK_DEADLOCK FALSE
