SPECIFICATION Spec
CONSTANTS
    DayLen = 2
    FutureSkew = 1
    FlushLag = 0
    Retention = 1
    GraceDays = 1
    MaxDaysPerRun = 2
    SegmentMax = 2
    Ingesters = {i1}
    ObserveLag = 0
    MaxRepeats = 1
    PreDeploy <- MCPreDeploy
    StartClock = 4
    MaxClock = 8
    LastDay = 4
    MaxSpots = 1
    MaxCrashes = 1
INVARIANTS TypeOK ViewExact IngestExact MemNeverAhead
PROPERTY WatermarkAccounts
CHECK_DEADLOCK FALSE
