SPECIFICATION Spec
CONSTANTS
    RowKeys = {1, 2}
    Windows = 2
    SnrCutoff = 5
    Before <- MCBefore
    BatchSize = 1
    BatchAttempts = 2
    FinalizeRounds = 2
    SnrRawRetention = 5
    SplitTimes = FALSE
    SnrMaxLate = 0
    SnrMaxClock = 8
    SnrMaxSpots = 1
    SnrMaxRestarts = 1
    WsprAreas = {"A", "B"}
    RingOf <- MCRingOf
    Months = {1, 2}
    MonthList <- MCMonths
    DaysOfMonth = {1}
    Archive <- MCArchive
    NoLocator = {"none"}
    NoRegion = {"none", "sea"}
    CountMax = 2
    AreaLists <- MCAreaLists
    Hours = 2
    MaxFailures = 2
    Minute = 4
    Pause = 1
    MaxPerMinute = 2
    BackoffBase = 1
    RequestTicks = {0, 1}
    WsprMaxRestarts = 1
    Requests = {r1, r2}
    CacheKeys = {"g", "g-10"}
    LandingKey = "g"
    CacheCap = 1
    DayTicks = 2
    TypicalTTL = 3
    TodayTTL = 1
    NegTTL = 1
    RadiusAt <- MCRadiusAt
    AcStart = 1
    AcMaxClock = 2
    AcMaxRequests = 2
    Slots = 2
    WinDays = 2
    Radii = {0, 1}
    MMinFull = 2
    MMinFloor = 1
    OpenMin = 2
    WidenMinSlots = 1
    BridgeSlots = 1
    RoundSlots = 7
    LookAhead = 2
    CellValues <- MCCellValues
    IngestValues <- MCIngest
    LaneSpans <- MCSpans
    RowDaysN = 2
    RowSlots = 2
    Bins = 2
    VarintBase = 2
    CellChoices <- MCCells
SYMMETRY MCRequestSymmetry
INVARIANTS SnrNeverTwice SinceIsHonest WsprPaced AlmanacAnswerComplete AlmanacAnswerCurrent AlmanacPurged PanelKeepsRadiusPromise SeasonAgreesWithPanel UsualWindowsExact SparseRoundTrip
PROPERTY WsprImplementsRecord
CHECK_DEADLOCK FALSE
