SPECIFICATION Spec
CONSTANTS
    QueuedSources = {"mqtt"}
    sources <- MCSources
    RawChunk = 2
    RawCap = 3
    RawRetention = 0
    MaxLate = 0
    PreLog <- MCPreLog
    StartClock = 0
    MaxClock = 1
    MaxSpots = 5
    MaxRestarts = 1
    WlIds = {r1}
    WlKinds = {"good", "noLocator", "badTime", "refused"}
    WlLookback = 2
    WlLatency = 1
    WlUploadLag = 1
    WlMaxTime = 8
    WlMaxRestarts = 1
    WcCells = {c1}
    WcDays = {1, 3}
    WcMaxPending = 1
    WcTTL = 2
    WcNegTTL = 1
    WcQueryTime = 1
    WcRequests = {q1, q2}
    WcJobs = {j1, j2}
    WcMaxSpots = 2
    WcMaxTime = 2
    WcMaxFlushFails = 1
    WcMaxRestarts = 1
    HaIds = {s1, s2}
    HaWindows <- MCHaWindows
    HaRequests = {h1, h2}
    HaLateness = 1
    HaRetention = 1
    HaMaxSpan = 3
    HaDefaultSpan = 1
    HaLiveEdge = 0
    HaTTL = 0
    HaQueryTime = 1
    HaMaxEntries = 1
    HaMaxSpots = 1
    HaMaxConcurrent = 2
    HaRatePerHour = 1
    HaHour = 1
    HaStart = 4
    HaMaxTime = 6
    HaMaxAsked = 2
    BpClusters = {"x", "y"}
    BpRequests = {b1, b2}
    BpTTL = 1
    BpStaleOK = 2
    BpRetryAfter = 1
    BpMaxClusters = 1
    BpMaxTime = 2
    BpMaxAsked = 3
    PushEndpoints = {e1, e2, e3}
    PushPrefs <- MCPushPrefs
    PushSurges = {"10m:CAR"}
    PushPeers = {"proxy"}
    PushForwarded = {"ip1"}
    PushTrusted = {"proxy"}
    PushMaxSubscriptions = 2
    PushRatePerHour = 2
    PushWorkers = {w1}
    PushMaxPosts = 4
    PushMaxEvents = 1
    PushMaxNotifies = 1
INVARIANTS RawRetriedInOrder RawNothingLost WsprStoredOnce ClimateConserves HistoryHitHonest PairsNeverBlank
PROPERTIES StatsNeverGoBack PushEvictsOldest PushKeepsLive
CHECK_DEADLOCK FALSE
