SPECIFICATION Spec
CONSTANTS
    QueuedSources = {"mqtt"}
    sources <- MCSources
    RawChunk = 1
    RawCap = 1
    RawRetention = 1
    MaxLate = 0
    PreLog <- MCPreLog
    StartClock = 3
    MaxClock = 4
    MaxSpots = 1
    MaxRestarts = 1
    SlotsPerDay = 1
    BackfillDays = 2
    MaxChunkFailures = 2
    MaxPending = 1
INVARIANT NoChunkSkipped
CHECK_DEADLOCK FALSE
