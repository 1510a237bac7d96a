SPECIFICATION Spec
CONSTANTS
    QueuedSources = {"mqtt"}
    sources <- MCSources
    RawChunk = 1
    RawCap = 1
    RawRetention = 1
    MaxLate = 0
    PreLog <- MCPreLog
    StartClock = 3
    MaxClock = 4
    MaxSpots = 2
    MaxRestarts = 1
    SlotsPerDay = 2
    BackfillDays = 1
    MaxChunkFailures = 2
    MaxPending = 1
INVARIANTS BackfillOnce CursorCovers
CHECK_DEADLOCK FALSE
