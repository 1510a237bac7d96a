SPECIFICATION ReadersSpec
CONSTANTS
    Kinds = {"a", "far"}
    Ring <- MCRing
    Filters <- MCNearFar
    Radii = {0, 1}
    Broadcasters = {b1, b2}
    Minutes = 1
    Retention = 1
    Overlap = 1
    Buffer = 1
    BatchMax = 2
    Patient = TRUE
    MaxLate = 0
    MaxOvertake = 0
    MaxMsgs = 3
    MaxClock = 0
    MaxStarts = 2
    MaxBreaks = 0
    MaxRestarts = 1
    MaxEnds = 1
    HpSquares = {1, 2, 3}
    HpBands = {14}
    HpSnrs <- MCHpSnrs
    HpMufs = {10}
    HpMatchRings = 1
    HpWindow = 2
    HpMaxAge = 1
    HpMaxTime = 2
    HpMaxReports = 2
    HpMaxDrops = 1
INVARIANTS NothingLost ScoreGrounded
SYMMETRY MCSymmetry
CHECK_DEADLOCK FALSE
