SPECIFICATION Spec
CONSTANTS
    Kinds = {"a", "b", "c"}
    Ring <- MCRing
    Filters <- MCThree
    Radii = {0}
    Broadcasters = {b1}
    Minutes = 1
    Retention = 1
    Overlap = 1
    Buffer = 1
    BatchMax = 2
    Patient = FALSE
    MaxLate = 0
    MaxOvertake = 0
    MaxMsgs = 3
    MaxClock = 0
    MaxStarts = 3
    MaxBreaks = 0
    MaxRestarts = 0
    MaxEnds = 1
INVARIANT NothingLost
CHECK_DEADLOCK FALSE
