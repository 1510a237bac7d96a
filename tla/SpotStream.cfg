SPECIFICATION Spec
CONSTANTS
    Kinds = {"a", "b"}
    Ring <- MCRing
    Filters <- MCNarrowWide
    Radii = {0}
    Broadcasters = {b1, b2}
    Minutes = 0
    Retention = 0
    Overlap = 2
    Buffer = 1
    BatchMax = 2
    Patient = TRUE
    MaxLate = 0
    MaxOvertake = 1
    MaxMsgs = 3
    MaxClock = 1
    MaxStarts = 2
    MaxBreaks = 1
    MaxRestarts = 1
    MaxEnds = 1
INVARIANTS NothingLost NoDuplicates
SYMMETRY MCSymmetry
CHECK_DEADLOCK FALSE
