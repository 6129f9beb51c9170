SPECIFICATION Spec
CONSTANTS
    Sockets = {s1, s2}
    MirrorCap = 1
    HighWater = 1
    MaxLog = 2
    MaxFrames = 0
SYMMETRY Symmetry
INVARIANTS
    GapFree
    NothingLost
    SnapshotExact
    ExitIsKnown
PROPERTIES
    ImplementsFeed
CHECK_DEADLOCK FALSE
