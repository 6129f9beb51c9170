SPECIFICATION Spec
CONSTANTS
    Sockets = {s1}
    MirrorCap = 1
    HighWater = 1
    MaxLog = 1
    MaxFrames = 0
INVARIANTS
    ClosedSocketHoldsNothing
CHECK_DEADLOCK FALSE
