SPECIFICATION FairSpec
CONSTANTS
    Sockets = {s1}
    MirrorCap = 1
    HighWater = 1
    MaxLog = 3
    MaxFrames = 2
INVARIANTS
    FramesInOrder
    CloseReleases
PROPERTIES
    AttachEnds
    PublishedIsSent
    VanishedIsReleased
CHECK_DEADLOCK FALSE
