SPECIFICATION PaneSpec
CONSTANTS
    MaxCols = 2
    MaxRows = 3
    Requests = {0, 1, 2, 3, 4}
    Containers <- MCContainers
    MaxTurns = 3
    MaxFrames = 1
INVARIANTS
    DriftIsBounded
    LastRequestStandsOrMetNudge
    PaneAgrees
PROPERTIES
    RowIsGivenBack
    PaneComesBack
CHECK_DEADLOCK FALSE
