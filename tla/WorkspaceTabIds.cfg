SPECIFICATION Spec
CONSTANTS
    StoredTrees <- MCStoredTrees
    Side = 10000
    MaxTerminals = 4
    MaxWorkspaces = 2
    MaxEvents = 3
    MaxCalls = 2
    MaxSaves = 2
    Ratios = {0, 7}
    MaxDepth = 3
INVARIANT LayerKeysDiffer
CHECK_DEADLOCK FALSE
