SPECIFICATION Spec
CONSTANTS
    Paths <- MCPaths
    Kinds <- MCKinds
    MaxEvents = 4
    MaxCalls = 2
    MaxFiles = 2
INVARIANTS LostOnlyInAGap EditorKnowsItsFile OnlyTypedIsSaved FailedLeavesNothing
PROPERTY DraftIsSavedOrShown
CHECK_DEADLOCK FALSE
