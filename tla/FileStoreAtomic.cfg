SPECIFICATION FairSpec
CONSTANTS
    Updates = {u1, u2, u3}
    Exclusive = {u1, u2}
    Readers = {r1}
    MaxCrashes = 2
INVARIANTS
    DoneSurvives
    FailedLeavesNoTrace
    ExclusiveOnce
    AppliedInCallOrder
    ReadsAreFresh
PROPERTIES
    EveryUpdateEnds
    ImplementsAtomicStore
CHECK_DEADLOCK FALSE
