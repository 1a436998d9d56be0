SPECIFICATION Spec
CONSTANTS
    b1 = b1
    b2 = b2
    Space = Space
    Bricks = {b1, b2}
    Reaches <- OneReach
    Documents <- TwoDocuments
    Readers = {r1, r2}
    Batches <- TwoBatches
    Budget = 4
    PrefixBudgets = {0, 1}
    KeepLive = 1
    NoBelow = NoBelow
    MaxRevision = 4
    MaxRoots = 3
    MaxOverlap = 2
    MaxHostCall = 1
    MaxLayers = 2
    Calls <- Drags
INVARIANTS TypeOK EveryAnswerIsTheField PrefixIsOfTheRoots LogReachesNow WithinBudget
PROPERTY SeedsOnlyAdvance
CHECK_DEADLOCK FALSE
