SPECIFICATION Spec
CONSTANTS
    b1 = b1
    b2 = b2
    Space = Space
    Bricks = {b1, b2}
    Reaches <- OneReach
    Documents <- TwoOnly
    Readers = {r1}
    Batches <- TwoBatches
    Budget = 4
    PrefixBudgets = {1}
    KeepLive = 1
    NoBelow = NoBelow
    MaxRevision = 4
    MaxRoots = 3
    MaxOverlap = 1
    MaxHostCall = 1
    MaxLayers = 3
    Calls <- NewTops
INVARIANT EveryAnswerIsTheField
CHECK_DEADLOCK FALSE
