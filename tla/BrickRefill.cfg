SPECIFICATION Spec
CONSTANTS
    s = s
    Keys <- Cells
    Coordinates <- Lines
    Surfaces = {s}
    Edits <- SmallEdits
    Floods <- Flood
    MaxBricks = 3
    MaxGeneration = 2
    MaxRequests = 5
    Calls <- NoCalls
INVARIANTS NothingStranded CleanMeansCurrent BytesAreCounted BoundsAreTight MipIsCurrent
CHECK_DEADLOCK FALSE
