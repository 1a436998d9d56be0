SPECIFICATION LineSpec
CONSTANTS
    p = p
    q = q
    Loaded <- OneLayer
    Points = {q}
    Looks = {vivid}
    vivid = vivid
    MaxEdits = 3
    MaxEvents = 4
    Calls <- PlainUse
INVARIANTS TreesAreWhole JournalRebuildsTheScene
PROPERTY EveryEditIsReversible
CHECK_DEADLOCK FALSE
