SPECIFICATION LineSpec
CONSTANTS
    p = p
    q = q
    Loaded <- OneLayer
    Points = {q}
    Looks = {vivid}
    vivid = vivid
    MaxEdits = 3
    MaxEvents = 4
    Calls <- DrainsLate
INVARIANTS JournalRebuildsTheScene
CHECK_DEADLOCK FALSE
