SPECIFICATION RecoverySpec
CONSTANTS
    Nodes = {n1}
    Colors = {red, blue}
    Points = {p}
    NoItem = NoItem
    n1 = n1
    red = red
    blue = blue
    p = p
    v0 = v0
    v1 = v1
    Layers = {grid}
    Values = {v0, v1}
    Blank = v0
    HostCommands <- PlainCommands
    EngineEdits <- NoEdits
    Limits <- NoLimits
    MaxDepth = 1
    Calls <- RecoverableCalls
    NoSnapshot = NoSnapshot
    MaxEvents = 5
    MaxStack = 6
INVARIANTS RecoveryIsFaithful UndoSurvivesTheCrash
PROPERTY TrimKeepsSegments
CHECK_DEADLOCK FALSE
