SPECIFICATION LineSpec
CONSTANTS
    Nodes = {n1}
    Colors = {red, blue}
    Points = {p}
    NoItem = NoItem
    n1 = n1
    red = red
    blue = blue
    p = p
    v0 = v0
    v1 = v1
    Layers = {grid}
    Values = {v0, v1}
    Blank = v0
    HostCommands <- StrokeCommands
    EngineEdits <- SculptEdits
    Limits <- NoLimits
    MaxDepth = 2
    Calls <- FailingLayers
    NoSnapshot = NoSnapshot
    MaxEvents = 6
    MaxStack = 4
INVARIANTS TypeOK StepsNameEntries BracketsAgree UndoDepthIsHonest RedoDepthIsHonest
PROPERTY OneLine RefusalChangesNothing
CHECK_DEADLOCK FALSE
VIEW LineButJournalContent
