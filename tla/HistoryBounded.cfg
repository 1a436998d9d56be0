SPECIFICATION LineSpec
CONSTANTS
    Nodes = {n1}
    Colors = {red, blue}
    Points = {p}
    NoItem = NoItem
    n1 = n1
    red = red
    blue = blue
    p = p
    v0 = v0
    v1 = v1
    Layers = {grid}
    Values = {v0, v1}
    Blank = v0
    HostCommands <- PlainCommands
    EngineEdits <- NoEdits
    Limits <- TightLimits
    MaxDepth = 1
    Calls <- BoundedCalls
    NoSnapshot = NoSnapshot
    MaxEvents = 6
    MaxStack = 6
PROPERTY OneLine NewestStepSurvives
CHECK_DEADLOCK FALSE
VIEW LineButJournalContent
