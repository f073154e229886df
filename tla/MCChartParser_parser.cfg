SPECIFICATION ParserSpec
INVARIANTS ChartComplete DerivationsOnce FirstTreesEnd TurnsBounded
PROPERTY ParserEnds
CHECK_DEADLOCK FALSE
CONSTANTS
    a = a
    sp = sp
    symTag = symTag
    discarded = discarded
    token = token
    terminal = terminal
    gobio = gobio
    aux = aux
    pl = pl
    T = T
    B = B
    x = x
    y = y
    z = z
    NoText = NoText
    Symbol = symTag
    Discarded = discarded
    Blank = B
    TokenTag = token
    MaxInt = 40
    LowestScore <- MCLowestScore
    Tag <- MCTag
    PlaneTag <- MCPlaneTag
    Char <- MCChar
    Category <- MCCategory
    Rules <- MCRules
    Charts <- MCCharts
    InputMask <- MCInputMask
    ParseTags <- MCParseTags
    Strings = {}
    Corrections = {}
    Annotations = {}
    PartitionTags = {}
    Scores = {}
    Masks = {}
    MaxPath = 0
    MaxText = 0
    MaxLoose = 0
    MaxEdges = 0
    MaxPartitions = 0
    MaxCount = 0
