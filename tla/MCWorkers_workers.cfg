SPECIFICATION WorkersSpec
INVARIANTS TokensMatchText LimitsKept Lemmatized JoinComplete AllSelected
PROPERTY WorkersEnd
CHECK_DEADLOCK FALSE
CONSTANTS
    a = a
    u = u
    A = A
    sp = sp
    nl = nl
    frag = frag
    txt = txt
    token = token
    normalization = normalization
    lemma = lemma
    lexeme = lexeme
    form = form
    tagset = tagset
    valency = valency
    terminal = terminal
    selected = selected
    pl = pl
    parse = parse
    symTag = symTag
    discarded = discarded
    F = F
    L = L
    T = T
    B = B
    term = term
    word = word
    p = p
    q = q
    r = r
    o = o
    n = n
    v = v
    n1 = n1
    n2 = n2
    v1 = v1
    nf = nf
    vf = vf
    NoText = NoText
    Symbol = symTag
    Discarded = discarded
    Space = sp
    Newline = nl
    LowestScore <- MCLowestScore
    Tag <- MCTag
    PlaneTag <- MCPlaneTag
    Char <- MCChar
    Category <- MCCategory
    Width <- MCWidth
    LowerCase <- MCLowerCase
    Dictionary <- MCDictionary
    LevelTag <- MCLevelTag
    LemmatizerTags <- MCLemmatizerTags
    FragItem <- MCFragItem
    FragTags <- MCFragTags
    TextItem <- MCTextItem
    TextTags <- MCTextTags
    TokenTags <- MCTokenTags
    LexiconMask <- MCLexiconMask
    Lexicon <- MCLexicon
    LexiconTags <- MCLexiconTags
    LeftMask <- MCLeftMask
    RightMask <- MCRightMask
    joinedCategory <- MCjoinedCategory
    SelectedTags <- MCSelectedTags
    Cases <- MCCases
    FallbackMask <- TokenMask
    InMask <- FormMask
    Strings = {}
    Corrections = {}
    Annotations = {}
    PartitionTags = {}
    Scores = {}
    Masks = {}
    MaxPath = 0
    MaxText = 0
    MaxLoose = 0
    MaxEdges = 0
    MaxPartitions = 0
    MaxCount = 0
