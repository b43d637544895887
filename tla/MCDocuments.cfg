CONSTANTS
    Codes = {35041, 35137, 34881, 33889}
    Skips = {1, 3}
    MaxSkip = 3
    Width = 8
    Sizes = {1, 2, 7}
    Cells = {0, 1}
    LineWidth = 2
    PageLines = 2
    MaxUnits = 6
    MaxDepth = 3
    Counts = {0, 2, 11}
    Copies = {0, 1}
    Paras = 2
    MaxShort = 2
    Letters = {a, b}
    Space = space
    Wide = wide
    MinQueryLength = 2
    MinGram = 2
    MaxGram = 3
    MaxContent = 4
    MaxQuery = 3
    MaxFragment = 4
SPECIFICATION DocumentsSpec
INVARIANTS
    TypeOK
    TextInOrder
    NoOverrun
    CutNoticed
    SyllablesKept
    SectionsOnce
    SectionsInOrder
    SearchTypeOK
    IgnoreSpacesFinds
    PageKeepsFragment
PROPERTIES
    ExtractionEnds
    SearchEnds
CHECK_DEADLOCK FALSE
