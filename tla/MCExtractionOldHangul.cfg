CONSTANTS
    Codes = {35041, 35777, 35785, 54369}
    Skips = {1, 3}
    MaxSkip = 3
    Width = 8
    Sizes = {1, 2, 7}
    Cells = {0, 1}
    LineWidth = 2
    PageLines = 2
    MaxUnits = 6
    MaxDepth = 3
    Counts = {0, 2, 11}
    Copies = {0, 1}
    Paras = 2
    MaxShort = 2
SPECIFICATION Spec
INVARIANTS
    LettersWritten
CHECK_DEADLOCK FALSE
