CONSTANTS
    Files = {a, b}
    SubFiles = {b}
    Scanners = {s1, s2}
    MaxVersion = 2
    Unreadable = {2}
    Lossy = TRUE
    Faults = TRUE
    Resets = TRUE
    MaxEdits = 3
    MaxScans = 3
SPECIFICATION Spec
INVARIANTS
    TypeOK
    StaleOnlyIfMissed
PROPERTIES
    CatchesUp
CHECK_DEADLOCK FALSE
