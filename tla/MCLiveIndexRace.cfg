CONSTANTS
    Files = {a}
    SubFiles = {}
    Scanners = {s1}
    MaxVersion = 2
    Unreadable = {}
    Lossy = FALSE
    Faults = FALSE
    Resets = FALSE
    MaxEdits = 2
    MaxScans = 1
SPECIFICATION Spec
INVARIANT SettledIsInSync
CHECK_DEADLOCK FALSE
