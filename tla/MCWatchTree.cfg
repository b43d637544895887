CONSTANTS
    top = top
    left = left
    right = right
    deep = deep
    Dirs = {top, left, right, deep}
    Roots = {top, left}
    Parent <- TreeParent
    Chain <- TreeChain
    Clients = {c1}
    Handler = handler
    None = None
    Faults = TRUE
    MaxEdits = 2
SPECIFICATION Spec
INVARIANTS
    TypeOK
    TreeFollowed
    WatchedIsWanted
PROPERTIES
    TreeCatchesUp
CHECK_DEADLOCK FALSE
