CONSTANTS
    Clients = {c1, c2}
    Main = Main
    Paths = {p1, p2}
    Runs = {r1, r2}
    None = None
    Faults = TRUE
SPECIFICATION Spec
SYMMETRY Symmetry
INVARIANTS
    TypeOK
    WatchesFollowConfig
    IndexedUnlessMissed
