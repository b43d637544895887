CONSTANTS
    Clients = {c1}
    Main = Main
    Paths = {p1, p2}
    Runs = {r1, r2}
    None = None
    Faults = FALSE
SPECIFICATION Spec
SYMMETRY Symmetry
INVARIANTS
    ConfiguredIsIndexed
