CONSTANTS
    Clients = {c1, c2, c3}
    Paths = {p1, p2, p3}
    None = None
    Length = 3
    IOErrors = TRUE
    Crashes = TRUE
SPECIFICATION Spec
SYMMETRY Symmetry
INVARIANTS
    TypeOK
    NoDuplicates
    FileHoldsList
    TornOnlyWhenWriting
