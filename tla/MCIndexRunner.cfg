CONSTANTS
    Callers = {c1, c2, c3}
    Roots = {docs, mail}
    Runs = {r1, r2, r3}
    None = None
SPECIFICATION FlagSpec
INVARIANTS
    FlagTypeOK
    FlagHasOwner
    OneRunUnlessOverlapped
    TruthfulUnlessOverlapped
PROPERTIES
    FlagComesDown
