CONSTANTS
    Clients = {c1}
    Paths = {p1, p2}
    None = None
    Length = 3
    IOErrors = TRUE
    Crashes = FALSE
SPECIFICATION Spec
PROPERTY AddedIsPersisted
