CONSTANTS
    Readers = {r1, r2}
    Writers = {w1, w2}
    Docs = {d1}
    None = None
SPECIFICATION LiveSpec
INVARIANTS
    TypeOK
    HandleMatchesDirectory
PROPERTIES
    ImplementsDocumentIndex
    OperationsReturn
