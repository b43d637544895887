CONSTANTS
    N = 4
    Cap = 2
    Size = 2
SPECIFICATION Spec
INVARIANTS
    TypeOK
    EachDocumentOnce
    GoroutineProtocol
    NothingOutlivesRun
PROPERTIES
    ImplementsContract
