SPECIFICATION Spec
CONSTANTS
    p1 = p1
    p2 = p2
    Procs = {p1, p2}
    Records <- SomeRecords
    None = None
    Garbage = Garbage
    MaxPathRetries = 2
    MaxInodes = 1
    Imports <- NoImports
    Uses <- Killed
INVARIANT IndexIsBacked
INVARIANT InFlightIsProtected
PROPERTY ImplementsLog
