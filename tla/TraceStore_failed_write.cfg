SPECIFICATION Spec
CONSTANTS
    p1 = p1
    p2 = p2
    Procs = {p1, p2}
    Records <- TwoRecords
    None = None
    Garbage = Garbage
    MaxPathRetries = 2
    MaxInodes = 1
    Imports <- NoImports
    Uses <- SharedAndFailing
INVARIANT StaysReadable
