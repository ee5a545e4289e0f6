SPECIFICATION Spec
CONSTANTS
    p1 = p1
    p2 = p2
    Procs = {p1, p2}
    Records <- SomeRecords
    None = None
    Garbage = Garbage
    MaxPathRetries = 2
    MaxInodes = 3
    Imports <- AnyImports
    Uses <- SharedOrAlone
PROPERTY AnswersAreTrue
SYMMETRY ProcSymmetry
