SPECIFICATION Spec
CONSTANTS
    Publishers = {p1, p2}
    Generations = {1, 2}
    Names = {"a", "b"}
    MaxStarts = 3
    None = None
    p1 = p1
    p2 = p2
CHECK_DEADLOCK FALSE
INVARIANTS
    PassedIsComplete
    TemporaryIsOwned
PROPERTY
    FinishedIsPublished
