SPECIFICATION Spec
CONSTANTS
    Matrix <- ThreeVariants
    PpoVariants <- TwoPpo
    Cases <- TwoCases
    Draws = {1, 2}
    Protocols <- AnyProtocols
    None = None
INVARIANT FinishedRunVerifies
INVARIANT NeverRefused
INVARIANT PublishedStaysTrue
PROPERTY EvidenceIsFinal
