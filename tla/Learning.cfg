SPECIFICATION LearningSpec
CONSTANTS
    UserIds = {u1, u2}
    EpisodeIds = {e1, e2}
    Unit <- One
    Potentials <- ZeroOrOne
    Values <- ZeroOrOne
    Costs <- StepCosts
    TaskSuccess <- Success
    TaskFailure <- Failure
    MaxLength = 3
    MaxAdded = 2
    MaxRows = 4
    None = None
    Matrix <- MCMatrix
    Examples = 3
    BatchSize = 2
    Epochs = 2
    Iterations = 2
    Episodes = 4
    MaxSteps = 5
    NaN = NaN
INVARIANTS
    TypeOK
    CreditIsRight
    SequenceIntact
    EachUnitOncePerEpoch
    OnPolicy
    PayloadsAreSound
PROPERTY SharedModelsRest
SYMMETRY Alike
