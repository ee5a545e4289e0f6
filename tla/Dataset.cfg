SPECIFICATION Spec
CONSTANTS
    None = None
    NoCallId = NoCallId
    IllTyped = IllTyped
    GoalVariants <- MCVariants
    Sizes <- MCSizes
    Walked <- MCWalked
    SampledStrata = {"s1", "s2", "s3"}
    MaxStock = 3
    MaxDraws = 10
    PlanLengths <- MCWalked
    StatesPerTask = 5
    NegativesPerState = 2
    MaxTasks = 6
CHECK_DEADLOCK FALSE
INVARIANTS
    PlansLeaveChoices
    EverySizeIsUsable
    EvenlyDrawn
    EverySecondTaskChallenged
