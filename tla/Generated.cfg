SPECIFICATION Spec
CONSTANTS
    None = None
    NoCallId = NoCallId
    IllTyped = IllTyped
    GoalVariants <- MCVariants
    Lengths <- MCLengths
    Shapes14 <- MCShapes14
CHECK_DEADLOCK FALSE
INVARIANTS
    MaskIsRight
    MenuIsComplete
    ExpertStates
    WonExactlyOnPath
    OneGoalPerTrajectory
    PublicRulesAdvance
PROPERTY
    EpisodeEnds
