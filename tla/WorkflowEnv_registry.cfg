SPECIFICATION Spec
CONSTANTS
    None = None
    NoCallId = NoCallId
    IllTyped = IllTyped
    Entity = "entity"
    Nodes <- LedgerNodes
    Node <- LedgerNode
    Tools <- LedgerTools
    Schema <- LedgerSchema
    Forbidden <- MCForbidden
    SideEffects <- MCSideEffects
    Fields <- MCFields
    Values <- MCValues
    InitialFields <- MCInitialFields
    InitialLedger <- HiddenLedger
    GoalFields <- LedgerGoalFields
    GoalNodes <- LedgerNodes
    MaxSteps = 5
    Keys <- MCKeys
    BlankKeys <- MCBlankKeys
    CallIds <- MCCallIds
    Calls <- LedgerCalls
INVARIANTS
    TypeOK
    HistoryAgrees
    ExactlyOnceInOrder
    CallIdNamesOneRequest
    ApprovalPrecedesGuarded
    IdempotencyKeyOnce
PROPERTY
    ImplementsEpisode
