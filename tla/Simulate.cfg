SPECIFICATION Spec
CONSTANTS
    NoCond = NoCond
    BadCond = BadCond
    Malformed <- MCMalformed
    CtxKeys <- MCAllKeys
    CtxValues <- MCValues
    NotSet = NotSet
    Responses <- MCResponses
    Holds <- MCHolds
    Bare <- MCBare
    Goal = "yes"
    TextOp <- MCTextOp
    Workflows <- MCWorkflows
    OptionsFor <- MCOptionsFor
    MaxSteps = 9
    NoBranch = NoBranch
INVARIANTS
    BreaksAreEarned
    ScenarioPrevails
    LabelSpentOnce
    StepBudget
    StatusIsEarned
    PathFollowsGraph
    BranchesWalkedBeforeJoin
    EventsMatchPath
PROPERTY Termination
CHECK_DEADLOCK FALSE
