SPECIFICATION CommandSpec
CONSTANTS
    NoCond = NoCond
    BadCond = BadCond
    Malformed <- MCMalformed
    CtxKeys <- MCKeys
    CtxValues <- MCValues
    NotSet = NotSet
    Responses <- MCResponses
    Holds <- MCHolds
    Bare <- MCBare
    Goal = "yes"
    Resolved <- MCResolved
    TextOp <- MCTextOp
    Parsed <- Expression
    MarkerRouted <- MCMarkerRouted
    Workflows <- RunWorkflows
    OptionsFor <- CommandOptionsFor
    MaxSteps = 7
    NoBranch = NoBranch
    MaxDepth = 6
    MaxResults = 8
INVARIANT JoinWaitsForBranches
CHECK_DEADLOCK FALSE
