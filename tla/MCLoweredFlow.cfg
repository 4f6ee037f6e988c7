CONSTANTS
    a = a
    c = c
    none = none
    MaxBlocks = 14
    MaxStatements = 6
    Assigns <- MCAssigns
    Conditions <- MCConditions
    NoBlock = none
    NoEdge = none
SPECIFICATION Spec
INVARIANTS
    AtMostTwoPredecessors
    JoinBudget
    FlowMatchesSource
    AnalysisAccepts
    OrdersRespectDominance
PROPERTIES
    EdgesPatchedOnce
    FunnelEnds
CHECK_DEADLOCK FALSE
