SPECIFICATION Spec
CONSTANTS
    Instances <- MCInstances
    StateOf <- MCStateOf
INVARIANTS
    PlanIndexesTheSector
    CursorFollowsRank
    EagerMatchesOperator
    LazyMatchesOperator
CHECK_DEADLOCK FALSE
