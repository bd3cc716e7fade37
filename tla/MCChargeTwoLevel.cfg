SPECIFICATION Spec
CONSTANTS
    Instances <- MCTwoLevelBosons
    StateOf <- MCStateOf
INVARIANTS
    LazyMatchesEager
CHECK_DEADLOCK FALSE
