SPECIFICATION Spec
CONSTANTS
    Thread = {t1, t2}
    Requests <- MCRequests
    MinEnforced = 400
    NoLimit = 1000000
INVARIANTS
    
    NoBuildBesideCache
    BuildWithinEstimate
    FilledAsCounted
SYMMETRY Symmetric
CHECK_DEADLOCK FALSE
