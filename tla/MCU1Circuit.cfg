SPECIFICATION CircuitSpec
CONSTANTS
    Worker = {w1, w2}
    Threshold = 2
    Pi = 3
    Instances <- MCInstances
    Observables <- MCObservables
    Parameters <- MCParameters
    InitialState <- MCInitialState
INVARIANTS
    SimulatesFullSpace
    GradientMatchesTangent
    NoSharedAmplitude
    PlanCanRun
