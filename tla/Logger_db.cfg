SPECIFICATION Spec
CONSTANTS
    Null = Null
    NoInstr = NoInstr
    NumGenes = 2
    RegSteps = 2
    LogGrns = TRUE
    LogRegSteps = TRUE
    PopSize = 2
    GaSteps = 3
    FitnessLogInterval = 3
    LogModes = {"all", "best", "none"}
    Simulations <- MCSimulations
    Couples <- MCCouples
INVARIANTS
    NeverFails
    ShownIsObserved
    FittestShown
    OneGrnPerStep
CHECK_DEADLOCK FALSE
