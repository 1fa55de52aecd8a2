SPECIFICATION Spec
CONSTANTS
    None = None
    NoInstr = NoInstr
    NumGenes = 2
    RegSteps = 1
    LogGrns = TRUE
    LogRegSteps = TRUE
    GaSteps = 1
    FitnessLogInterval = 1
    Runs <- MCRuns
    CacheSize = 2
INVARIANTS
    CachedAreWhole
    CachesHoldTheRecent
    ShownIsCurrent
