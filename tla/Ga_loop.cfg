SPECIFICATION Spec
CONSTANTS
    Null = Null
    PopSize = 2
    CrossUnit = 3
    GeneAlleles = {"g"}
    ProteinAlleles = {"p", "q"}
    GaSteps = 5
    FitnessLogInterval = 3
    TermCutoff = 1
    Fitnesses = {0, 2, 3, 4}
    MutProb = 0
    MutStep = 2
    MutProbLimit = 3
    CrossFrac = 3
    CrossStep <- MCCrossStep
    CrossFracLimit = 0
INVARIANTS
    SnapshotsOwned
    CopiesOwned
    RunBestIsLeast
    LoggedBestIsLeast
    EvaluatedFresh
    EliteSurvivesCrossover
PROPERTIES
    RunEnds
CHECK_DEADLOCK FALSE
