SPECIFICATION Spec
CONSTANTS
    NumGenes = 4
    MaxConc = 7
    MinConc = 1
    MaxBuckets = 4
    Spins = 4
    MaxOutputs = 6
    MaxParts = 6
    BlockBits = 3
    MaxBits = 8
    GeneBits = {3, 4, 5, 6, 7, 8}
    ActiveTypes <- MCActiveTypes
    Fitnesses = {0, 5, 10, 40}
    MaxIndividuals = 3
    NoInstr = NoInstr
    MaxNodes = 5
INVARIANTS
    ParserKeepsItsPromise
CHECK_DEADLOCK FALSE
