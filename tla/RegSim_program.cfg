SPECIFICATION MCSpec
CONSTANTS
    NoInstr = NoInstr
    NumGenes = 3
    MaxConc = 10
    MinConc = 1
    GeneBits = 2
    BindingSeqPlay = 0
    NumInitial = 2
    DecayRate = 2
    RegSteps = 5
    Thresholds = {1}
    Rates = {3, 9}
    InitialConcs = {0, 1, 5}
    GrowthStart = 0
    GrowthEnd = 1
    GrowthInterval = 1
    GrowthThreshold = 1
    CodeStart = 2
    CodeEnd = 4
    CodeInterval = 2
    MaxPgmSize = 3
    MinArgs <- MCMinArgs
    MaxArgs <- MCMaxArgs
INVARIANTS
    TypeOK
    NoDangling
    OutputsPartitionCreated
    ProducesOwnWhileBound
    InstrsFit
    TreeSound
PROPERTIES
    IdsStable
    ImplementsGeneExpression
