SPECIFICATION Spec
CONSTANTS
    Null = Null
    NoInstr = NoInstr
    ActiveTypes <- MCActiveTypes
    Fitnesses = {1, 2, 3}
    RunFiles <- MCRunFiles
INVARIANTS
    UndefinedOnlyInLaterSearches
    AveragesAreOwn
    CopiesAccounted
    ProgramsComplete
CHECK_DEADLOCK FALSE
