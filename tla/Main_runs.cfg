SPECIFICATION Spec
CONSTANTS
    Null = Null
    NoInstr = NoInstr
    ActiveTypes <- MCActiveTypes
    Fitnesses = {1}
    RunFiles <- MCRunFiles
PROPERTIES
    EveryRunEnds
CHECK_DEADLOCK FALSE
