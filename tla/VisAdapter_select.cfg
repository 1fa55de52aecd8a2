SPECIFICATION Spec
CONSTANTS
    Scripts <- MCScripts
    NumRows <- MCNumRows
    MaxErrors = 2
INVARIANTS
    Aligned
    SelectGivesRows
PROPERTIES
    ListensUntilExit
CHECK_DEADLOCK FALSE
