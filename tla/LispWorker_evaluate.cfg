SPECIFICATION Spec
CONSTANTS
    PipeCapacity = 4
    ChunkSize = 2
    AnswerLength = 2
    MaxOut = 5
    MaxErr = 5
    MaxSize = 4
INVARIANTS
    StoresInBuffer
    ZeroMeansSolved
PROPERTIES
    EndsOrBlocks
CHECK_DEADLOCK FALSE
