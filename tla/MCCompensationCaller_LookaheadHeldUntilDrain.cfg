CONSTANTS
    BUFFER_SIZE <- MCBufferSize
    MaxIngest <- MCMaxIngest
    Commands <- MCCommands
    Radii <- MCRadii
    Positions <- MCPositions
    StartPositions <- MCPositions
    Programs <- MCPrograms
    Null = Null
    NoWord = NoWord
SPECIFICATION CSpec
\* The caller stops when its program is done.
CHECK_DEADLOCK FALSE
PROPERTY LookaheadHeldUntilDrain
