CONSTANTS
    BUFFER_SIZE <- MCBufferSize
    MaxIngest <- MCMaxIngest
    Commands <- MCReturnCommands
    Radii <- MCRadii
    Positions <- MCTwoPositions
    Null = Null
    NoWord = NoWord
SPECIFICATION Spec
PROPERTY DisableKeepsBufferedMoves
