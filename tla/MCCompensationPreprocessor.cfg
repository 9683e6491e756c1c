CONSTANTS
    BUFFER_SIZE <- MCBufferSize
    MaxIngest <- MCMaxIngest
    Commands <- MCCommands
    Radii <- MCRadii
    Positions <- MCPositions
    Null = Null
    NoWord = NoWord
SPECIFICATION Spec
INVARIANT TypeOK
INVARIANT BufferWellFormed
PROPERTY QueueSpec
VIEW MCControlView
