CONSTANTS
    MaxWrites <- MCMaxWrites
    FragCap <- MCFragCap
    SendBufferSize <- MCSendBufferSize
SPECIFICATION Spec
INVARIANTS
    TypeOK
    FramesWellFormed
    StreamIntegrity
    FrameOwnership
PROPERTIES
    LatchIsFinal
