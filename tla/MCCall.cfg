CONSTANTS
    MaxWrites <- MCMaxWrites
    FragCap <- MCFragCap
    SendBufferSize <- MCSendBufferSize
SPECIFICATION Spec
INVARIANTS
    CTypeOK
    ReaderShutdownOnce
PROPERTIES
    ImplementsArgStream
