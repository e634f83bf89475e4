CONSTANTS
    MaxWrites <- MCMaxWrites
    FragCap <- MCFragCap
    SendBufferSize <- MCSendBufferSize
SPECIFICATION Spec
PROPERTIES
    ReaderLatchIsFinal
