CONSTANTS
    MaxWrites <- MCMaxWrites
    FragCap <- MCFragCap
    SendBufferSize <- MCSendBufferSize
SPECIFICATION FairSpec
PROPERTIES
    CompletesWhenUndisturbed
