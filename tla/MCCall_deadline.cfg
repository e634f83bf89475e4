CONSTANTS
    MaxWrites <- MCMaxWrites
    FragCap <- MCFragCap
    SendBufferSize <- MCSendBufferSize
SPECIFICATION DeadlineSpec
PROPERTIES
    DeadlineEndsRead
