CONSTANTS
    MaxWrites <- MCMaxWrites
    FragCap <- MCFragCap
    SendBufferSize <- MCSendBufferSize
SPECIFICATION TeardownSpec
PROPERTIES
    PeerUnblocked
