CONSTANTS
    MaxRelays <- MCMaxRelays
    MaxInstances <- MCMaxInstances
    MaxServices <- MCMaxServices
    MaxK <- MCMaxK
    Names <- MCNames
    DefaultServiceNames <- MCDefaultServiceNames
SPECIFICATION Spec
INVARIANTS
    ChannelsFitCluster
    TopologyMatchesReference
