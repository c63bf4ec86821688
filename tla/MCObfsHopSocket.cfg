CONSTANTS
    MaxPort = 3
    DefaultHopInterval = 3
    MinHopInterval = 2
    SaltLen = 1
    KeyLen = 3
    Key <- MCKey
    HopConfigs <- MCAllConfigs
    Salts <- MCSalts
    Outgoing <- MCOutgoing
    GsoSegments = 2
    Plain <- MCPackets
    Runts <- MCRunts
    Scratch = 6
    BufLen = 4
    Batch = 2
    MaxArrivals <- MCMaxArrivals
SPECIFICATION SocketSpec
INVARIANTS
    InboundIntact
    SentToNamedPorts
    SentIsReadable
PROPERTIES
    NeverHopsFast
    AllTaken
    HopTaskEnds
CHECK_DEADLOCK FALSE
