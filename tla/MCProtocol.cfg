CONSTANTS
    LowRange = 2
    U8 = 8
    None = None
    MaxAddrLength = 15
    Numbers <- MCNumbers
    Messages <- MCMessages
    Addresses <- Texts
    Paddings <- Texts
    Datagrams <- MCDatagrams
    Wire <- MCWire
    MaxMessageLength = 1
    MaxPaddingLength = 1
    ChunkSize = 3
    BufSizes = {1, 2}
    Streams <- MCStreams
SPECIFICATION MCSpec
INVARIANTS
    RoundTrips
    ParsedIsAllOfIt
    NothingInvented
    AtMostOnce
    CompleteIsDelivered
    PanicNeedsLateCopies
    RoundTrip
    BytesConserved
    VerdictIsRight
PROPERTIES
    ReaderIsAnswered
CHECK_DEADLOCK FALSE
