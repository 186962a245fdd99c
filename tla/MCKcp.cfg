SPECIFICATION FairSpec
CONSTANTS
    A = a
    B = b
    MaxSegments <- MCOneWay2
    SendingBuffer = 2
    InFlight = 1
    ReceivingInFlight = 1
    RemoteNext = 1
    Magic = 20
    Closers = {}
    IdleClose = FALSE
    MaxNet = 2
PROPERTIES AllDelivered AllAcknowledged
INVARIANTS TypeOK AckedIsReceived AcksRepeated
