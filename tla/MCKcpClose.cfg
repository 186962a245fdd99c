SPECIFICATION Spec
CONSTANTS
    A = a
    B = b
    MaxSegments <- MCOneWay1
    SendingBuffer = 2
    InFlight = 1
    ReceivingInFlight = 2
    RemoteNext = 2
    Magic = 20
    Closers = {a, b}
    IdleClose = TRUE
    MaxNet = 2
INVARIANTS  GivenUpOnlyForCause
CHECK_DEADLOCK FALSE
