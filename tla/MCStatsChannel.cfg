SPECIFICATION Spec
CONSTANTS
    c1 = c1
    c2 = c2
    c3 = c3
    Clients = {c1, c2}
    Leavers = {c1, c2}
    Blocking = TRUE
    BufferSize = 0
    SubsLimit = 0
    MaxMessages = 2
    Mortal = {1}
    MaxStarts = 2
    MayClose = TRUE
SYMMETRY Symmetric
INVARIANTS TypeOK   
CHECK_DEADLOCK FALSE
