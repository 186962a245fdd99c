SPECIFICATION FairSpec
CONSTANTS
    i1 = i1
    i2 = i2
    Ids = {i1, i2}
    MaxConns = 3
INVARIANTS TypeOK OpenIsListed EndedIsRemoved CheckerWatches StartSucceeds
PROPERTIES IdleEnds
