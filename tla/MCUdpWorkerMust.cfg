SPECIFICATION Spec
CONSTANTS
    i1 = i1
    i2 = i2
    Ids = {i1, i2}
    MaxConns = 3
SYMMETRY Symmetric
INVARIANTS MustStart
