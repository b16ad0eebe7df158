SPECIFICATION Spec
CONSTANTS
    p = p
    q = q
    e1 = e1
    e2 = e2
    e3 = e3
    e4 = e4
    e5 = e5
    None = None
    NANO = 2
    MULTIPLIER = 100
    BufferTime = 0
    CPUs <- MCCPUs
    Elems <- MCElems
    Setups <- MCSetups
CHECK_DEADLOCK FALSE
SYMMETRY ElemSymmetry
INVARIANTS
    TypeOK
    RateKept
    RateKeptByTwo
    MapHasRoom
