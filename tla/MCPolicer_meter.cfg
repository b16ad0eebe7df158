SPECIFICATION Spec
CONSTANTS
    p = p
    q = q
    NSECS_IN_USEC = 3
    WORD = 1000
    CPUs <- TwoCPUs
    Setups <- Workers
    MaxTime = 6
    MaxPackets = 3
CHECK_DEADLOCK FALSE
INVARIANTS
    TypeOK
    ColoursConform
    HalfRate
