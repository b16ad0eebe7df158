SPECIFICATION FairSpec
CONSTANTS
    c1 = c1
    c2 = c2
    e1 = e1
    e2 = e2
    e3 = e3
    None = None
    SEQ = 16
    U16 = 16
    Dsr = FALSE
    CT_TCP_INIT_ACK_THRESHOLD = 3
    CT_UDP_CONN_THRESHOLD = 2
    CPUs <- TwoCPUs
    Elems <- ThreeElems
    Packets <- AllPackets
    Traffics <- LongTraffics
CHECK_DEADLOCK FALSE
PROPERTIES
    Reclaimed
    Establishes
