SPECIFICATION Spec
CONSTANTS
    NoEntry = NoEntry
    SEQ = 16
    U16 = 16
    Dsr = FALSE
    CT_TCP_INIT_ACK_THRESHOLD = 3
    CT_UDP_CONN_THRESHOLD = 4
    Off = Off
    Orderly = TRUE
    Lossy = {"INIT","INIT_ACK"}
    MaxData = 4
    MaxLosses = 3
CHECK_DEADLOCK FALSE
INVARIANTS
    TypeOK
    OpenIsTracked
    TrackedUntilClosed
    NothingDropped
