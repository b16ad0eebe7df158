SPECIFICATION Spec
CONSTANTS
    NoEntry = NoEntry
    SEQ = 16
    U16 = 16
    Dsr = FALSE
    CT_TCP_INIT_ACK_THRESHOLD = 3
    CT_UDP_CONN_THRESHOLD = 4
    CT_V4_CPTO = 1800
    CT_SCTP_FN_CPTO = 20
    MaxData = 2
    MaxLosses = 3
    Lossy = {}
CHECK_DEADLOCK FALSE
INVARIANTS
    EstablishedTimeout
