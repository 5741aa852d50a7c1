SPECIFICATION Spec
CONSTANTS
    MaxInFlight = 2
    GBN_WINDOW = 2
    MAX_SEG_LEN = 1
    SYN_MAX_RETRY = 1
    FIN_MAX_RETRY = 1
    SendLengths = {1}
    MaxBytes = 1
    MaxConns = 2
    ReuseAfterFailure = TRUE
    RECEIVE_BUF_SIZE = 3
    RecvLengths = {1}
INVARIANTS
    NoByteTwice
CHECK_DEADLOCK FALSE
