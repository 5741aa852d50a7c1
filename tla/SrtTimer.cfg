SPECIFICATION Spec
CONSTANTS
    MaxInFlight = 2
    GBN_WINDOW = 2
    MAX_SEG_LEN = 1
    SYN_MAX_RETRY = 1
    FIN_MAX_RETRY = 1
    SendLengths = {1}
    MaxBytes = 1
    MaxConns = 1
    ReuseAfterFailure = FALSE
    RECEIVE_BUF_SIZE = 3
    RecvLengths = {1, 2}
INVARIANTS
    TimerFindsHead
CHECK_DEADLOCK FALSE
