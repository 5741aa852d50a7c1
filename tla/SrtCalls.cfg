SPECIFICATION FairSpec
CONSTANTS
    MaxInFlight = 2
    GBN_WINDOW = 1
    MAX_SEG_LEN = 1
    SYN_MAX_RETRY = 1
    FIN_MAX_RETRY = 1
    SendLengths = {2}
    MaxBytes = 2
    MaxConns = 1
    ReuseAfterFailure = FALSE
    RECEIVE_BUF_SIZE = 2
    RecvLengths = {1}
PROPERTIES
    ServerCallsReturn
CHECK_DEADLOCK FALSE
