SPECIFICATION Spec
CONSTANTS
    MaxInFlight = 2
    GBN_WINDOW = 2
    MAX_SEG_LEN = 1
    SYN_MAX_RETRY = 1
    FIN_MAX_RETRY = 1
    SendLengths = {3}
    MaxBytes = 3
    MaxConns = 2
    ReuseAfterFailure = FALSE
    RECEIVE_BUF_SIZE = 3
    RecvLengths = {2}
INVARIANTS
    Ind
    TypeOK
    StreamIntegrity
    SendBufferOK
    TimerCoversUnacked
    FreedWasAccepted
    PeerConnected
PROPERTIES
    ImplementsByteStream
    ExpectNeverGoesBack
    DisconnectMeansClosed
CHECK_DEADLOCK FALSE
