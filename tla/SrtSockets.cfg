SPECIFICATION Spec
CONSTANTS
    first = first
    second = second
    server = server
    Clients <- BothClients
    Server <- server
    Sockets = {1, 2}
    Deployments <- MCDeployments
    MAX_TRANSPORT_CONNECTIONS = 2
    SYN_MAX_RETRY = 1
    FIN_MAX_RETRY = 1
    MaxToServer = 2
    MaxToClient = 1
INVARIANTS
    TypeOK
    RightPeer
    ServerHasLeft
    OwnData
CHECK_DEADLOCK FALSE
