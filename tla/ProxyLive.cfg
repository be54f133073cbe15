CONSTANTS
    MAX_EVENTS = 4
    NULL = NULL
    MaxClients = 1
    MaxFd = 3
    TxCap = 1
    NN_MAX_MESSAGE_LEN = 2
    BUF_SIZ = 2
    Bytes <- TwoOne
    CommandLines <- Egress
    PeerFaults = {"eof"}
    ConnectResults = {"pending"}
    AcceptErrnos = {}
    EnvFaults = {"signal"}
SPECIFICATION FairSpec
PROPERTIES Delivery EofCloses SignalStops
CHECK_DEADLOCK FALSE
