CONSTANTS
    MAX_EVENTS = 4
    NULL = NULL
    MaxClients = 1
    MaxFd = 3
    TxCap = 1
    NN_MAX_MESSAGE_LEN = 2
    BUF_SIZ = 2
    Bytes <- OneEach
    CommandLines <- Plain
    PeerFaults = {"eof"}
    ConnectResults = {"now"}
    AcceptErrnos = {}
    EnvFaults = {}
SPECIFICATION FairSpec
PROPERTY FinDataDelivered
CHECK_DEADLOCK FALSE
