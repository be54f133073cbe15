CONSTANTS
    MAX_EVENTS = 3
    NULL = NULL
    MaxClients = 2
    MaxFd = 5
    TxCap = 1
    NN_MAX_MESSAGE_LEN = 2
    BUF_SIZ = 2
    Bytes <- NoBytes
    CommandLines <- Plain
    PeerFaults = {}
    ConnectResults = {"pending"}
    AcceptErrnos = {}
    EnvFaults = {}
SPECIFICATION Spec
INVARIANT SuccessMeansSignal
CHECK_DEADLOCK FALSE
