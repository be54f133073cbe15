CONSTANTS
    MAX_EVENTS = 4
    NULL = NULL
    MaxClients = 3
    MaxFd = 7
    TxCap = 1
    NN_MAX_MESSAGE_LEN = 2
    BUF_SIZ = 2
    Bytes <- NoBytes
    CommandLines <- PlainOrWrong
    PeerFaults = {"reset"}
    ConnectResults = {"now", "pending", "fail"}
    AcceptErrnos = {"ECONNABORTED"}
    EnvFaults = {"listen", "listener", "calloc", "fcntl", "signal"}
SPECIFICATION Spec
INVARIANTS NoDangling EverySideWatched NoDoubleFree
PROPERTIES GivenUpIsClosed LeaksExactlyWhenFull
CHECK_DEADLOCK FALSE
