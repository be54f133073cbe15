CONSTANTS
    MAX_EVENTS = 4
    NULL = NULL
    MaxClients = 1
    MaxFd = 3
    TxCap = 1
    NN_MAX_MESSAGE_LEN = 2
    BUF_SIZ = 2
    Bytes <- TwoWay
    CommandLines <- Modes
    PeerFaults = {"eof", "reset", "timeout"}
    ConnectResults = {"now", "pending"}
    AcceptErrnos = {}
    EnvFaults = {"poll", "calloc"}
SPECIFICATION Spec
INVARIANTS TypeOK NoDangling NoFdLeak NoDoubleFree EverySideWatched StreamIntact PollOutIffPending HalfClosedHasWork
CHECK_DEADLOCK FALSE
