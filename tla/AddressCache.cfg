CONSTANTS
    NULL = NULL
    v4 = v4
    v6 = v6
    Addrs <- BothAddrs
    Answers <- OneOrTwo
    TIME_SINCE_LAST_RESOLUTION_SEC = 2
    MaxTime = 8
    MaxLists = 3
SPECIFICATION Spec
INVARIANTS OnlyCachedIsLive CachedIffSocket
CHECK_DEADLOCK FALSE
