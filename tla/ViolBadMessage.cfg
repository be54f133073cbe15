CONSTANTS
    crypto_box_PUBLICKEYBYTES = 2
    crypto_box_ZEROBYTES = 1
    sizeof_hdr = 2
    sizeof_len = 1
    NN_MAX_MESSAGE_LEN = 2
    BUF_SIZ = 3
    Window = 5
    Bytes <- OneWay
    MaxKeys = 2
    DamagedLens = {0, 3, 4}
    Faults = {"corrupt"}
SPECIFICATION Spec
INVARIANT BadMessageEnds
CHECK_DEADLOCK FALSE
