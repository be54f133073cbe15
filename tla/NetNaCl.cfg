CONSTANTS
    crypto_box_PUBLICKEYBYTES = 2
    crypto_box_ZEROBYTES = 0
    sizeof_hdr = 2
    sizeof_len = 1
    NN_MAX_MESSAGE_LEN = 2
    BUF_SIZ = 3
    Window = 4
    Bytes <- OneWay
    MaxKeys = 2
    DamagedLens = {0, 3}
    Faults = {"close", "urandom", "corrupt"}
SPECIFICATION FairSpec
INVARIANTS TypeOK KeysAgree OnlyDamageFails OverrunOnlyByDamage
PROPERTIES KeyExchangeEnds ImplementsChannel
CHECK_DEADLOCK FALSE
