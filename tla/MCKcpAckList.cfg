CONSTANTS
    empty = empty  short = short  full = full  over = over  huge = huge
    AckLists <- NoAckList
    Garbage = Garbage
    Msgs = {empty, short, full, over, huge}
    Length <- LengthVal
    mss = 2
    Windows <- WindowsVal
    IKCP_WND_RCV = 3
    SnMod = 8
    MaxSend = 2
    MAX_ENCODE_BUF_SIZE = 3
    DataHead = 2
    SizeMod = 16
    KCP_CONF_MAX_WAITSND = 3
    ackblock = 1
    dead_link = 2
    Lifetime = 1
    MaxAcks = 2
    Which = {"recv", "link"}
SPECIFICATION MCSpec
INVARIANTS AcksHavePlaces
