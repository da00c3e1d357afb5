CONSTANTS
    x = x  y = y
    Conns = {1, 2}
    Texts = {x, y}
    Length <- LengthVal
    MAX_BIZ_MSG_SIZE = 5
    QueueLen = 2
    LoopMax = 1
    Shift = 4
    Requests <- OneAndMany
    Lists <- ToBoth
    Overlap = FALSE
    MaxAsk = 3
    MaxNews = 2
SPECIFICATION Spec
INVARIANTS TypeOK Served HeardAsSent 
