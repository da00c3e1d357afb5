CONSTANTS
    o1 = o1  o2 = o2  A = A  B = B
    Objs = {o1}
    NoObj = NoObj
    Addrs = {A, B}
    MaxID = 2
    FirstID = 2
    Roams <- Staying
    MainReasons = {"SERVER_FIN"}
    ReliableData = FALSE
    HEARTBEAT_TIMEOUT = 2
    RECONNECT_TIMEOUT = 4
    FIN_WAIT_SECONDS = 1
    TIME_WAIT_SECONDS = 2
    BIND_TIMEOUT = 3
    CONN_STATE_INTERVAL = 2
    MAX_CONN_RECV_NUM = 2
SPECIFICATION FairSpec
INVARIANTS IndexExact NoUseAfterDelete
PROPERTIES EndsFreed UnboundFreed
