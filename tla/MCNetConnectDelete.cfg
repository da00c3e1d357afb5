CONSTANTS
    o1 = o1  o2 = o2  A = A  B = B
    Objs = {o1, o2}
    NoObj = NoObj
    Addrs = {A, B}
    MaxID = 2
    FirstID = 1
    Roams <- Moving
    MainReasons = {"SERVER_FIN"}
    ReliableData = TRUE
    HEARTBEAT_TIMEOUT = 1
    RECONNECT_TIMEOUT = 1
    FIN_WAIT_SECONDS = 1
    TIME_WAIT_SECONDS = 1
    BIND_TIMEOUT = 2
    CONN_STATE_INTERVAL = 1
    MAX_CONN_RECV_NUM = 1
SPECIFICATION Spec
INVARIANTS NoUseAfterDelete
