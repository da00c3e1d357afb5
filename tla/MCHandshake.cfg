\* One client, which may change between two addresses; the calm network and the rough.
CONSTANTS
    c1 = c1  A = A  B = B  s1 = s1  s2 = s2  n1 = n1  n2 = n2
    Clients = {c1}
    Addrs = {A, B}
    None = None
    Secrets = {s1, s2}
    Nonces = {n1, n2}
    SECRET_KEY_NUM = 2
    MAX_HANDSHAKE_COOKIES_TIME = 1
    KeyPeriod = 1
    Modes = {"calm", "rough"}
    MaxPackets = 2
SPECIFICATION FairSpec
INVARIANTS TypeOK KeysAgreeWhenCalm
PROPERTIES MadeForTheLiving NeverMadeAgainLater Connects
