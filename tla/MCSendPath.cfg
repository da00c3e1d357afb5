CONSTANTS
    None = None
    Conns = {c1, c2}
    Packets = {p1, p2}
    Addrs = {a1, a2}
    Lengths = {1, 3, 5}
    MAX_PACKET_SIZE = 8
    HeadLen = 1
    LenLen = 2
SYMMETRY Symmetry
SPECIFICATION Spec
INVARIANTS TypeOK PointersSound QueuedAsTaken
