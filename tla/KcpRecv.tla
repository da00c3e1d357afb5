-------------------------------- MODULE KcpRecv --------------------------------
(* The receiving half of ikcp.c: segments of a peer's reliable messages arrive  *)
(* late, twice, out of order or not at all, and ikcp_recv hands out the          *)
(* messages.  It is shown to implement MsgQueue: a FIFO of whole messages.       *)
(*                                                                              *)
(* A segment is abstracted to its sequence number, its fragment number and the  *)
(* message it is a part of.  Retransmission, acknowledgements and the peer's    *)
(* congestion window are left out: the network may deliver any segment the peer *)
(* was given to send, as often as it likes, inside the peer's send window.      *)
(*                                                                              *)
(* ikcp_input acknowledges a segment before it keeps it, and writes the          *)
(* acknowledgement into a list.  In this build nothing allocates the list: the   *)
(* first segment makes it write through NULL, and the process is gone.  What      *)
(* the rest of the code promises is followed with a list as well.                 *)
EXTENDS Integers, Sequences, FiniteSets, FiniteSetsExt

CONSTANTS
    AckLists,           \* what acklist may be: {"NULL"} in this build
    Msgs,               \* messages
    Garbage,            \* what fragments that make no message decode to
    Length,             \* the bytes of each message
    mss,                \* bytes of a full segment
    Windows,            \* the send and receive windows ikcp_wndsize may set
    IKCP_WND_RCV,
    SnMod,              \* 2^32, where sequence numbers wrap
    MaxSend             \* bound: number of messages of a behaviour

ASSUME KcpAssumption ==
    /\ Garbage \notin Msgs
    /\ Length \in [Msgs -> Nat]
    /\ {mss, IKCP_WND_RCV} \subseteq Nat \ {0}
    /\ SnMod \in Nat
    /\ SnMod % 2 = 0
    /\ Windows \subseteq [snd : Nat \ {0}, rcv : Nat \ {0}]
    /\ \A w \in Windows : /\ IKCP_WND_RCV <= w.rcv + 1
                          /\ 2 * w.snd <= SnMod
                          /\ 2 * w.rcv <= SnMod
    /\ MaxSend \in Nat
    /\ AckLists \subseteq {"NULL", "places"}

VARIABLES
    acklist,    \* NULL, or places for ackblock acknowledgements
    crashed,    \* whether the receiving process has written through NULL
    sent,       \* history: the messages the peer sent, in order
    stream,     \* history: all the segments they were cut into
    snd_wnd,    \* of the peer
    rcv_wnd,
    rcv_nxt,
    rcv_buf,    \* segments that arrived ahead of a gap
    rcv_queue,  \* segments in order, to be merged
    taken,      \* history: segments moved to rcv_queue, counted without wrapping
    delivered   \* history: what each ikcp_recv merged

sender == <<sent, stream>>
receiver == <<rcv_nxt, rcv_buf, rcv_queue, taken>>
windows == <<snd_wnd, rcv_wnd>>
process == <<acklist, crashed>>
kvars == <<sender, receiver, windows, delivered, process>>
-------------------------------------------------------------------------------
\* The signed difference of two uint32_t numbers.
itimediff(later, earlier) ==
    LET d == (later - earlier) % SnMod
    IN  IF d < SnMod \div 2 THEN d ELSE d - SnMod

\* The number of segments ikcp_send cuts a message into.
FragCount(m) == IF Length[m] <= mss THEN 1 ELSE (Length[m] + mss - 1) \div mss

\* The segments of message m, the n-th one, from position p of the stream on.
Fragments(m, n, p) ==
    [k \in 1 .. FragCount(m) |-> [sn |-> (p + k - 1) % SnMod, frg |-> FragCount(m) - k, msg |-> n]]

\* Mutant: a message of any length is sent.
SendAnyLength(m, first) ==
    /\ Len(sent) < MaxSend
    /\ sent' = Append(sent, m)
    /\ stream' = stream \o Fragments(m, Len(sent) + 1, first)
    /\ UNCHANGED <<receiver, windows, delivered, process>>

\* ikcp_send at a peer whose next segment has number first; a message too long for
\* the receive window is refused.
SendNumbered(m, first) ==
    /\ Len(sent) < MaxSend
    /\ FragCount(m) < IKCP_WND_RCV
    /\ sent' = Append(sent, m)
    /\ stream' = stream \o Fragments(m, Len(sent) + 1, first)
    /\ UNCHANGED <<receiver, windows, delivered, process>>

\* The peer numbers its segments from 0 on, without a gap.
Send(m) == SendNumbered(m, Len(stream))
-------------------------------------------------------------------------------
\* Mutant: a gap is not noticed.
AvailableAny(buf, queue) ==
    Max({n \in 0 .. Len(buf) : n = 0 \/ Len(queue) + n <= rcv_wnd})

\* How many segments at the front of buf are the next ones in order, while
\* rcv_queue, grown to be queue, has room for them.
Available(buf, queue) ==
    Max({n \in 0 .. Len(buf) :
            /\ n = 0 \/ Len(queue) + n <= rcv_wnd
            /\ \A j \in 1 .. n : buf[j].sn = (rcv_nxt + j - 1) % SnMod})

\* Mutant: rcv_nxt does not wrap.
MoveAvailableWide(buf, queue) ==
    LET n == Available(buf, queue)
    IN  /\ rcv_queue' = queue \o SubSeq(buf, 1, n)
        /\ rcv_buf' = SubSeq(buf, n + 1, Len(buf))
        /\ rcv_nxt' = rcv_nxt + n
        /\ taken' = taken + n

\* Move available data from rcv_buf to rcv_queue.
MoveAvailable(buf, queue) ==
    LET n == Available(buf, queue)
    IN  /\ rcv_queue' = queue \o SubSeq(buf, 1, n)
        /\ rcv_buf' = SubSeq(buf, n + 1, Len(buf))
        /\ rcv_nxt' = (rcv_nxt + n) % SnMod
        /\ taken' = taken + n

\* Mutant: a segment from before the window is taken for a new one.
InWindowBelow(sn) == itimediff(sn, (rcv_nxt + rcv_wnd) % SnMod) < 0

\* Whether a sequence number is inside the receive window.
InWindow(sn) ==
    /\ itimediff(sn, (rcv_nxt + rcv_wnd) % SnMod) < 0
    /\ itimediff(sn, rcv_nxt) >= 0

\* The place in rcv_buf of the last segment that is not after sn (0: none is).
Place(sn) == Max({0} \union {i \in 1 .. Len(rcv_buf) : itimediff(sn, rcv_buf[i].sn) >= 0})

\* rcv_buf with a new segment put in its place, unless it is already there.
Inserted(seg) ==
    LET i == Place(seg.sn)
    IN  IF i > 0 /\ rcv_buf[i].sn = seg.sn THEN rcv_buf
        ELSE SubSeq(rcv_buf, 1, i) \o <<seg>> \o SubSeq(rcv_buf, i + 1, Len(rcv_buf))

\* Whether ikcp_input acknowledges a segment, also one it does not accept (again).
Acked(sn) == itimediff(sn, (rcv_nxt + rcv_wnd) % SnMod) < 0

\* Whether ikcp_ack_push writes the acknowledgement through NULL.
WritesNull(sn) == acklist = "NULL" /\ Acked(sn)

\* ikcp_input of an IKCP_CMD_PUSH segment: it is acknowledged, and kept if it is
\* inside the window.
InputSegment(seg) ==
    /\ ~crashed
    /\ crashed' = WritesNull(seg.sn)
    /\ IF InWindow(seg.sn) /\ ~WritesNull(seg.sn) THEN MoveAvailable(Inserted(seg), rcv_queue)
                                                  ELSE UNCHANGED receiver
    /\ UNCHANGED <<sender, windows, delivered, acklist>>

\* The p-th segment of the stream arrives.  It is no older than half the sequence
\* numbers, and none is further ahead than snd_wnd segments after those the peer may
\* have heard of: also one in rcv_buf is acknowledged.
Input(p) ==
    /\ taken - (SnMod \div 2) < p
    /\ p <= taken + rcv_wnd + snd_wnd
    /\ InputSegment(stream[p])

\* Mutant: the number of fragments is not compared.
WholeAny == rcv_queue # <<>>

\* ikcp_peeksize finds a whole message (it returns no -1).
Whole ==
    /\ rcv_queue # <<>>
    /\ rcv_queue[1].frg = 0 \/ Len(rcv_queue) >= rcv_queue[1].frg + 1

\* How many segments ikcp_recv merges: up to the first with fragment number 0, or
\* all of them.
Merged == Min({Len(rcv_queue)} \union {k \in 1 .. Len(rcv_queue) : rcv_queue[k].frg = 0})

\* The fragments of the n-th message, in order.
Parts(n) == [k \in 1 .. FragCount(sent[n]) |-> [frg |-> FragCount(sent[n]) - k, msg |-> n]]

\* What merged segments are: a message, or garbage.
Decoded(segs) ==
    LET parts == [k \in 1 .. Len(segs) |-> [frg |-> segs[k].frg, msg |-> segs[k].msg]]
    IN  IF \E n \in 1 .. Len(sent) : parts = Parts(n)
        THEN sent[CHOOSE n \in 1 .. Len(sent) : parts = Parts(n)]
        ELSE Garbage

\* ikcp_recv of a whole message into a buffer that holds it (otherwise it changes
\* nothing).
Recv ==
    /\ ~crashed
    /\ Whole
    /\ delivered' = Append(delivered, Decoded(SubSeq(rcv_queue, 1, Merged)))
    /\ MoveAvailable(rcv_buf, SubSeq(rcv_queue, Merged + 1, Len(rcv_queue)))
    /\ UNCHANGED <<sender, windows, process>>

\* Nothing more happens in a process that is gone.
Gone == crashed /\ UNCHANGED kvars
-------------------------------------------------------------------------------
Init ==
    /\ sent = <<>> /\ stream = <<>>
    /\ \E w \in Windows : snd_wnd = w.snd /\ rcv_wnd = w.rcv
    /\ rcv_nxt = 0 /\ rcv_buf = <<>> /\ rcv_queue = <<>> /\ taken = 0
    /\ delivered = <<>>
    /\ acklist \in AckLists
    /\ crashed = FALSE

Next ==
    \/ \E m \in Msgs : Send(m)
    \/ \E p \in 1 .. Len(stream) : Input(p)
    \/ Recv
    \/ Gone

Spec == Init /\ [][Next]_kvars
-------------------------------------------------------------------------------
Segment == [sn : 0 .. SnMod - 1, frg : Nat, msg : Nat \ {0}]

TypeOK ==
    /\ sent \in Seq(Msgs)
    /\ stream \in Seq(Segment)
    /\ [snd |-> snd_wnd, rcv |-> rcv_wnd] \in Windows
    /\ rcv_nxt \in 0 .. SnMod - 1
    /\ rcv_buf \in Seq(Segment)
    /\ rcv_queue \in Seq(Segment)
    /\ taken \in Nat
    /\ delivered \in Seq(Msgs \union {Garbage})
    /\ acklist \in AckLists
    /\ crashed \in BOOLEAN

\* The messages sent and not yet handed out.
Undelivered == SubSeq(sent, Len(delivered) + 1, Len(sent))

Fifo == INSTANCE MsgQueue WITH queue <- Undelivered, handed <- delivered

\* Whatever the network does, ikcp_recv hands out the peer's messages, each whole,
\* once and in order, also when sequence numbers wrap.
ImplementsQueue == Fifo!Spec

\* The segments rcv_nxt acknowledges are not lost: what is in rcv_queue is the
\* stream, without a gap, from the first message not handed out up to rcv_nxt.
AckedIsKept ==
    /\ rcv_nxt = taken % SnMod
    /\ taken <= Len(stream)
    /\ Len(rcv_queue) <= taken
    /\ \A k \in 1 .. Len(rcv_queue) : rcv_queue[k] = stream[taken - Len(rcv_queue) + k]
    /\ rcv_queue # <<>> => /\ rcv_queue[1].msg = Len(delivered) + 1
                           /\ rcv_queue[1].frg = FragCount(sent[rcv_queue[1].msg]) - 1

\* The segments that wait for a gap to be filled are inside the window, in order and
\* each once: none can stay in front of the one that is missing and block it.
NoneBlocks ==
    /\ \A i \in 1 .. Len(rcv_buf) : itimediff(rcv_buf[i].sn, rcv_nxt) \in 0 .. rcv_wnd - 1
    /\ \A i, j \in 1 .. Len(rcv_buf) : i < j => itimediff(rcv_buf[j].sn, rcv_buf[i].sn) > 0

\* Nobody waits for what never comes: the segment rcv_nxt asks for waits in rcv_buf only
\* as long as rcv_queue is full, and a full rcv_queue holds a whole message, which ikcp_recv
\* takes out.  (The peer does not send again what is in rcv_buf: it is acknowledged.)
NeverStuck ==
    /\ rcv_buf # <<>> /\ rcv_buf[1].sn = rcv_nxt => Len(rcv_queue) = rcv_wnd
    /\ Len(rcv_queue) >= rcv_wnd => Whole

\* The list of acknowledgements has the places its count stands for, as many as the largest
\* receive window (the comment at ackblock): no acknowledgement is written elsewhere.
AcksHavePlaces == ~crashed
===============================================================================
