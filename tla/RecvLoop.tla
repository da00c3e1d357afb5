------------------------------- MODULE RecvLoop -------------------------------
(* NetConnect::RecvMsgFromKcp over KcpRecv: how one connection's messages get    *)
(* from KCP to the main thread.  The loop is followed statement by statement,    *)
(* because the size it peeks is an int that it keeps in a size_t.  The net       *)
(* thread feeds no packet to KCP while it is inside the loop.                    *)
EXTENDS KcpRecv

CONSTANTS
    MAX_ENCODE_BUF_SIZE,
    DataHead,           \* bytes of the head of a message
    SizeMod             \* 2^64, where a size_t wraps

ASSUME LoopAssumption ==
    /\ MAX_ENCODE_BUF_SIZE \in Nat
    /\ DataHead \in Nat
    /\ SizeMod \in Nat
    /\ \A m \in Msgs : Length[m] < SizeMod - 1
    /\ MAX_ENCODE_BUF_SIZE < SizeMod - 1

VARIABLES
    m_bNeedRecv,
    pc,                 \* where the net thread is in RecvMsgFromKcp
    iPeekLen,
    handed,             \* history: the messages RecvOneMsg passed on to m_oN2MQueue
    refused             \* history: those it did not, by their places in delivered

loop == <<m_bNeedRecv, pc, iPeekLen, handed, refused>>
lvars == <<kvars, loop>>
-------------------------------------------------------------------------------
\* The fragments of a message add up to its length.
PeekSize == IF Whole THEN Length[sent[rcv_queue[1].msg]] ELSE -1

\* The peer sends, whatever the net thread is doing.
PeerSend(m) ==
    /\ Send(m)
    /\ UNCHANGED loop

\* KcpWrapper::Input of a packet with a data segment ...
InputData(p) ==
    /\ pc = "idle"
    /\ Input(p)
    /\ m_bNeedRecv' = TRUE
    /\ UNCHANGED <<pc, iPeekLen, handed, refused>>

\* ... or without one: an acknowledgement, or a window probe.
InputOther ==
    /\ pc = "idle" /\ ~crashed
    /\ m_bNeedRecv' = TRUE
    /\ UNCHANGED <<kvars, pc, iPeekLen, handed, refused>>

\* NetConnect::Proc enters the loop.
Enter ==
    /\ pc = "idle" /\ ~crashed
    /\ m_bNeedRecv
    /\ pc' = "peek"
    /\ UNCHANGED <<kvars, m_bNeedRecv, iPeekLen, handed, refused>>

\* size_t iPeekLen = m_oKcp.PeekSize()
Peek ==
    /\ pc = "peek"
    /\ iPeekLen' = PeekSize % SizeMod
    /\ pc' = "test"
    /\ UNCHANGED <<kvars, m_bNeedRecv, handed, refused>>

\* The message in front, of length iPeekLen, is taken out of KCP.
TakeOut ==
    /\ IF Whole THEN Recv ELSE UNCHANGED kvars
    /\ pc' = "peek"
    /\ UNCHANGED <<m_bNeedRecv, iPeekLen>>

\* RecvOneMsg passes it on to the main thread, or fails and it is lost: it is too
\* short for its head, or cannot be decrypted, or m_oN2MQueue is full.
Pushed ==
    /\ DataHead <= iPeekLen
    /\ handed' = Append(handed, sent[rcv_queue[1].msg])
    /\ UNCHANGED refused

Refused ==
    /\ refused' = refused \union {Len(delivered')}
    /\ UNCHANGED handed

\* Mutants: the test of 0 for "all received" includes 0; the longest message is bad.
AllReceivedZero == 0 >= iPeekLen
BadLengthAtMax == MAX_ENCODE_BUF_SIZE <= iPeekLen \/ 0 >= iPeekLen

AllReceived == 0 > iPeekLen

BadLength == MAX_ENCODE_BUF_SIZE < iPeekLen \/ 0 >= iPeekLen

\* The rest of an iteration.  "All received" would end the loop; a message of a bad
\* length is taken out and dropped (the -1 of an empty queue has such a length
\* too, and nothing is there to take out); any other goes to RecvOneMsg, whose result
\* changes nothing.
Test ==
    /\ pc = "test"
    /\ IF AllReceived
       THEN /\ m_bNeedRecv' = FALSE
            /\ pc' = "idle"
            /\ UNCHANGED <<kvars, iPeekLen, handed, refused>>
       ELSE /\ TakeOut
            /\ IF BadLength THEN UNCHANGED <<handed, refused>> ELSE Pushed \/ Refused

LoopInit ==
    /\ Init
    /\ m_bNeedRecv = FALSE
    /\ pc = "idle"
    /\ iPeekLen = 0
    /\ handed = <<>>
    /\ refused = {}

LoopNext ==
    \/ \E m \in Msgs : PeerSend(m)
    \/ \E p \in 1 .. Len(stream) : InputData(p)
    \/ InputOther
    \/ Enter
    \/ Peek
    \/ Test
    \/ Gone /\ UNCHANGED loop

LoopSpec == LoopInit /\ [][LoopNext]_lvars

\* The net thread keeps calling Proc and does not stop inside the loop.
Fairness == WF_lvars(Enter) /\ WF_lvars(Peek) /\ WF_lvars(Test)

FairLoopSpec == LoopSpec /\ Fairness
-------------------------------------------------------------------------------
\* Those of the first n messages taken out of KCP that have a good length and that
\* RecvOneMsg did not lose.
GoodOnes(n) ==
    {k \in 1 .. n : Length[delivered[k]] \in 1 .. MAX_ENCODE_BUF_SIZE /\ k \notin refused}

\* Of the messages taken out of KCP, the main thread's queue gets each one of a good length,
\* in order, and none else, but for those that RecvOneMsg failed for: each of them is lost
\* for good, as each one too short for its head is.
GoodOnesHanded ==
    /\ Len(handed) = Cardinality(GoodOnes(Len(delivered)))
    /\ \A k \in GoodOnes(Len(delivered)) : /\ handed[Cardinality(GoodOnes(k))] = delivered[k]
                                           /\ DataHead <= Length[delivered[k]]
    /\ \A k \in refused : k <= Len(delivered) /\ Length[delivered[k]] \in 1 .. MAX_ENCODE_BUF_SIZE

\* How many messages have arrived to the last segment.
Arrived == Cardinality({p \in 1 .. taken : stream[p].frg = 0})

\* The messages that have arrived whole are taken out, however many bad ones are in
\* front and however few fit in the receive window at a time.
ArrivedTakenOut == Arrived > Len(delivered) ~> Arrived = Len(delivered)

\* The loop ends when the messages are all received.
LoopEnds == (pc = "peek") ~> (pc = "idle")
===============================================================================
