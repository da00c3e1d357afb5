----------------------------- MODULE RingQueue ------------------------------
(***************************************************************************)
(* base/RingQueue: the byte ring that carries messages between the main    *)
(* thread and the net thread (NetMgr::m_oM2NQueue and m_oN2MQueue).        *)
(*                                                                         *)
(* Every read or write of a shared field is a step of its own, and so is   *)
(* the copy of one byte, so that a producer and a consumer interleave as   *)
(* two threads do.  The four positions are free-running uint32_t counters  *)
(* that wrap at Modulus.  A byte is abstracted to what it is a byte of:    *)
(* the message and the offset inside its record (header, then data).       *)
(***************************************************************************)
EXTENDS Naturals, Sequences

CONSTANTS
    Producers,  \* threads that call Push
    Consumers,  \* threads that call Pop
    Msgs,       \* the messages
    NoMsg,      \* owner of a byte of the malloc'ed buffer nobody wrote yet
    Length,     \* ulDataLen of each message
    HeadLen,    \* sizeof(RingQueueDataHead)
    Size,       \* m_ulDataBufSize
    Modulus,    \* 2^32, where the uint32_t positions wrap
    MaxPush     \* bound: number of Push calls of a behaviour

ASSUME RingAssumption ==
    /\ NoMsg \notin Msgs
    /\ Length \in [Msgs -> Nat]
    /\ HeadLen \in Nat \ {0}
    /\ Size \in Nat \ {0}
    /\ Modulus \in Nat
    /\ Size < Modulus
    /\ Modulus % Size = 0      \* both are powers of two
    /\ MaxPush \in Nat

VARIABLES
    m_pDataBuf, m_ulHead, m_ulTail, m_ulWriteHead, m_ulReadTail,
    m_bOnWrite, m_bOnRead,
    wpc,        \* where each producer is inside Push
    wmsg,       \* the message it pushes
    wdone,      \* bytes its current WriteData has copied
    rpc,        \* where each consumer is inside Pop
    rlen,       \* length of its current ReadData
    rdone,      \* bytes that ReadData has copied
    rgot,       \* all the bytes this Pop has copied
    calls,      \* history: number of Push calls begun
    accepted,   \* history: <<message, start>> of every published record, where
                \* start counts bytes without wrapping
    returned    \* history: the messages Pop handed out

ring == <<m_pDataBuf, m_ulHead, m_ulTail, m_ulWriteHead, m_ulReadTail>>
pushing == <<wpc, wmsg, wdone>>
popping == <<rpc, rlen, rdone, rgot>>
vars == <<ring, m_bOnWrite, m_bOnRead, pushing, popping, calls, accepted, returned>>

-----------------------------------------------------------------------------
RecLen(m) == HeadLen + Length[m]

Byte == [msg : Msgs \cup {NoMsg}, off : Nat]

\* The record of m, byte by byte.
Record(m) == [k \in 1 .. RecLen(m) |-> [msg |-> m, off |-> k - 1]]

\* (position & (m_ulDataBufSize - 1)): Size is a power of two.
Index(position) == position % Size

\* Mutant: the difference is not taken modulo 2^32.
RemainingSpaceWide == Size + m_ulTail - m_ulHead

\* RemainingSpace(): uint32_t arithmetic.
RemainingSpace == (Size + Modulus - m_ulHead + m_ulTail) % Modulus

\* Mutant: the positions are compared by order, and not across their wrap.
EmptyOrdered == m_ulHead <= m_ulTail

Empty == m_ulHead = m_ulTail

\* The value of stHead.ulDataLen once its bytes are copied out: the length of
\* the message they are the header of, or anything if they are no header.
HeaderValues(bytes) ==
    LET owners == {m \in Msgs : \A k \in 1 .. HeadLen : bytes[k] = Record(m)[k]}
    IN  {Length[m] : m \in (IF owners = {} THEN Msgs ELSE owners)}

Init ==
    /\ m_pDataBuf = [i \in 0 .. Size - 1 |-> [msg |-> NoMsg, off |-> 0]]
    /\ m_ulHead = 0 /\ m_ulTail = 0
    /\ m_ulWriteHead = 0 /\ m_ulReadTail = 0
    /\ m_bOnWrite = FALSE /\ m_bOnRead = FALSE
    /\ wpc = [p \in Producers |-> "idle"]
    /\ wmsg = [p \in Producers |-> NoMsg]
    /\ wdone = [p \in Producers |-> 0]
    /\ rpc = [c \in Consumers |-> "idle"]
    /\ rlen = [c \in Consumers |-> 0]
    /\ rdone = [c \in Consumers |-> 0]
    /\ rgot = [c \in Consumers |-> <<>>]
    /\ calls = 0 /\ accepted = <<>> /\ returned = <<>>

-----------------------------------------------------------------------------
(***************************************************************************)
(* Push.                                                                   *)
(***************************************************************************)
\* Producer p goes from one place of Push to another.
PushGoto(p, from, to) == wpc[p] = from /\ wpc' = [wpc EXCEPT ![p] = to]

PushCall(p, m) ==
    /\ PushGoto(p, "idle", "test")
    /\ calls < MaxPush
    /\ calls' = calls + 1
    /\ wmsg' = [wmsg EXCEPT ![p] = m]
    /\ UNCHANGED <<ring, m_bOnWrite, m_bOnRead, wdone, popping, accepted, returned>>

\* if (!m_bOnWrite.load()): the spin goes on until the load returns false.
PushTest(p) ==
    /\ PushGoto(p, "test", "lock")
    /\ ~m_bOnWrite
    /\ UNCHANGED <<ring, m_bOnWrite, m_bOnRead, wmsg, wdone, popping, calls, accepted, returned>>

\* m_bOnWrite.store(true): a store of its own, after the load.
PushLock(p) ==
    /\ PushGoto(p, "lock", "check")
    /\ m_bOnWrite' = TRUE
    /\ UNCHANGED <<ring, m_bOnRead, wmsg, wdone, popping, calls, accepted, returned>>

PushReject(p) ==
    /\ PushGoto(p, "check", "idle")
    /\ RecLen(wmsg[p]) > RemainingSpace
    /\ m_bOnWrite' = FALSE
    /\ UNCHANGED <<ring, m_bOnRead, wmsg, wdone, popping, calls, accepted, returned>>

\* Mutant: the room for the header is not counted.
PushFitsNoHead(p) ==
    /\ PushGoto(p, "check", "head")
    /\ Length[wmsg[p]] <= RemainingSpace
    /\ UNCHANGED <<ring, m_bOnWrite, m_bOnRead, wmsg, wdone, popping, calls, accepted, returned>>

PushFits(p) ==
    /\ PushGoto(p, "check", "head")
    /\ RecLen(wmsg[p]) <= RemainingSpace
    /\ UNCHANGED <<ring, m_bOnWrite, m_bOnRead, wmsg, wdone, popping, calls, accepted, returned>>

\* The WriteData call producer p is in: its length and its first record offset.
PushPartLen(p) == IF wpc[p] = "head" THEN HeadLen ELSE Length[wmsg[p]]
PushPartOff(p) == IF wpc[p] = "head" THEN 0 ELSE HeadLen

\* One byte of WriteData's memcpy calls.
PushByte(p) ==
    /\ wpc[p] \in {"head", "data"}
    /\ wdone[p] < PushPartLen(p)
    /\ m_pDataBuf' = [m_pDataBuf EXCEPT ![Index(m_ulWriteHead + wdone[p])] =
                        [msg |-> wmsg[p], off |-> PushPartOff(p) + wdone[p]]]
    /\ wdone' = [wdone EXCEPT ![p] = @ + 1]
    /\ UNCHANGED <<m_ulHead, m_ulTail, m_ulWriteHead, m_ulReadTail, m_bOnWrite, m_bOnRead,
                   wpc, wmsg, popping, calls, accepted, returned>>

\* Mutant: WriteData advances m_ulHead too, before the record is complete.
PushAdvanceHead(p) ==
    /\ PushGoto(p, "head", "data") \/ PushGoto(p, "data", "publish")
    /\ wdone[p] = PushPartLen(p)
    /\ m_ulWriteHead' = (m_ulWriteHead + PushPartLen(p)) % Modulus
    /\ m_ulHead' = m_ulWriteHead'
    /\ wdone' = [wdone EXCEPT ![p] = 0]
    /\ UNCHANGED <<m_pDataBuf, m_ulTail, m_ulReadTail, m_bOnWrite, m_bOnRead, wmsg,
                   popping, calls, accepted, returned>>

\* m_ulWriteHead += ulDataLen, the end of WriteData.
PushAdvance(p) ==
    /\ PushGoto(p, "head", "data") \/ PushGoto(p, "data", "publish")
    /\ wdone[p] = PushPartLen(p)
    /\ m_ulWriteHead' = (m_ulWriteHead + PushPartLen(p)) % Modulus
    /\ wdone' = [wdone EXCEPT ![p] = 0]
    /\ UNCHANGED <<m_pDataBuf, m_ulHead, m_ulTail, m_ulReadTail, m_bOnWrite, m_bOnRead,
                   wmsg, popping, calls, accepted, returned>>

\* Where the next record starts, counting without wrapping.
AbsHead ==
    IF accepted = <<>> THEN 0
    ELSE LET last == accepted[Len(accepted)] IN last.start + RecLen(last.msg)

\* m_ulHead = m_ulWriteHead: the record becomes visible to the consumer.
PushPublish(p) ==
    /\ PushGoto(p, "publish", "unlock")
    /\ m_ulHead' = m_ulWriteHead
    /\ accepted' = Append(accepted, [msg |-> wmsg[p], start |-> AbsHead])
    /\ UNCHANGED <<m_pDataBuf, m_ulTail, m_ulWriteHead, m_ulReadTail, m_bOnWrite, m_bOnRead,
                   wmsg, wdone, popping, calls, returned>>

PushUnlock(p) ==
    /\ PushGoto(p, "unlock", "idle")
    /\ m_bOnWrite' = FALSE
    /\ UNCHANGED <<ring, m_bOnRead, wmsg, wdone, popping, calls, accepted, returned>>

PushStep(p) ==
    \/ PushTest(p) \/ PushLock(p) \/ PushReject(p) \/ PushFits(p)
    \/ PushByte(p) \/ PushAdvance(p) \/ PushPublish(p) \/ PushUnlock(p)

-----------------------------------------------------------------------------
(***************************************************************************)
(* Pop.                                                                    *)
(***************************************************************************)
PopGoto(c, from, to) == rpc[c] = from /\ rpc' = [rpc EXCEPT ![c] = to]

PopCall(c) ==
    /\ PopGoto(c, "idle", "test")
    /\ UNCHANGED <<ring, m_bOnWrite, m_bOnRead, pushing, rlen, rdone, rgot, calls, accepted, returned>>

PopTest(c) ==
    /\ PopGoto(c, "test", "lock")
    /\ ~m_bOnRead
    /\ UNCHANGED <<ring, m_bOnWrite, m_bOnRead, pushing, rlen, rdone, rgot, calls, accepted, returned>>

PopLock(c) ==
    /\ PopGoto(c, "lock", "check")
    /\ m_bOnRead' = TRUE
    /\ UNCHANGED <<ring, m_bOnWrite, pushing, rlen, rdone, rgot, calls, accepted, returned>>

\* Empty(): Pop returns 0.
PopNothing(c) ==
    /\ PopGoto(c, "check", "idle")
    /\ Empty
    /\ m_bOnRead' = FALSE
    /\ UNCHANGED <<ring, m_bOnWrite, pushing, rlen, rdone, rgot, calls, accepted, returned>>

PopSome(c) ==
    /\ PopGoto(c, "check", "head")
    /\ ~Empty
    /\ rlen' = [rlen EXCEPT ![c] = HeadLen]
    /\ UNCHANGED <<ring, m_bOnWrite, m_bOnRead, pushing, rdone, rgot, calls, accepted, returned>>

\* One byte of ReadData's memcpy calls.
PopByte(c) ==
    /\ rpc[c] \in {"head", "data"}
    /\ rdone[c] < rlen[c]
    /\ rdone' = [rdone EXCEPT ![c] = @ + 1]
    /\ rgot' = [rgot EXCEPT ![c] = Append(@, m_pDataBuf[Index(m_ulReadTail + rdone[c])])]
    /\ UNCHANGED <<ring, m_bOnWrite, m_bOnRead, pushing, rpc, rlen, calls, accepted, returned>>

\* m_ulReadTail += dwDataLen, the end of ReadData of the header.
PopHeader(c) ==
    /\ PopGoto(c, "head", "data")
    /\ rdone[c] = rlen[c]
    /\ m_ulReadTail' = (m_ulReadTail + rlen[c]) % Modulus
    /\ \E len \in HeaderValues(rgot[c]) : rlen' = [rlen EXCEPT ![c] = len]
    /\ rdone' = [rdone EXCEPT ![c] = 0]
    /\ UNCHANGED <<m_pDataBuf, m_ulHead, m_ulTail, m_ulWriteHead, m_bOnWrite, m_bOnRead,
                   pushing, rgot, calls, accepted, returned>>

\* Mutant: m_ulReadTail is wider than 32 bits.
PopDataWide(c) ==
    /\ PopGoto(c, "data", "publish")
    /\ rdone[c] = rlen[c]
    /\ m_ulReadTail' = m_ulReadTail + rlen[c]
    /\ rdone' = [rdone EXCEPT ![c] = 0]
    /\ UNCHANGED <<m_pDataBuf, m_ulHead, m_ulTail, m_ulWriteHead, m_bOnWrite, m_bOnRead,
                   pushing, rlen, rgot, calls, accepted, returned>>

\* The end of ReadData of the data.
PopData(c) ==
    /\ PopGoto(c, "data", "publish")
    /\ rdone[c] = rlen[c]
    /\ m_ulReadTail' = (m_ulReadTail + rlen[c]) % Modulus
    /\ rdone' = [rdone EXCEPT ![c] = 0]
    /\ UNCHANGED <<m_pDataBuf, m_ulHead, m_ulTail, m_ulWriteHead, m_bOnWrite, m_bOnRead,
                   pushing, rlen, rgot, calls, accepted, returned>>

\* What the bytes copied out are: a message, or garbage.
Decoded(bytes) ==
    IF \E m \in Msgs : bytes = Record(m)
    THEN CHOOSE m \in Msgs : bytes = Record(m)
    ELSE NoMsg

\* Mutant: m_ulTail is left behind.
PopPublishNoTail(c) ==
    /\ PopGoto(c, "publish", "unlock")
    /\ returned' = Append(returned, Decoded(rgot[c]))
    /\ rgot' = [rgot EXCEPT ![c] = <<>>]
    /\ UNCHANGED <<ring, m_bOnWrite, m_bOnRead, pushing, rlen, rdone, calls, accepted>>

\* m_ulTail = m_ulReadTail: the space is the producer's again.
PopPublish(c) ==
    /\ PopGoto(c, "publish", "unlock")
    /\ m_ulTail' = m_ulReadTail
    /\ returned' = Append(returned, Decoded(rgot[c]))
    /\ rgot' = [rgot EXCEPT ![c] = <<>>]
    /\ UNCHANGED <<m_pDataBuf, m_ulHead, m_ulWriteHead, m_ulReadTail, m_bOnWrite, m_bOnRead,
                   pushing, rlen, rdone, calls, accepted>>

PopUnlock(c) ==
    /\ PopGoto(c, "unlock", "idle")
    /\ m_bOnRead' = FALSE
    /\ UNCHANGED <<ring, m_bOnWrite, pushing, rlen, rdone, rgot, calls, accepted, returned>>

PopStep(c) ==
    \/ PopCall(c) \/ PopTest(c) \/ PopLock(c) \/ PopNothing(c) \/ PopSome(c)
    \/ PopByte(c) \/ PopHeader(c) \/ PopData(c) \/ PopPublish(c) \/ PopUnlock(c)

-----------------------------------------------------------------------------
Next ==
    \/ \E p \in Producers : PushStep(p) \/ \E m \in Msgs : PushCall(p, m)
    \/ \E c \in Consumers : PopStep(c)

Spec == Init /\ [][Next]_vars

\* A thread inside Push keeps running, and the consuming thread calls Pop in a
\* loop (BaseThread::Run); nobody is obliged to call Push.
Fairness ==
    /\ \A p \in Producers : WF_vars(PushStep(p))
    /\ \A c \in Consumers : WF_vars(PopStep(c))

FairSpec == Spec /\ Fairness

-----------------------------------------------------------------------------
(***************************************************************************)
(* Properties.                                                             *)
(***************************************************************************)
PC == {"idle", "test", "lock", "check", "head", "data", "publish", "unlock"}
Published == [msg : Msgs, start : Nat]

\* Every variable has its type; positions stay inside uint32_t.
TypeOK ==
    /\ m_pDataBuf \in [0 .. Size - 1 -> Byte]
    /\ m_ulHead \in 0 .. Modulus - 1 /\ m_ulTail \in 0 .. Modulus - 1
    /\ m_ulWriteHead \in 0 .. Modulus - 1 /\ m_ulReadTail \in 0 .. Modulus - 1
    /\ m_bOnWrite \in BOOLEAN /\ m_bOnRead \in BOOLEAN
    /\ wpc \in [Producers -> PC]
    /\ wmsg \in [Producers -> Msgs \cup {NoMsg}]
    /\ wdone \in [Producers -> Nat]
    /\ \A p \in Producers : wpc[p] # "idle" => wmsg[p] \in Msgs
    /\ rpc \in [Consumers -> PC]
    /\ rlen \in [Consumers -> Nat]
    /\ rdone \in [Consumers -> Nat]
    /\ rgot \in [Consumers -> Seq(Byte)]
    /\ calls \in Nat
    /\ accepted \in Seq(Published)
    /\ returned \in Seq(Msgs \cup {NoMsg})

\* Where the oldest record not yet handed back starts, without wrapping.
AbsTail ==
    IF Len(returned) < Len(accepted) THEN accepted[Len(returned) + 1].start ELSE AbsHead

\* The records the ring holds: published and not yet handed back.
Pending == Len(returned) + 1 .. Len(accepted)

\* RingQueue::RemainingSpace is exact across the wrap of the uint32_t positions,
\* and a completely full ring is told from an empty one.
SpaceExact ==
    /\ AbsTail <= AbsHead /\ AbsHead - AbsTail <= Size
    /\ RemainingSpace = Size - (AbsHead - AbsTail)
    /\ Empty <=> AbsHead = AbsTail

\* No Push overwrites a byte of a record the consumer has not handed back yet.
PendingIntact ==
    \A i \in Pending : \A k \in 1 .. RecLen(accepted[i].msg) :
        m_pDataBuf[Index(accepted[i].start + k - 1)] = Record(accepted[i].msg)[k]

\* A Pop that is under way has copied a prefix of the oldest published record
\* and nothing else: it never sees half a record or a stale header.
ReadsOldestRecord ==
    \A c \in Consumers :
        rpc[c] \in {"head", "data", "publish"} =>
            /\ Len(returned) < Len(accepted)
            /\ LET record == Record(accepted[Len(returned) + 1].msg)
               IN  /\ Len(rgot[c]) <= Len(record)
                   /\ \A k \in 1 .. Len(rgot[c]) : rgot[c][k] = record[k]
                   /\ rpc[c] = "publish" => Len(rgot[c]) = Len(record)

\* Every accepted message is eventually handed out, and every Push comes back, also
\* after one that was refused: no early return leaves a flag set.
EventuallyDelivered ==
    /\ \A n \in 1 .. MaxPush : Len(accepted) >= n ~> Len(returned) >= n
    /\ \A p \in Producers : wpc[p] # "idle" ~> wpc[p] = "idle"

\* The messages in the ring, oldest first.
Queue == [i \in 1 .. Len(accepted) - Len(returned) |-> accepted[Len(returned) + i].msg]

Abs == INSTANCE MsgQueue WITH queue <- Queue, handed <- returned

\* The ring implements a FIFO of whole messages.
ImplementsQueue == Abs!Spec
=============================================================================
