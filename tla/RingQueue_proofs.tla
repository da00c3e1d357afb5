-------------------------- MODULE RingQueue_proofs --------------------------
(***************************************************************************)
(* With one producer and one consumer (RingQueue.h: single consumer, single *)
(* producer) the ring hands out exactly what was accepted, for every ring   *)
(* size, header length, message length and wrap-around of the positions.    *)
(***************************************************************************)
EXTENDS RingQueue, WrapArith, SequenceTheorems, TLAPS

\* One thread pushes and one thread pops.
SPSC ==
    /\ \E p : Producers = {p}
    /\ \E c : Consumers = {c}

\* How far m_ulWriteHead is ahead of the published head.
PushOff(p) ==
    IF wpc[p] = "data" THEN HeadLen
    ELSE IF wpc[p] = "publish" THEN RecLen(wmsg[p]) ELSE 0

\* The record the consumer takes next.
Oldest == accepted[Len(returned) + 1].msg

\* How far m_ulReadTail is ahead of the published tail.
PopOff(c) ==
    IF rpc[c] = "data" THEN HeadLen
    ELSE IF rpc[c] = "publish" THEN RecLen(Oldest) ELSE 0

Copying == {"head", "data", "publish"}

\* The published records lie one after the other.
Chained ==
    /\ \A i \in 1 .. Len(accepted) - 1 :
          accepted[i + 1].start = accepted[i].start + RecLen(accepted[i].msg)
    /\ \A i, j \in 1 .. Len(accepted) :
          i < j => accepted[i].start + RecLen(accepted[i].msg) <= accepted[j].start

\* The wrapped positions stand for the unwrapped ones.
Positions ==
    /\ Len(returned) <= Len(accepted)
    /\ AbsTail <= AbsHead /\ AbsHead - AbsTail <= Size
    /\ m_ulHead = AbsHead % Modulus
    /\ m_ulTail = AbsTail % Modulus
    /\ \A p \in Producers : m_ulWriteHead = (AbsHead + PushOff(p)) % Modulus
    /\ \A c \in Consumers : m_ulReadTail = (AbsTail + PopOff(c)) % Modulus

\* The producer has reserved room, and what it wrote so far is in place.
Writing ==
    \A p \in Producers :
        /\ wpc[p] \notin {"head", "data"} => wdone[p] = 0
        /\ wpc[p] \in {"head", "data"} => wdone[p] <= PushPartLen(p)
        /\ wpc[p] \in Copying =>
              /\ AbsHead - AbsTail + RecLen(wmsg[p]) <= Size
              /\ \A k \in 1 .. PushOff(p) + wdone[p] :
                    m_pDataBuf[Index(AbsHead + k - 1)] = Record(wmsg[p])[k]

\* The consumer holds a prefix of the oldest record.
Reading ==
    \A c \in Consumers :
        /\ rpc[c] \notin Copying => rgot[c] = <<>>
        /\ rpc[c] \notin {"head", "data"} => rdone[c] = 0
        /\ rpc[c] \in Copying =>
              /\ Len(returned) < Len(accepted)
              /\ rlen[c] = IF rpc[c] = "head" THEN HeadLen ELSE Length[Oldest]
              /\ rdone[c] <= rlen[c]
              /\ Len(rgot[c]) =
                    IF rpc[c] = "publish" THEN RecLen(Oldest) ELSE PopOff(c) + rdone[c]
              /\ \A k \in 1 .. Len(rgot[c]) : rgot[c][k] = Record(Oldest)[k]

\* Pop hands out exactly the messages Push accepted, in that order.
Fifo ==
    /\ Len(returned) <= Len(accepted)
    /\ \A i \in 1 .. Len(returned) : returned[i] = accepted[i].msg

\* The inductive invariant.
Safe == Chained /\ Positions /\ PendingIntact /\ Writing /\ Reading /\ Fifo
IInv == TypeOK /\ Safe

-----------------------------------------------------------------------------
\* Type correctness.

\* A record is a sequence of RecLen(m) bytes, the k-th of which says so.
LEMMA RecordFacts ==
    ASSUME NEW m \in Msgs
    PROVE  /\ Length[m] \in Nat
           /\ RecLen(m) \in Nat \ {0} /\ RecLen(m) = HeadLen + Length[m]
           /\ Record(m) \in Seq(Byte) /\ Len(Record(m)) = RecLen(m)
           /\ \A k \in 1 .. RecLen(m) : Record(m)[k] = [msg |-> m, off |-> k - 1]
<1>1. Length[m] \in Nat /\ RecLen(m) \in Nat \ {0}
  BY RingAssumption DEF RecLen
<1>2. \A k \in 1 .. RecLen(m) : [msg |-> m, off |-> k - 1] \in Byte
  BY <1>1 DEF Byte
<1>. QED
  BY <1>1, <1>2 DEF RecLen, Record

\* A wrapped position is a uint32_t and indexes the buffer.
LEMMA IndexType ==
    ASSUME NEW x \in Nat
    PROVE  Index(x) \in 0 .. Size - 1 /\ x % Modulus \in 0 .. Modulus - 1
BY RingAssumption DEF Index

\* The values a header can have are lengths.
LEMMA HeaderValuesType ==
    ASSUME NEW bytes, NEW len \in HeaderValues(bytes)
    PROVE  len \in Nat
BY RingAssumption DEF HeaderValues

LEMMA DecodedType ==
    ASSUME NEW bytes
    PROVE  Decoded(bytes) \in Msgs \cup {NoMsg}
BY DEF Decoded

\* The initial state has the types.
LEMMA InitType == Init => TypeOK
<1>. SUFFICES ASSUME Init PROVE TypeOK
  OBVIOUS
<1>1. m_pDataBuf \in [0 .. Size - 1 -> Byte]
  BY DEF Init, Byte
<1>2. /\ wpc \in [Producers -> PC] /\ wmsg \in [Producers -> Msgs \cup {NoMsg}]
      /\ wdone \in [Producers -> Nat]
      /\ \A p \in Producers : wpc[p] = "idle"
  BY DEF Init, PC
<1>3. rpc \in [Consumers -> PC] /\ rlen \in [Consumers -> Nat] /\ rdone \in [Consumers -> Nat]
  BY DEF Init, PC
<1>4. rgot \in [Consumers -> Seq(Byte)]
  BY DEF Init
<1>5. accepted \in Seq(Published) /\ returned \in Seq(Msgs \cup {NoMsg})
  BY DEF Init
<1>6. 0 \in 0 .. Modulus - 1
  BY RingAssumption
<1>. QED
  BY <1>1, <1>2, <1>3, <1>4, <1>5, <1>6 DEF Init, TypeOK

\* What was published is a message and a start.
LEMMA AcceptedType ==
    ASSUME TypeOK
    PROVE  /\ Len(accepted) \in Nat /\ Len(returned) \in Nat
           /\ \A i \in 1 .. Len(accepted) :
                 accepted[i].msg \in Msgs /\ accepted[i].start \in Nat
           /\ accepted # <<>> <=> Len(accepted) > 0
<1>1. accepted \in Seq(Published) /\ Len(accepted) \in Nat /\ Len(returned) \in Nat
  BY DEF TypeOK
<1>2. \A i \in 1 .. Len(accepted) : accepted[i] \in Published
  BY <1>1, ElementOfSeq, Zenon
<1>3. accepted # <<>> <=> Len(accepted) > 0
  BY <1>1
<1>. QED
  BY <1>1, <1>2, <1>3 DEF Published

\* The unwrapped ends of the ring are natural numbers.
LEMMA AbsType ==
    ASSUME TypeOK
    PROVE  AbsHead \in Nat /\ AbsTail \in Nat
<1>1. \A i \in 1 .. Len(accepted) :
         accepted[i].start \in Nat /\ accepted[i].start + RecLen(accepted[i].msg) \in Nat
  BY AcceptedType, RecordFacts
<1>2. accepted # <<>> => Len(accepted) \in 1 .. Len(accepted)
  BY AcceptedType
<1>3. AbsHead \in Nat
  BY <1>1, <1>2, Zenon DEF AbsHead
<1>4. Len(returned) < Len(accepted) => Len(returned) + 1 \in 1 .. Len(accepted)
  BY AcceptedType
<1>. QED
  BY <1>1, <1>3, <1>4, Zenon DEF AbsTail

\* Every step keeps the types.
LEMMA NextType ==
    ASSUME TypeOK, [Next]_vars
    PROVE  TypeOK'
<1>. USE DEF TypeOK, ring, pushing, popping
<1>1. ASSUME NEW p \in Producers, NEW m \in Msgs, PushCall(p, m) PROVE TypeOK'
  BY <1>1 DEF PushCall, PushGoto, PC
<1>2. ASSUME NEW p \in Producers, PushTest(p) PROVE TypeOK'
  BY <1>2 DEF PushTest, PushGoto, PC
<1>3. ASSUME NEW p \in Producers, PushLock(p) PROVE TypeOK'
  BY <1>3 DEF PushLock, PushGoto, PC
<1>4. ASSUME NEW p \in Producers, PushReject(p) PROVE TypeOK'
  BY <1>4 DEF PushReject, PushGoto, PC
<1>5. ASSUME NEW p \in Producers, PushFits(p) PROVE TypeOK'
  BY <1>5 DEF PushFits, PushGoto, PC
<1>6. ASSUME NEW p \in Producers, PushByte(p) PROVE TypeOK'
  <2> DEFINE i == Index(m_ulWriteHead + wdone[p])
             v == [msg |-> wmsg[p], off |-> PushPartOff(p) + wdone[p]]
  <2>1. v \in Byte
    <3>1. wmsg[p] \in Msgs
      BY <1>6 DEF PushByte
    <3>2. PushPartOff(p) + wdone[p] \in Nat
      BY RingAssumption DEF PushPartOff
    <3>. QED
      BY <3>1, <3>2 DEF Byte
  <2>2. m_pDataBuf' = [m_pDataBuf EXCEPT ![i] = v]
    BY <1>6 DEF PushByte
  <2> HIDE DEF i, v
  <2>3. m_pDataBuf' \in [0 .. Size - 1 -> Byte]
    BY <2>1, <2>2
  <2>4. wdone' \in [Producers -> Nat]
    BY <1>6 DEF PushByte
  <2>. QED
    BY <1>6, <2>3, <2>4 DEF PushByte
<1>7. ASSUME NEW p \in Producers, PushAdvance(p) PROVE TypeOK'
  <2>1. m_ulWriteHead + PushPartLen(p) \in Nat
    <3>1. wmsg[p] \in Msgs
      BY <1>7 DEF PushAdvance, PushGoto
    <3>2. PushPartLen(p) \in Nat
      BY <3>1, RecordFacts, RingAssumption DEF PushPartLen
    <3>. QED
      BY <3>2, RingAssumption
  <2>2. m_ulWriteHead' \in 0 .. Modulus - 1
    BY <1>7, <2>1, IndexType, Zenon DEF PushAdvance
  <2>3. wdone' \in [Producers -> Nat] /\ wpc' \in [Producers -> PC]
    BY <1>7 DEF PushAdvance, PushGoto, PC
  <2>4. \A q \in Producers : wpc'[q] # "idle" => wpc[q] # "idle"
    BY <1>7 DEF PushAdvance, PushGoto
  <2>. QED
    BY <1>7, <2>2, <2>3, <2>4 DEF PushAdvance
<1>8. ASSUME NEW p \in Producers, PushPublish(p) PROVE TypeOK'
  <2>1. [msg |-> wmsg[p], start |-> AbsHead] \in Published
    BY <1>8, AbsType DEF PushPublish, PushGoto, Published
  <2>2. accepted' \in Seq(Published)
    BY <1>8, <2>1 DEF PushPublish
  <2>3. wpc' \in [Producers -> PC] /\ \A q \in Producers : wpc'[q] # "idle" => wpc[q] # "idle"
    BY <1>8 DEF PushPublish, PushGoto, PC
  <2>. QED
    BY <1>8, <2>2, <2>3 DEF PushPublish
<1>9. ASSUME NEW p \in Producers, PushUnlock(p) PROVE TypeOK'
  BY <1>9 DEF PushUnlock, PushGoto, PC
<1>10. ASSUME NEW c \in Consumers, PopCall(c) PROVE TypeOK'
  BY <1>10 DEF PopCall, PopGoto, PC
<1>11. ASSUME NEW c \in Consumers, PopTest(c) PROVE TypeOK'
  BY <1>11 DEF PopTest, PopGoto, PC
<1>12. ASSUME NEW c \in Consumers, PopLock(c) PROVE TypeOK'
  BY <1>12 DEF PopLock, PopGoto, PC
<1>13. ASSUME NEW c \in Consumers, PopNothing(c) PROVE TypeOK'
  BY <1>13 DEF PopNothing, PopGoto, PC
<1>14. ASSUME NEW c \in Consumers, PopSome(c) PROVE TypeOK'
  BY <1>14, RingAssumption DEF PopSome, PopGoto, PC
<1>15. ASSUME NEW c \in Consumers, PopByte(c) PROVE TypeOK'
  <2> DEFINE v == m_pDataBuf[Index(m_ulReadTail + rdone[c])]
  <2>1. m_ulReadTail + rdone[c] \in Nat
    BY RingAssumption
  <2>2. v \in Byte
    BY <2>1, IndexType
  <2>3. rgot' = [rgot EXCEPT ![c] = Append(@, v)]
    BY <1>15 DEF PopByte
  <2> HIDE DEF v
  <2>4. rgot' \in [Consumers -> Seq(Byte)]
    BY <2>2, <2>3
  <2>5. rdone' \in [Consumers -> Nat]
    BY <1>15 DEF PopByte
  <2>. QED
    BY <1>15, <2>4, <2>5 DEF PopByte
<1>16. ASSUME NEW c \in Consumers, PopHeader(c) PROVE TypeOK'
  <2>1. m_ulReadTail + rlen[c] \in Nat
    BY RingAssumption
  <2>2. m_ulReadTail' \in 0 .. Modulus - 1
    BY <1>16, <2>1, IndexType, Zenon DEF PopHeader
  <2>3. PICK len \in HeaderValues(rgot[c]) : rlen' = [rlen EXCEPT ![c] = len]
    BY <1>16 DEF PopHeader
  <2>4. rlen' \in [Consumers -> Nat]
    BY <2>3, HeaderValuesType
  <2>5. rdone' \in [Consumers -> Nat] /\ rpc' \in [Consumers -> PC]
    BY <1>16 DEF PopHeader, PopGoto, PC
  <2>. QED
    BY <1>16, <2>2, <2>4, <2>5 DEF PopHeader
<1>17. ASSUME NEW c \in Consumers, PopData(c) PROVE TypeOK'
  <2>1. m_ulReadTail + rlen[c] \in Nat
    BY RingAssumption
  <2>2. m_ulReadTail' \in 0 .. Modulus - 1
    BY <1>17, <2>1, IndexType, Zenon DEF PopData
  <2>3. rdone' \in [Consumers -> Nat] /\ rpc' \in [Consumers -> PC]
    BY <1>17 DEF PopData, PopGoto, PC
  <2>. QED
    BY <1>17, <2>2, <2>3 DEF PopData
<1>18. ASSUME NEW c \in Consumers, PopPublish(c) PROVE TypeOK'
  <2>1. returned' \in Seq(Msgs \cup {NoMsg})
    BY <1>18, DecodedType DEF PopPublish
  <2>2. rgot' \in [Consumers -> Seq(Byte)]
    BY <1>18 DEF PopPublish
  <2>3. rpc' \in [Consumers -> PC]
    BY <1>18 DEF PopPublish, PopGoto, PC
  <2>. QED
    BY <1>18, <2>1, <2>2, <2>3 DEF PopPublish
<1>19. ASSUME NEW c \in Consumers, PopUnlock(c) PROVE TypeOK'
  BY <1>19 DEF PopUnlock, PopGoto, PC
<1>20. ASSUME UNCHANGED vars PROVE TypeOK'
  BY <1>20 DEF vars
<1>. HIDE DEF TypeOK, ring, pushing, popping
<1>. QED
  BY <1>1, <1>2, <1>3, <1>4, <1>5, <1>6, <1>7, <1>8, <1>9, <1>10, <1>11, <1>12, <1>13,
     <1>14, <1>15, <1>16, <1>17, <1>18, <1>19, <1>20
     DEF Next, PushStep, PopStep

\* Whatever the threads do, every variable keeps its type: the uint32_t
\* positions of Push and Pop wrap inside 0 .. Modulus - 1.
THEOREM TypeCorrect == Spec => []TypeOK
BY InitType, NextType, PTL DEF Spec

-----------------------------------------------------------------------------
\* What the parts of the invariant depend on.

LEMMA KeepRecords ==
    ASSUME UNCHANGED <<accepted, returned>>
    PROVE  /\ AbsHead' = AbsHead /\ AbsTail' = AbsTail
           /\ Oldest' = Oldest
           /\ Chained => Chained'
           /\ Fifo => Fifo'
           /\ UNCHANGED m_pDataBuf /\ PendingIntact => PendingIntact'
<1>1. AbsHead' = AbsHead /\ AbsTail' = AbsTail /\ Oldest' = Oldest
  BY DEF AbsHead, AbsTail, Oldest
<1>2. Chained => Chained'
  BY DEF Chained
<1>3. Fifo => Fifo'
  BY DEF Fifo
<1>4. UNCHANGED m_pDataBuf /\ PendingIntact => PendingIntact'
  BY DEF PendingIntact, Pending
<1>. QED
  BY <1>1, <1>2, <1>3, <1>4

LEMMA KeepReading ==
    ASSUME UNCHANGED <<accepted, returned, popping>>, Reading
    PROVE  Reading' /\ \A c \in Consumers : PopOff(c)' = PopOff(c)
BY DEF Reading, PopOff, Oldest, popping

LEMMA KeepWriting ==
    ASSUME UNCHANGED <<accepted, returned, pushing, m_pDataBuf>>, Writing
    PROVE  Writing' /\ \A p \in Producers : PushOff(p)' = PushOff(p)
BY DEF Writing, PushOff, PushPartLen, AbsHead, AbsTail, pushing

LEMMA KeepPositions ==
    ASSUME UNCHANGED <<accepted, returned, m_ulHead, m_ulTail, m_ulWriteHead, m_ulReadTail>>,
           \A p \in Producers : PushOff(p)' = PushOff(p),
           \A c \in Consumers : PopOff(c)' = PopOff(c),
           Positions
    PROVE  Positions'
BY KeepRecords DEF Positions

\* The records pending lie between the two ends, the oldest one at the tail.
LEMMA PendingEnds ==
    ASSUME TypeOK, Chained, Positions
    PROVE  /\ \A i \in Pending :
                 AbsTail <= accepted[i].start /\ accepted[i].start + RecLen(accepted[i].msg) <= AbsHead
           /\ Len(returned) < Len(accepted) =>
                 accepted[Len(returned) + 1].start = AbsTail /\ Oldest \in Msgs
<1>. DEFINE n == Len(accepted)
            t == Len(returned) + 1
            end(i) == accepted[i].start + RecLen(accepted[i].msg)
<1>1. /\ n \in Nat /\ t \in Nat
      /\ \A i \in 1 .. n : accepted[i].msg \in Msgs /\ accepted[i].start \in Nat
  BY AcceptedType
<1>2. \A i \in 1 .. n : end(i) \in Nat
  BY <1>1, RecordFacts
<1>3. n > 0 => AbsHead = end(n)
  BY <1>1, AcceptedType DEF AbsHead
<1>4. t <= n => AbsTail = accepted[t].start
  BY <1>1 DEF AbsTail
<1>5. \A i, j \in 1 .. n : i < j => end(i) <= accepted[j].start
  BY DEF Chained
<1>6. \A i \in 1 .. n : accepted[i].start <= end(i)
  BY <1>1, RecordFacts
<1>. HIDE DEF n, t, end
<1>7. ASSUME NEW i \in 1 .. n, t <= i
      PROVE  AbsTail <= accepted[i].start /\ end(i) <= AbsHead
  <2>1. AbsTail <= accepted[i].start
    <3>1. t \in 1 .. n
      BY <1>1, <1>7 DEF t
    <3>2. CASE t = i
      BY <1>1, <1>4, <1>7, <3>1, <3>2
    <3>3. CASE t < i
      BY <1>1, <1>2, <1>4, <1>5, <1>6, <1>7, <3>1, <3>3
    <3>. QED
      BY <1>1, <1>7, <3>2, <3>3
  <2>2. end(i) <= AbsHead
    <3>1. CASE i = n
      BY <1>1, <1>2, <1>3, <1>7, <3>1
    <3>2. CASE i < n
      BY <1>1, <1>2, <1>3, <1>5, <1>6, <1>7, <3>2
    <3>. QED
      BY <1>1, <1>7, <3>1, <3>2
  <2>. QED
    BY <2>1, <2>2
<1>8. \A i \in Pending : i \in 1 .. n /\ t <= i
  BY <1>1 DEF Pending, n, t
<1>9. t <= n => accepted[t].start = AbsTail /\ accepted[t].msg \in Msgs
  BY <1>1, <1>4 DEF t
<1>. QED
  BY <1>1, <1>7, <1>8, <1>9 DEF end, n, t, Oldest

\* The index of a wrapped position, advanced by n.
LEMMA IndexAdvance ==
    ASSUME NEW x \in Nat, NEW n \in Nat
    PROVE  Index((x % Modulus) + n) = Index(x + n)
<1>1. Modulus \in Nat \ {0} /\ Size \in Nat \ {0} /\ Modulus % Size = 0
  BY RingAssumption
<1>2. x % Modulus \in Nat
  BY IndexType
<1>3. (x % Modulus) % Size = x % Size
  BY <1>1, ModMod, Zenon
<1>4. (((x % Modulus) % Size) + n) % Size = ((x % Modulus) + n) % Size
  BY <1>1, <1>2, ModAdd, Zenon
<1>5. ((x % Size) + n) % Size = (x + n) % Size
  BY <1>1, ModAdd, Zenon
<1>. QED
  BY <1>3, <1>4, <1>5 DEF Index

\* Advancing a wrapped position.
LEMMA PositionAdvance ==
    ASSUME NEW x \in Nat, NEW n \in Nat
    PROVE  ((x % Modulus) + n) % Modulus = (x + n) % Modulus
<1>1. Modulus \in Nat \ {0}
  BY RingAssumption
<1>. QED
  BY <1>1, ModAdd, Zenon

\* Bytes less than Size apart have different places.
LEMMA IndexDistinct ==
    ASSUME NEW x \in Nat, NEW y \in Nat, y < x, x - y < Size
    PROVE  Index(x) # Index(y)
<1>1. Size \in Nat \ {0} /\ x # y /\ y - x < Size
  BY RingAssumption
<1>. QED
  BY <1>1, ModDistinct, Zenon DEF Index

\* RemainingSpace in unwrapped positions.
LEMMA SpaceFacts ==
    ASSUME TypeOK, Positions
    PROVE  /\ RemainingSpace = Size - (AbsHead - AbsTail)
           /\ Empty <=> AbsHead = AbsTail
<1>1. /\ AbsHead \in Nat /\ AbsTail \in Nat /\ AbsTail <= AbsHead /\ AbsHead - AbsTail <= Size
      /\ Size \in Nat \ {0} /\ Modulus \in Nat \ {0} /\ Size < Modulus
  BY AbsType, RingAssumption DEF Positions
<1>2. (Size + Modulus - (AbsHead % Modulus) + (AbsTail % Modulus)) % Modulus
        = Size - (AbsHead - AbsTail)
  BY <1>1, ModRoom, Zenon
<1>3. m_ulHead = AbsHead % Modulus /\ m_ulTail = AbsTail % Modulus
  BY DEF Positions
<1>4. AbsHead # AbsTail => AbsHead % Modulus # AbsTail % Modulus
  <2>1. AbsHead - AbsTail < Modulus /\ AbsTail - AbsHead < Modulus
    BY <1>1
  <2>. QED
    BY <1>1, <2>1, ModDistinct, Zenon
<1>. QED
  BY <1>2, <1>3, <1>4 DEF RemainingSpace, Empty

-----------------------------------------------------------------------------
\* The steps of the invariant.  One producer p and one consumer c.

LEMMA InitSafe == SPSC /\ Init => Safe
<1>. SUFFICES ASSUME Init PROVE Safe
  OBVIOUS
<1>. USE DEF Init
<1>1. Len(accepted) = 0 /\ Len(returned) = 0
  OBVIOUS
<1>2. AbsHead = 0 /\ AbsTail = 0 /\ Pending = {}
  BY <1>1 DEF AbsHead, AbsTail, Pending
<1>3. (0 % Modulus) = 0 /\ 0 <= Size
  BY RingAssumption
<1>4. /\ \A p \in Producers : wpc[p] = "idle" /\ PushOff(p) = 0 /\ wdone[p] = 0
      /\ \A c \in Consumers : rpc[c] = "idle" /\ PopOff(c) = 0 /\ rdone[c] = 0 /\ rgot[c] = <<>>
  BY DEF PushOff, PopOff
<1>. HIDE DEF Init
<1>5. Positions
  <2>1. m_ulHead = 0 /\ m_ulTail = 0 /\ m_ulWriteHead = 0 /\ m_ulReadTail = 0
    BY DEF Init
  <2>. QED
    BY <1>1, <1>2, <1>3, <1>4, <2>1 DEF Positions
<1>6. Writing
  BY <1>4 DEF Writing, Copying
<1>7. Reading
  BY <1>4 DEF Reading, Copying
<1>. QED
  BY <1>1, <1>2, <1>5, <1>6, <1>7 DEF Safe, Chained, PendingIntact, Fifo

\* Steps that only move a producer between places where it holds no record.
LEMMA PushControlSafe ==
    ASSUME NEW p, Producers = {p}, IInv,
           UNCHANGED <<ring, popping, accepted, returned, wdone>>,
           wpc' \in [Producers -> PC],
           wpc[p] \notin Copying, wpc'[p] \notin Copying
    PROVE  Safe'
<1>. USE DEF IInv, Safe, ring
<1>1. PushOff(p) = 0 /\ PushOff(p)' = 0
  BY DEF PushOff, Copying
<1>2. Writing'
  BY DEF Writing, Copying
<1>3. Positions'
  BY <1>1, KeepPositions, KeepReading
<1>. QED
  BY <1>2, <1>3, KeepRecords, KeepReading

\* Steps that only move a consumer between places where it holds no record.
LEMMA PopControlSafe ==
    ASSUME NEW c, Consumers = {c}, IInv,
           UNCHANGED <<ring, pushing, accepted, returned, rdone, rgot>>,
           rpc[c] \notin Copying, rpc'[c] \notin Copying
    PROVE  Safe'
<1>. USE DEF IInv, Safe, ring
<1>1. PopOff(c) = 0 /\ PopOff(c)' = 0
  BY DEF PopOff, Copying
<1>2. Reading'
  BY DEF Reading, Copying
<1>3. Positions'
  BY <1>1, KeepPositions, KeepWriting
<1>. QED
  BY <1>2, <1>3, KeepRecords, KeepWriting

\* A producer that found room has it until it publishes: only it moves the head.
LEMMA PushFitsSafe ==
    ASSUME NEW p, Producers = {p}, IInv, PushFits(p)
    PROVE  Safe'
<1>. USE DEF IInv, Safe, ring
<1>1. RecLen(wmsg[p]) <= Size - (AbsHead - AbsTail)
  BY SpaceFacts DEF PushFits
<1>2. wpc[p] = "check" /\ wpc'[p] = "head" /\ wdone[p] = 0 /\ wmsg[p] \in Msgs
  BY DEF PushFits, PushGoto, TypeOK, Writing
<1>3. PushOff(p) = 0 /\ PushOff(p)' = 0 /\ PushPartLen(p)' = HeadLen
  BY <1>2 DEF PushOff, PushPartLen
<1>4. AbsHead' = AbsHead /\ AbsTail' = AbsTail /\ UNCHANGED <<wdone, wmsg, m_pDataBuf>>
  BY KeepRecords DEF PushFits
<1>5. Writing'
  <2>1. wdone'[p] = 0 /\ wdone'[p] <= HeadLen
    BY <1>2, <1>4, RingAssumption
  <2>2. AbsHead - AbsTail + RecLen(wmsg[p]) <= Size
    BY <1>1, <1>2, AbsType, RecordFacts, RingAssumption
  <2>. QED
    BY <1>2, <1>3, <1>4, <2>1, <2>2 DEF Writing, Copying
<1>6. Positions'
  BY <1>3, KeepPositions, KeepReading DEF PushFits
<1>. QED
  BY <1>5, <1>6, KeepRecords, KeepReading DEF PushFits

\* A byte is written to a place no pending record and no earlier byte of this
\* record occupies.
LEMMA PushByteSafe ==
    ASSUME NEW p, Producers = {p}, IInv, PushByte(p)
    PROVE  Safe'
<1>. DEFINE n == PushOff(p) + wdone[p]
            m == wmsg[p]
<1>1. /\ m \in Msgs /\ wpc[p] \in {"head", "data"} /\ wdone[p] \in Nat /\ wdone[p] < PushPartLen(p)
      /\ AbsHead \in Nat /\ AbsTail \in Nat /\ AbsTail <= AbsHead
      /\ HeadLen \in Nat /\ Size \in Nat /\ RecLen(m) \in Nat /\ RecLen(m) = HeadLen + Length[m]
      /\ Length[m] \in Nat
  <2>1. m \in Msgs /\ wpc[p] \in {"head", "data"} /\ wdone[p] \in Nat /\ wdone[p] < PushPartLen(p)
    BY DEF IInv, TypeOK, PushByte
  <2>. QED
    BY <2>1, AbsType, RecordFacts, RingAssumption DEF IInv, Safe, Positions
<1>2. AbsHead - AbsTail + RecLen(m) <= Size
  BY <1>1 DEF IInv, Safe, Writing, Copying
<1>3. n \in Nat /\ n < RecLen(m) /\ PushPartOff(p) + wdone[p] = n
  BY <1>1 DEF PushOff, PushPartLen, PushPartOff
<1>4. Index(m_ulWriteHead + wdone[p]) = Index(AbsHead + n)
  <2>1. PushOff(p) \in Nat
    BY <1>1 DEF PushOff
  <2>2. m_ulWriteHead = (AbsHead + PushOff(p)) % Modulus
    BY DEF IInv, Safe, Positions
  <2>3. AbsHead + PushOff(p) \in Nat
    BY <1>1, <2>1
  <2>4. Index(((AbsHead + PushOff(p)) % Modulus) + wdone[p]) = Index((AbsHead + PushOff(p)) + wdone[p])
    BY <1>1, <2>3, IndexAdvance, Zenon
  <2>5. (AbsHead + PushOff(p)) + wdone[p] = AbsHead + n
    BY <1>1, <2>1
  <2>. QED
    BY <2>2, <2>4, <2>5
<1>5. m_pDataBuf' = [m_pDataBuf EXCEPT ![Index(AbsHead + n)] = [msg |-> m, off |-> n]]
  BY <1>3, <1>4, Zenon DEF PushByte
<1>6. AbsHead' = AbsHead /\ AbsTail' = AbsTail /\ PushOff(p)' = PushOff(p)
      /\ UNCHANGED <<wpc, wmsg>> /\ PushPartLen(p)' = PushPartLen(p) /\ wdone'[p] = wdone[p] + 1
  BY KeepRecords DEF PushByte, PushOff, PushPartLen, IInv, TypeOK
<1>. HIDE DEF n, m
<1>7. \A x \in Nat : AbsTail <= x /\ x < AbsHead + n =>
         m_pDataBuf'[Index(x)] = m_pDataBuf[Index(x)]
  <2>1. SUFFICES ASSUME NEW x \in Nat, AbsTail <= x, x < AbsHead + n
                 PROVE  m_pDataBuf'[Index(x)] = m_pDataBuf[Index(x)]
    OBVIOUS
  <2>2. AbsHead + n \in Nat /\ (AbsHead + n) - x < Size
    BY <1>1, <1>2, <1>3, <2>1
  <2>3. Index(AbsHead + n) # Index(x)
    BY <2>1, <2>2, IndexDistinct
  <2>4. Index(x) \in 0 .. Size - 1 /\ m_pDataBuf \in [0 .. Size - 1 -> Byte]
    BY IndexType DEF IInv, TypeOK
  <2>. QED
    BY <1>5, <2>3, <2>4
<1>8. PendingIntact'
  <2>1. SUFFICES ASSUME NEW i \in Pending, NEW k \in 1 .. RecLen(accepted[i].msg)
                 PROVE  m_pDataBuf'[Index(accepted[i].start + k - 1)] = Record(accepted[i].msg)[k]
    <3>1. UNCHANGED <<accepted, returned>>
      BY DEF PushByte
    <3>2. Pending' = Pending
      BY <3>1 DEF Pending
    <3>. QED
      BY <3>1, <3>2, Zenon DEF PendingIntact
  <2>2. accepted[i].start \in Nat /\ RecLen(accepted[i].msg) \in Nat
    BY AcceptedType, RecordFacts DEF Pending, IInv
  <2>3. AbsTail <= accepted[i].start /\ accepted[i].start + RecLen(accepted[i].msg) <= AbsHead
    BY PendingEnds DEF IInv, Safe
  <2>4. /\ accepted[i].start + k - 1 \in Nat
        /\ AbsTail <= accepted[i].start + k - 1 /\ accepted[i].start + k - 1 < AbsHead + n
    BY <1>1, <1>3, <2>2, <2>3
  <2>5. m_pDataBuf[Index(accepted[i].start + k - 1)] = Record(accepted[i].msg)[k]
    BY DEF IInv, Safe, PendingIntact
  <2>. QED
    BY <1>7, <2>4, <2>5
<1>9. \A k \in 1 .. n + 1 : m_pDataBuf'[Index(AbsHead + k - 1)] = Record(m)[k]
  <2>1. SUFFICES ASSUME NEW k \in 1 .. n + 1
                 PROVE  m_pDataBuf'[Index(AbsHead + k - 1)] = Record(m)[k]
    OBVIOUS
  <2>2. CASE k = n + 1
    <3>1. AbsHead + k - 1 = AbsHead + n /\ k - 1 = n /\ k \in 1 .. RecLen(m) /\ AbsHead + n \in Nat
      BY <1>1, <1>3, <2>2
    <3>2. Index(AbsHead + n) \in 0 .. Size - 1 /\ m_pDataBuf \in [0 .. Size - 1 -> Byte]
      BY <3>1, IndexType DEF IInv, TypeOK
    <3>3. m_pDataBuf'[Index(AbsHead + n)] = [msg |-> m, off |-> n]
      BY <1>5, <3>2
    <3>4. Record(m)[k] = [msg |-> m, off |-> k - 1]
      BY <1>1, <3>1, RecordFacts
    <3>. QED
      BY <3>1, <3>3, <3>4
  <2>3. CASE k # n + 1
    <3>1. k \in 1 .. n /\ AbsHead + k - 1 \in Nat /\ AbsTail <= AbsHead + k - 1
          /\ AbsHead + k - 1 < AbsHead + n
      BY <1>1, <1>3, <2>3
    <3>2. m_pDataBuf[Index(AbsHead + k - 1)] = Record(m)[k]
      BY <1>1, <3>1 DEF IInv, Safe, Writing, Copying, n, m
    <3>. QED
      BY <1>7, <3>1, <3>2
  <2>. QED
    BY <2>2, <2>3
<1>10. Writing'
  <2>1. wdone'[p] <= PushPartLen(p)' /\ PushOff(p)' + wdone'[p] = n + 1
    <3>1. PushOff(p) \in Nat /\ PushPartLen(p) \in Nat
      BY <1>1 DEF PushOff, PushPartLen, m
    <3>. QED
      BY <1>1, <1>6, <3>1 DEF n
  <2>. QED
    BY <1>1, <1>2, <1>6, <1>9, <2>1 DEF Writing, Copying, m
<1>11. Positions'
  BY <1>6, KeepPositions, KeepReading DEF PushByte, IInv, Safe
<1>. QED
  BY <1>8, <1>10, <1>11, KeepRecords, KeepReading DEF PushByte, IInv, Safe


\* The end of a WriteData moves m_ulWriteHead behind the part just written.
LEMMA PushAdvanceSafe ==
    ASSUME NEW p, Producers = {p}, IInv, PushAdvance(p)
    PROVE  Safe'
<1>1. /\ wmsg[p] \in Msgs /\ wpc[p] \in {"head", "data"}
      /\ wpc' = [wpc EXCEPT ![p] = IF wpc[p] = "head" THEN "data" ELSE "publish"]
      /\ wpc \in [Producers -> PC] /\ wdone' = [wdone EXCEPT ![p] = 0]
      /\ wdone \in [Producers -> Nat] /\ wdone[p] = PushPartLen(p)
      /\ UNCHANGED <<m_pDataBuf, m_ulHead, m_ulTail, m_ulReadTail, wmsg, popping, accepted, returned>>
      /\ m_ulWriteHead' = (m_ulWriteHead + PushPartLen(p)) % Modulus
  BY DEF PushAdvance, PushGoto, IInv, TypeOK
<1>2. /\ AbsHead' = AbsHead /\ AbsTail' = AbsTail /\ AbsHead \in Nat /\ HeadLen \in Nat
      /\ Length[wmsg[p]] \in Nat /\ RecLen(wmsg[p]) = HeadLen + Length[wmsg[p]]
  BY <1>1, KeepRecords, AbsType, RecordFacts, RingAssumption DEF IInv
<1>3. /\ PushOff(p) \in Nat /\ PushPartLen(p) \in Nat
      /\ PushOff(p)' = PushOff(p) + PushPartLen(p) /\ wdone'[p] = 0
  BY <1>1, <1>2 DEF PushOff, PushPartLen
<1>4. m_ulWriteHead' = (AbsHead + PushOff(p)') % Modulus
  <2>1. AbsHead + PushOff(p) \in Nat
    BY <1>2, <1>3
  <2>2. (((AbsHead + PushOff(p)) % Modulus) + PushPartLen(p)) % Modulus
          = ((AbsHead + PushOff(p)) + PushPartLen(p)) % Modulus
    BY <1>3, <2>1, PositionAdvance, Zenon
  <2>3. (AbsHead + PushOff(p)) + PushPartLen(p) = AbsHead + PushOff(p)'
    BY <1>2, <1>3
  <2>4. m_ulWriteHead = (AbsHead + PushOff(p)) % Modulus
    BY DEF IInv, Safe, Positions
  <2>. QED
    BY <1>1, <2>2, <2>3, <2>4
<1>5. Writing'
  <2>1. \A k \in 1 .. PushOff(p)' + wdone'[p] :
           m_pDataBuf[Index(AbsHead + k - 1)] = Record(wmsg[p])[k]
    <3>1. PushOff(p)' + wdone'[p] = PushOff(p) + wdone[p]
      BY <1>1, <1>3
    <3>. QED
      BY <1>1, <3>1 DEF IInv, Safe, Writing, Copying
  <2>2. AbsHead - AbsTail + RecLen(wmsg[p]) <= Size
    BY <1>1 DEF IInv, Safe, Writing, Copying
  <2>3. wdone'[p] = 0 /\ PushPartLen(p)' \in Nat
    BY <1>1, <1>2, <1>3 DEF PushPartLen
  <2>. QED
    BY <1>1, <1>2, <2>1, <2>2, <2>3 DEF Writing, Copying
<1>6. Positions'
  <2>1. \A c \in Consumers : PopOff(c)' = PopOff(c)
    BY <1>1, KeepReading DEF IInv, Safe
  <2>. QED
    BY <1>1, <1>2, <1>4, <2>1 DEF IInv, Safe, Positions
<1>. QED
  BY <1>1, <1>5, <1>6, KeepRecords, KeepReading DEF IInv, Safe

\* The record becomes the last one; the tail does not move.
LEMMA PushPublishSafe ==
    ASSUME NEW p, Producers = {p}, IInv, PushPublish(p)
    PROVE  Safe'
<1>. DEFINE n == Len(accepted)
            m == wmsg[p]
            new == [msg |-> m, start |-> AbsHead]
<1>1. /\ m \in Msgs /\ wpc[p] = "publish" /\ wpc' = [wpc EXCEPT ![p] = "unlock"]
      /\ wpc \in [Producers -> PC] /\ wdone[p] = 0
      /\ UNCHANGED <<m_pDataBuf, m_ulTail, m_ulWriteHead, m_ulReadTail, wmsg, wdone, popping, returned>>
      /\ m_ulHead' = m_ulWriteHead /\ accepted' = Append(accepted, new)
  BY DEF PushPublish, PushGoto, IInv, TypeOK, Safe, Writing
<1>2. /\ AbsHead \in Nat /\ AbsTail \in Nat /\ RecLen(m) \in Nat /\ n \in Nat /\ Len(returned) \in Nat
      /\ Len(returned) <= n /\ AbsTail <= AbsHead /\ Size \in Nat
      /\ AbsHead - AbsTail + RecLen(m) <= Size
  BY <1>1, AbsType, RecordFacts, AcceptedType, RingAssumption
     DEF IInv, Safe, Positions, Writing, Copying
<1>3. /\ Len(accepted') = n + 1 /\ accepted'[n + 1] = new
      /\ \A i \in 1 .. n : accepted'[i] = accepted[i]
      /\ accepted' # <<>>
  BY <1>1 DEF IInv, TypeOK
<1>4. AbsHead' = AbsHead + RecLen(m)
  BY <1>1, <1>2, <1>3, SMTT(30) DEF AbsHead, RecLen
<1>5. AbsTail' = AbsTail
  <2>1. CASE Len(returned) < n
    BY <1>1, <1>2, <1>3, <2>1 DEF AbsTail
  <2>2. CASE Len(returned) = n
    BY <1>1, <1>2, <1>3, <2>2 DEF AbsTail
  <2>. QED
    BY <1>2, <2>1, <2>2
<1>. HIDE DEF new
<1>6. new.start = AbsHead /\ new.msg = m
  BY DEF new
<1>. HIDE DEF n, m
<1>7. \A i \in 1 .. n : accepted[i].start \in Nat /\ accepted[i].msg \in Msgs
         /\ RecLen(accepted[i].msg) \in Nat
         /\ accepted[i].start + RecLen(accepted[i].msg) <= AbsHead
  <2>1. SUFFICES ASSUME NEW i \in 1 .. n
                 PROVE  /\ accepted[i].start \in Nat /\ accepted[i].msg \in Msgs
                        /\ RecLen(accepted[i].msg) \in Nat
                        /\ accepted[i].start + RecLen(accepted[i].msg) <= AbsHead
    OBVIOUS
  <2>2. n > 0 /\ AbsHead = accepted[n].start + RecLen(accepted[n].msg)
    BY <1>2, <2>1 DEF AbsHead, n
  <2>3. i < n => accepted[i].start + RecLen(accepted[i].msg) <= accepted[n].start
    BY <1>2, <2>1, <2>2 DEF IInv, Safe, Chained, n
  <2>4. /\ \A j \in {i, n} : accepted[j].start \in Nat /\ accepted[j].msg \in Msgs
        /\ \A j \in {i, n} : RecLen(accepted[j].msg) \in Nat
    BY <1>2, <2>1, <2>2, AcceptedType, RecordFacts, SMTT(40) DEF IInv, n
  <2>5. CASE i = n
    BY <1>2, <2>2, <2>4, <2>5
  <2>6. CASE i < n
    <3> DEFINE x == accepted[i].start + RecLen(accepted[i].msg)
               y == accepted[n].start
               z == RecLen(accepted[n].msg)
    <3>1. x \in Nat /\ y \in Nat /\ z \in Nat /\ x <= y /\ AbsHead = y + z
      BY <2>2, <2>3, <2>4, <2>6
    <3> HIDE DEF x, y, z
    <3>2. x <= AbsHead
      BY <3>1
    <3>. QED
      BY <2>4, <3>2 DEF x
  <2>. QED
    BY <1>2, <2>1, <2>5, <2>6
<1>8. Chained'
  <2>1. \A i \in 1 .. n : accepted'[i + 1].start = accepted'[i].start + RecLen(accepted'[i].msg)
    <3>1. SUFFICES ASSUME NEW i \in 1 .. n
                   PROVE  accepted'[i + 1].start = accepted'[i].start + RecLen(accepted'[i].msg)
      OBVIOUS
    <3>2. CASE i = n
      BY <1>2, <1>3, <1>6, <3>2 DEF AbsHead, n
    <3>3. CASE i # n
      <4>1. i \in 1 .. n - 1 /\ i + 1 \in 1 .. n
        BY <1>2, <3>3
      <4>. QED
        BY <1>3, <4>1 DEF IInv, Safe, Chained, n
    <3>. QED
      BY <3>2, <3>3
  <2>2. \A i, j \in 1 .. n + 1 : i < j =>
           accepted'[i].start + RecLen(accepted'[i].msg) <= accepted'[j].start
    <3>1. SUFFICES ASSUME NEW i \in 1 .. n + 1, NEW j \in 1 .. n + 1, i < j
                   PROVE  accepted'[i].start + RecLen(accepted'[i].msg) <= accepted'[j].start
      OBVIOUS
    <3>2. i \in 1 .. n
      BY <1>2, <3>1
    <3>3. CASE j = n + 1
      BY <1>3, <1>6, <1>7, <3>2, <3>3
    <3>4. CASE j # n + 1
      <4>1. j \in 1 .. n
        BY <1>2, <3>4
      <4>. QED
        BY <1>3, <3>1, <3>2, <4>1 DEF IInv, Safe, Chained, n
    <3>. QED
      BY <3>3, <3>4
  <2>3. Len(accepted') = n + 1 /\ (n + 1) - 1 = n
    BY <1>2, <1>3
  <2>. QED
    BY <2>1, <2>2, <2>3 DEF Chained, RecLen
<1>9. PushOff(p) = RecLen(m) /\ PushOff(p)' = 0
  BY <1>1 DEF PushOff, m
<1>10. Len(returned) < n => Oldest' = Oldest
  BY <1>1, <1>2, <1>3 DEF Oldest, n
<1>11. Reading' /\ \A c \in Consumers : PopOff(c)' = PopOff(c)
  <2>1. \A c \in Consumers : rpc[c] \in Copying => Len(returned) < n
    BY DEF IInv, Safe, Reading, n
  <2>2. UNCHANGED <<rpc, rlen, rdone, rgot, returned>>
    BY <1>1 DEF popping
  <2>3. \A c \in Consumers : PopOff(c)' = PopOff(c)
    BY <1>10, <2>1, <2>2 DEF PopOff, Copying, RecLen
  <2>4. Reading'
    <3>1. ASSUME NEW c \in Consumers
          PROVE  /\ rpc'[c] \notin Copying => rgot'[c] = <<>>
                 /\ rpc'[c] \notin {"head", "data"} => rdone'[c] = 0
      BY <2>2 DEF IInv, Safe, Reading
    <3>2. ASSUME NEW c \in Consumers, rpc'[c] \in Copying
          PROVE  /\ Len(returned') < Len(accepted')
                 /\ rlen'[c] = IF rpc'[c] = "head" THEN HeadLen ELSE Length[Oldest']
                 /\ rdone'[c] <= rlen'[c]
                 /\ Len(rgot'[c]) = IF rpc'[c] = "publish" THEN RecLen(Oldest') ELSE PopOff(c)' + rdone'[c]
                 /\ \A k \in 1 .. Len(rgot'[c]) : rgot'[c][k] = Record(Oldest')[k]
      <4>1. rpc[c] \in Copying /\ Oldest' = Oldest /\ PopOff(c)' = PopOff(c)
        BY <1>10, <2>1, <2>2, <2>3, <3>2
      <4>2. Len(returned') < Len(accepted')
        BY <1>2, <1>3, <2>1, <2>2, <4>1
      <4>. QED
        BY <2>2, <4>1, <4>2, Zenon DEF IInv, Safe, Reading
    <3>. QED
      BY <3>1, <3>2, Zenon DEF Reading, Record, RecLen
  <2>. QED
    BY <2>3, <2>4
<1>12. Positions'
  <2>1. /\ Len(returned)' <= Len(accepted)' /\ AbsTail' <= AbsHead' /\ AbsHead' - AbsTail' <= Size
    BY <1>1, <1>2, <1>3, <1>4, <1>5
  <2>2. m_ulWriteHead = (AbsHead + RecLen(m)) % Modulus /\ m_ulTail = AbsTail % Modulus
    BY <1>9 DEF IInv, Safe, Positions
  <2>3. AbsHead' + 0 = AbsHead'
    BY <1>2, <1>4
  <2>4. \A c \in Consumers : m_ulReadTail = (AbsTail + PopOff(c)) % Modulus
    BY DEF IInv, Safe, Positions
  <2>. QED
    BY <1>1, <1>4, <1>5, <1>9, <1>11, <2>1, <2>2, <2>3, <2>4 DEF Positions
<1>13. Writing'
  BY <1>1 DEF Writing, Copying
<1>14. PendingIntact'
  <2>1. SUFFICES ASSUME NEW i \in Len(returned) + 1 .. n + 1, NEW k \in 1 .. RecLen(accepted'[i].msg)
                 PROVE  m_pDataBuf[Index(accepted'[i].start + k - 1)] = Record(accepted'[i].msg)[k]
    <3>1. Pending' = Len(returned) + 1 .. n + 1
      BY <1>1, <1>3 DEF Pending
    <3>2. m_pDataBuf' = m_pDataBuf
      BY <1>1
    <3>. QED
      BY <3>1, <3>2, Zenon DEF PendingIntact, RecLen, Record
  <2>2. CASE i = n + 1
    <3>1. \A j \in 1 .. PushOff(p) + wdone[p] : m_pDataBuf[Index(AbsHead + j - 1)] = Record(m)[j]
      BY <1>1 DEF IInv, Safe, Writing, Copying, m
    <3>2. PushOff(p) + wdone[p] = RecLen(m)
      BY <1>1, <1>2, <1>9
    <3>. QED
      BY <1>3, <1>6, <2>2, <3>1, <3>2
  <2>3. CASE i # n + 1
    <3>1. i \in 1 .. n /\ i \in Pending
      BY <1>2, <2>3 DEF Pending, n
    <3>. QED
      BY <1>3, <3>1 DEF IInv, Safe, PendingIntact
  <2>. QED
    BY <2>2, <2>3
<1>15. Fifo'
  <2>1. \A i \in 1 .. Len(returned) : returned[i] = accepted[i].msg /\ i \in 1 .. n
    BY <1>2 DEF IInv, Safe, Fifo, n
  <2>. QED
    BY <1>1, <1>2, <1>3, <2>1 DEF Fifo
<1>. QED
  BY <1>8, <1>11, <1>12, <1>13, <1>14, <1>15 DEF Safe


\* A non-empty ring holds a record.
LEMMA PopSomeSafe ==
    ASSUME NEW c, Consumers = {c}, IInv, PopSome(c)
    PROVE  Safe'
<1>1. /\ rpc[c] = "check" /\ rpc' = [rpc EXCEPT ![c] = "head"] /\ rpc \in [Consumers -> PC]
      /\ rlen' = [rlen EXCEPT ![c] = HeadLen] /\ rlen \in [Consumers -> Nat]
      /\ rgot[c] = <<>> /\ rdone[c] = 0
      /\ UNCHANGED <<ring, pushing, rdone, rgot, accepted, returned>>
  BY DEF PopSome, PopGoto, IInv, TypeOK, Safe, Reading, Copying
<1>2. Len(returned) < Len(accepted)
  <2>1. AbsHead # AbsTail
    BY SpaceFacts DEF PopSome, IInv, Safe
  <2>. QED
    BY <2>1 DEF AbsTail
<1>3. PopOff(c) = 0 /\ PopOff(c)' = 0
  BY <1>1 DEF PopOff
<1>4. Reading'
  <2>1. rpc'[c] = "head" /\ rlen'[c] = HeadLen /\ rdone'[c] = 0 /\ rgot'[c] = <<>> /\ Len(<<>>) = 0
    BY <1>1
  <2>2. 0 <= HeadLen /\ 0 + 0 = 0
    BY RingAssumption
  <2>. QED
    BY <1>1, <1>2, <1>3, <2>1, <2>2 DEF Reading, Copying
<1>5. Positions'
  BY <1>1, <1>3, KeepPositions, KeepWriting DEF ring, IInv, Safe
<1>. QED
  BY <1>1, <1>4, <1>5, KeepRecords, KeepWriting DEF IInv, Safe, ring

\* The byte copied out is the next byte of the oldest record.
LEMMA PopByteSafe ==
    ASSUME NEW c, Consumers = {c}, IInv, PopByte(c)
    PROVE  Safe'
<1>. DEFINE n == PopOff(c) + rdone[c]
            m == Oldest
            v == m_pDataBuf[Index(m_ulReadTail + rdone[c])]
<1>1. /\ rpc[c] \in {"head", "data"} /\ rdone \in [Consumers -> Nat] /\ rlen[c] \in Nat
      /\ rdone[c] < rlen[c] /\ rdone' = [rdone EXCEPT ![c] = rdone[c] + 1]
      /\ rgot[c] \in Seq(Byte) /\ rgot' = [rgot EXCEPT ![c] = Append(rgot[c], v)]
      /\ rgot \in [Consumers -> Seq(Byte)]
      /\ UNCHANGED <<ring, pushing, rpc, rlen, accepted, returned>>
  BY DEF PopByte, IInv, TypeOK
<1>2. /\ Len(returned) < Len(accepted)
      /\ rlen[c] = IF rpc[c] = "head" THEN HeadLen ELSE Length[m]
      /\ Len(rgot[c]) = n
      /\ \A k \in 1 .. Len(rgot[c]) : rgot[c][k] = Record(m)[k]
  BY <1>1 DEF IInv, Safe, Reading, Copying
<1>3. /\ m \in Msgs /\ HeadLen \in Nat /\ Length[m] \in Nat /\ RecLen(m) = HeadLen + Length[m]
      /\ AbsTail \in Nat /\ RecLen(m) \in Nat
      /\ accepted[Len(returned) + 1].start = AbsTail
  BY <1>2, PendingEnds, AbsType, RecordFacts, RingAssumption DEF IInv, Safe
<1>4. n \in Nat /\ n < RecLen(m) /\ PopOff(c) \in Nat
  BY <1>1, <1>2, <1>3, SMTT(30) DEF PopOff
<1>5. v = m_pDataBuf[Index(AbsTail + n)]
  <2>1. m_ulReadTail = (AbsTail + PopOff(c)) % Modulus
    BY DEF IInv, Safe, Positions
  <2>2. AbsTail + PopOff(c) \in Nat /\ rdone[c] \in Nat
    BY <1>1, <1>3, <1>4, SMTT(40)
  <2>3. Index(((AbsTail + PopOff(c)) % Modulus) + rdone[c]) = Index((AbsTail + PopOff(c)) + rdone[c])
    BY <2>2, IndexAdvance, Zenon
  <2>4. (AbsTail + PopOff(c)) + rdone[c] = AbsTail + n
    BY <1>3, <1>4, <2>2
  <2>. QED
    BY <2>1, <2>3, <2>4
<1>6. v = Record(m)[n + 1]
  <2>1. Len(returned) + 1 \in Pending
    BY <1>2, AcceptedType DEF Pending, IInv
  <2>2. n + 1 \in 1 .. RecLen(m) /\ AbsTail + (n + 1) - 1 = AbsTail + n
    BY <1>3, <1>4, SMTT(40)
  <2>3. m_pDataBuf[Index(AbsTail + (n + 1) - 1)] = Record(m)[n + 1]
    BY <1>3, <2>1, <2>2 DEF IInv, Safe, PendingIntact, Oldest
  <2>. QED
    BY <1>5, <2>2, <2>3
<1>. HIDE DEF v, n
<1>7. /\ rgot'[c] = Append(rgot[c], v) /\ rdone'[c] = rdone[c] + 1
  BY <1>1
<1>8. /\ Len(rgot'[c]) = n + 1
      /\ \A k \in 1 .. n + 1 : rgot'[c][k] = Record(m)[k]
  <2>1. Len(rgot'[c]) = n + 1 /\ rgot'[c][n + 1] = v
        /\ \A k \in 1 .. n : rgot'[c][k] = rgot[c][k]
    BY <1>1, <1>2, <1>7
  <2>. QED
    BY <1>2, <1>4, <1>6, <2>1
<1>9. PopOff(c)' = PopOff(c) /\ Oldest' = Oldest
  BY <1>1, KeepRecords DEF PopOff
<1>10. Reading'
  <2>1. rdone'[c] <= rlen[c] /\ PopOff(c)' + rdone'[c] = n + 1
    BY <1>1, <1>4, <1>7, <1>9 DEF n
  <2>. QED
    BY <1>1, <1>2, <1>8, <1>9, <2>1 DEF Reading, Copying
<1>11. Positions'
  BY <1>1, <1>9, KeepPositions, KeepWriting DEF ring, IInv, Safe
<1>. QED
  BY <1>1, <1>10, <1>11, KeepRecords, KeepWriting DEF IInv, Safe, ring

\* The first byte of a record tells its message.
LEMMA FirstByte ==
    ASSUME NEW m \in Msgs
    PROVE  Record(m)[1].msg = m
<1>1. 1 \in 1 .. RecLen(m)
  BY RecordFacts
<1>2. Record(m)[1] = [msg |-> m, off |-> 1 - 1]
  BY <1>1, RecordFacts
<1>. QED
  BY <1>2

\* The header of a record says its length and nothing else.
LEMMA HeaderUnique ==
    ASSUME NEW m \in Msgs, NEW bytes, \A k \in 1 .. HeadLen : bytes[k] = Record(m)[k]
    PROVE  HeaderValues(bytes) = {Length[m]}
<1>. DEFINE owners == {x \in Msgs : \A k \in 1 .. HeadLen : bytes[k] = Record(x)[k]}
<1>1. 1 \in 1 .. HeadLen
  BY RingAssumption
<1>2. \A x \in Msgs : Record(x)[1].msg = x
  BY FirstByte
<1>3. \A x \in owners : x = m
  <2>1. SUFFICES ASSUME NEW x \in owners PROVE x = m
    OBVIOUS
  <2>2. bytes[1] = Record(x)[1] /\ bytes[1] = Record(m)[1]
    BY <1>1
  <2>. QED
    BY <1>2, <2>2
<1>4. owners = {m}
  BY <1>3
<1>5. HeaderValues(bytes) = {Length[x] : x \in (IF owners = {} THEN Msgs ELSE owners)}
  BY DEF HeaderValues
<1>. HIDE DEF owners
<1>. QED
  BY <1>4, <1>5

\* A record decodes to its message.
LEMMA DecodedRecord ==
    ASSUME NEW m \in Msgs, NEW bytes \in Seq(Byte), Len(bytes) = RecLen(m),
           \A k \in 1 .. RecLen(m) : bytes[k] = Record(m)[k]
    PROVE  Decoded(bytes) = m
<1>1. bytes = Record(m)
  <2>1. Record(m) \in Seq(Byte) /\ Len(Record(m)) = RecLen(m)
    BY RecordFacts
  <2>. QED
    BY <2>1, SeqEqual, Zenon
<1>2. \A x \in Msgs : bytes = Record(x) => x = m
  BY <1>1, FirstByte, Zenon
<1>. QED
  BY <1>1, <1>2, Zenon DEF Decoded


\* The end of a ReadData moves m_ulReadTail behind the part just read.
LEMMA ReadAdvance ==
    ASSUME NEW c \in Consumers, IInv, NEW off \in Nat, NEW n \in Nat, PopOff(c) = off
    PROVE  (m_ulReadTail + n) % Modulus = (AbsTail + (off + n)) % Modulus
<1>1. AbsTail \in Nat /\ AbsTail + off \in Nat
  BY AbsType DEF IInv
<1>2. m_ulReadTail = (AbsTail + off) % Modulus
  BY DEF IInv, Safe, Positions
<1>3. (((AbsTail + off) % Modulus) + n) % Modulus = ((AbsTail + off) + n) % Modulus
  BY <1>1, PositionAdvance, Zenon
<1>4. (AbsTail + off) + n = AbsTail + (off + n)
  BY <1>1
<1>. QED
  BY <1>2, <1>3, <1>4

\* The header read is the oldest record's, so its length is what is read next.
LEMMA PopHeaderSafe ==
    ASSUME NEW c, Consumers = {c}, IInv, PopHeader(c)
    PROVE  Safe'
<1>1. /\ rpc[c] = "head" /\ rpc' = [rpc EXCEPT ![c] = "data"] /\ rpc \in [Consumers -> PC]
      /\ rdone' = [rdone EXCEPT ![c] = 0] /\ rdone \in [Consumers -> Nat] /\ rdone[c] = rlen[c]
      /\ rlen \in [Consumers -> Nat] /\ \E len \in HeaderValues(rgot[c]) : rlen' = [rlen EXCEPT ![c] = len]
      /\ m_ulReadTail' = (m_ulReadTail + rlen[c]) % Modulus
      /\ UNCHANGED <<m_pDataBuf, m_ulHead, m_ulTail, m_ulWriteHead, pushing, rgot, accepted, returned>>
  BY DEF PopHeader, PopGoto, IInv, TypeOK
<1>2. /\ Len(returned) < Len(accepted) /\ rlen[c] = HeadLen /\ Len(rgot[c]) = HeadLen
      /\ \A k \in 1 .. Len(rgot[c]) : rgot[c][k] = Record(Oldest)[k]
      /\ HeadLen \in Nat /\ PopOff(c) = 0
  <2>1. PopOff(c) = 0 /\ HeadLen \in Nat /\ 0 + HeadLen = HeadLen
    BY <1>1, RingAssumption DEF PopOff
  <2>. QED
    BY <1>1, <2>1 DEF IInv, Safe, Reading, Copying
<1>3. Oldest \in Msgs /\ Length[Oldest] \in Nat /\ Oldest' = Oldest
  BY <1>1, <1>2, PendingEnds, RecordFacts, KeepRecords DEF IInv, Safe
<1>4. rlen'[c] = Length[Oldest]
  BY <1>1, <1>2, <1>3, HeaderUnique
<1>5. PopOff(c)' = HeadLen
  BY <1>1 DEF PopOff
<1>6. Reading'
  <2>1. rpc'[c] = "data" /\ rdone'[c] = 0 /\ rgot' = rgot /\ HeadLen + 0 = HeadLen
    BY <1>1, <1>2
  <2>. QED
    BY <1>1, <1>2, <1>3, <1>4, <1>5, <2>1 DEF Reading, Copying
<1>7. m_ulReadTail' = (AbsTail + HeadLen) % Modulus
  <2>1. 0 + HeadLen = HeadLen
    BY <1>2
  <2>2. (m_ulReadTail + HeadLen) % Modulus = (AbsTail + (0 + HeadLen)) % Modulus
    BY <1>2, ReadAdvance
  <2>. QED
    BY <1>1, <1>2, <2>1, <2>2
<1>8. AbsHead' = AbsHead /\ AbsTail' = AbsTail /\ \A p \in Producers : PushOff(p)' = PushOff(p)
  BY <1>1, KeepRecords, KeepWriting DEF IInv, Safe
<1>9. Positions'
  BY <1>1, <1>5, <1>7, <1>8 DEF IInv, Safe, Positions
<1>. QED
  BY <1>1, <1>6, <1>9, KeepRecords, KeepWriting DEF IInv, Safe

\* The whole record has been copied out.
LEMMA PopDataSafe ==
    ASSUME NEW c, Consumers = {c}, IInv, PopData(c)
    PROVE  Safe'
<1>1. /\ rpc[c] = "data" /\ rpc' = [rpc EXCEPT ![c] = "publish"] /\ rpc \in [Consumers -> PC]
      /\ rdone' = [rdone EXCEPT ![c] = 0] /\ rdone \in [Consumers -> Nat] /\ rdone[c] = rlen[c]
      /\ m_ulReadTail' = (m_ulReadTail + rlen[c]) % Modulus
      /\ UNCHANGED <<m_pDataBuf, m_ulHead, m_ulTail, m_ulWriteHead, pushing, rlen, rgot, accepted, returned>>
  BY DEF PopData, PopGoto, IInv, TypeOK
<1>2. /\ Len(returned) < Len(accepted) /\ rlen[c] = Length[Oldest]
      /\ PopOff(c) = HeadLen /\ Len(rgot[c]) = HeadLen + rdone[c]
      /\ \A k \in 1 .. Len(rgot[c]) : rgot[c][k] = Record(Oldest)[k]
  <2>1. PopOff(c) = HeadLen
    BY <1>1 DEF PopOff
  <2>. QED
    BY <1>1, <2>1 DEF IInv, Safe, Reading, Copying
<1>3. /\ Oldest \in Msgs /\ Length[Oldest] \in Nat /\ HeadLen \in Nat
      /\ RecLen(Oldest) = HeadLen + Length[Oldest] /\ Oldest' = Oldest
  BY <1>1, <1>2, PendingEnds, RecordFacts, KeepRecords, RingAssumption DEF IInv, Safe
<1>4. PopOff(c)' = RecLen(Oldest)
  BY <1>1, <1>3 DEF PopOff, RecLen
<1>5. Reading'
  <2>1. rpc'[c] = "publish" /\ rdone'[c] = 0 /\ rgot' = rgot /\ Len(rgot[c]) = RecLen(Oldest)
    BY <1>1, <1>2, <1>3
  <2>2. /\ Len(returned') < Len(accepted')
        /\ rlen'[c] = Length[Oldest'] /\ rdone'[c] <= rlen'[c]
        /\ Len(rgot'[c]) = RecLen(Oldest')
    BY <1>1, <1>2, <1>3, <2>1
  <2>3. \A k \in 1 .. Len(rgot'[c]) : rgot'[c][k] = Record(Oldest')[k]
    BY <1>2, <1>3, <2>1
  <2>. QED
    BY <1>1, <2>1, <2>2, <2>3 DEF Reading, Copying
<1>6. m_ulReadTail' = (AbsTail + RecLen(Oldest)) % Modulus
  <2>1. (m_ulReadTail + Length[Oldest]) % Modulus = (AbsTail + (HeadLen + Length[Oldest])) % Modulus
    BY <1>2, <1>3, ReadAdvance
  <2>. QED
    BY <1>1, <1>2, <1>3, <2>1
<1>7. AbsHead' = AbsHead /\ AbsTail' = AbsTail /\ \A p \in Producers : PushOff(p)' = PushOff(p)
  BY <1>1, KeepRecords, KeepWriting DEF IInv, Safe
<1>8. Positions'
  BY <1>1, <1>4, <1>6, <1>7 DEF IInv, Safe, Positions
<1>. QED
  BY <1>1, <1>5, <1>8, KeepRecords, KeepWriting DEF IInv, Safe

\* The oldest record is handed back: the tail moves to its end.
LEMMA PopPublishSafe ==
    ASSUME NEW c, Consumers = {c}, IInv, PopPublish(c)
    PROVE  Safe'
<1>. DEFINE n == Len(accepted)
            r == Len(returned)
            m == Oldest
<1>1. /\ rpc[c] = "publish" /\ rpc' = [rpc EXCEPT ![c] = "unlock"] /\ rpc \in [Consumers -> PC]
      /\ m_ulTail' = m_ulReadTail /\ returned' = Append(returned, Decoded(rgot[c]))
      /\ rgot' = [rgot EXCEPT ![c] = <<>>] /\ rgot \in [Consumers -> Seq(Byte)]
      /\ UNCHANGED <<m_pDataBuf, m_ulHead, m_ulWriteHead, m_ulReadTail, pushing, rlen, rdone, accepted>>
  BY DEF PopPublish, PopGoto, IInv, TypeOK
<1>2. /\ r < n /\ Len(rgot[c]) = RecLen(m) /\ \A k \in 1 .. Len(rgot[c]) : rgot[c][k] = Record(m)[k]
      /\ PopOff(c) = RecLen(m) /\ rdone[c] \in Nat /\ rdone[c] <= rlen[c] /\ rlen[c] \in Nat
  BY <1>1 DEF IInv, TypeOK, Safe, Reading, Copying, PopOff
<1>3. /\ m \in Msgs /\ n \in Nat /\ r \in Nat /\ RecLen(m) \in Nat /\ AbsTail \in Nat /\ AbsHead \in Nat
      /\ accepted[r + 1].start = AbsTail /\ accepted[r + 1].msg = m
      /\ AbsHead - AbsTail <= Size /\ Size \in Nat
  BY <1>2, PendingEnds, RecordFacts, AcceptedType, AbsType, RingAssumption
     DEF IInv, Safe, Positions, Oldest
<1>4. Decoded(rgot[c]) = m
  BY <1>1, <1>2, <1>3, DecodedRecord
<1>5. /\ Len(returned') = r + 1 /\ returned'[r + 1] = m
      /\ \A i \in 1 .. r : returned'[i] = returned[i]
  BY <1>1, <1>4 DEF IInv, TypeOK
<1>6. AbsHead' = AbsHead
  BY <1>1 DEF AbsHead
<1>7. AbsTail' = AbsTail + RecLen(m)
  <2>1. CASE r + 1 < n
    <3>1. r + 1 \in 1 .. n - 1 /\ r + 1 + 1 = (r + 1) + 1
      BY <1>3, <2>1
    <3>2. accepted[(r + 1) + 1].start = accepted[r + 1].start + RecLen(accepted[r + 1].msg)
      BY <3>1 DEF IInv, Safe, Chained
    <3>. QED
      BY <1>1, <1>3, <1>5, <2>1, <3>2 DEF AbsTail
  <2>2. CASE r + 1 = n
    <3>1. accepted # <<>> /\ AbsHead = accepted[n].start + RecLen(accepted[n].msg)
      BY <1>2, <1>3, <2>2, AcceptedType DEF AbsHead, IInv
    <3>2. AbsTail' = AbsHead'
      BY <1>1, <1>3, <1>5, <2>2 DEF AbsTail
    <3>. QED
      BY <1>3, <1>6, <2>2, <3>1, <3>2
  <2>. QED
    BY <1>2, <1>3, <2>1, <2>2
<1>8. AbsTail + RecLen(m) <= AbsHead
  <2>1. r + 1 \in Pending
    BY <1>2, <1>3 DEF Pending
  <2>. QED
    BY <1>3, <2>1, PendingEnds DEF IInv, Safe
<1>. HIDE DEF n, r, m
<1>9. PopOff(c)' = 0
  BY <1>1 DEF PopOff
<1>10. \A p \in Producers : PushOff(p)' = PushOff(p)
  BY <1>1 DEF PushOff, pushing
<1>11. Positions'
  <2>1. Len(returned') <= Len(accepted') /\ AbsTail' <= AbsHead' /\ AbsHead' - AbsTail' <= Size
        /\ AbsTail' + 0 = AbsTail'
    BY <1>1, <1>2, <1>3, <1>5, <1>6, <1>7, <1>8 DEF n, r
  <2>2. m_ulReadTail = (AbsTail + RecLen(m)) % Modulus
    BY <1>2 DEF IInv, Safe, Positions
  <2>3. m_ulHead = AbsHead % Modulus /\ \A p \in Producers : m_ulWriteHead = (AbsHead + PushOff(p)) % Modulus
    BY DEF IInv, Safe, Positions
  <2>. QED
    BY <1>1, <1>6, <1>7, <1>9, <1>10, <2>1, <2>2, <2>3 DEF Positions
<1>12. PendingIntact'
  <2>1. Pending' \subseteq Pending /\ m_pDataBuf' = m_pDataBuf /\ accepted' = accepted
    BY <1>1, <1>3, <1>5 DEF Pending, r, n
  <2>. QED
    BY <2>1, Zenon DEF PendingIntact, RecLen, Record, IInv, Safe
<1>13. Writing'
  <2>1. \A x \in Nat : AbsHead - AbsTail + x <= Size => AbsHead' - AbsTail' + x <= Size
    BY <1>3, <1>6, <1>7
  <2>2. \A p \in Producers : wpc[p] \in Copying => RecLen(wmsg[p]) \in Nat
    BY RecordFacts DEF IInv, TypeOK, Copying
  <2>3. UNCHANGED <<wpc, wmsg, wdone>> /\ \A p \in Producers : PushPartLen(p)' = PushPartLen(p)
    BY <1>1 DEF pushing, PushPartLen
  <2>. QED
    BY <1>1, <1>6, <1>10, <2>1, <2>2, <2>3 DEF Writing, IInv, Safe, RecLen
<1>14. Reading'
  <2>1. rpc'[c] = "unlock" /\ rgot'[c] = <<>> /\ rdone'[c] = rdone[c] /\ rdone[c] = 0
    BY <1>1, <1>2 DEF IInv, Safe, Reading, Copying
  <2>. QED
    BY <2>1 DEF Reading, Copying
<1>15. Fifo'
  <2>1. \A i \in 1 .. r : returned[i] = accepted[i].msg
    BY DEF IInv, Safe, Fifo, r
  <2>2. r + 1 <= n /\ \A i \in 1 .. r + 1 : i = r + 1 \/ i \in 1 .. r
    BY <1>2, <1>3
  <2>. QED
    BY <1>1, <1>3, <1>5, <2>1, <2>2 DEF Fifo, n
<1>16. Chained'
  BY <1>1 DEF Chained, IInv, Safe
<1>. QED
  BY <1>11, <1>12, <1>13, <1>14, <1>15, <1>16 DEF Safe


\* Every step of one producer and one consumer keeps the invariant.
LEMMA NextSafe ==
    ASSUME SPSC, IInv, [Next]_vars
    PROVE  IInv'
<1>0. PICK p, c : Producers = {p} /\ Consumers = {c}
  BY Zenon DEF SPSC
<1>t. TypeOK' /\ TypeOK /\ Safe
  BY NextType, Zenon DEF IInv
<1>1. CASE (\E m \in Msgs : PushCall(p, m)) \/ PushTest(p) \/ PushLock(p) \/ PushReject(p) \/ PushUnlock(p)
  <2>1. UNCHANGED <<ring, popping, accepted, returned, wdone>>
    BY <1>1 DEF PushCall, PushTest, PushLock, PushReject, PushUnlock
  <2>2. wpc' \in [Producers -> PC]
    BY <1>t DEF TypeOK
  <2>3. wpc[p] \notin Copying /\ wpc'[p] \notin Copying
    BY <1>0, <1>1, <1>t
       DEF PushCall, PushTest, PushLock, PushReject, PushUnlock, PushGoto, TypeOK, Copying
  <2>. QED
    BY <1>0, <1>t, <2>1, <2>2, <2>3, PushControlSafe, Zenon DEF IInv
<1>2. CASE PushFits(p) \/ PushByte(p) \/ PushAdvance(p) \/ PushPublish(p)
  BY <1>0, <1>t, <1>2, PushFitsSafe, PushByteSafe, PushAdvanceSafe, PushPublishSafe, Zenon DEF IInv
<1>3. CASE PopCall(c) \/ PopTest(c) \/ PopLock(c) \/ PopNothing(c) \/ PopUnlock(c)
  <2>1. UNCHANGED <<ring, pushing, accepted, returned, rdone, rgot>>
    BY <1>3 DEF PopCall, PopTest, PopLock, PopNothing, PopUnlock
  <2>2. rpc[c] \notin Copying /\ rpc'[c] \notin Copying
    BY <1>0, <1>3, <1>t
       DEF PopCall, PopTest, PopLock, PopNothing, PopUnlock, PopGoto, TypeOK, Copying
  <2>. QED
    BY <1>0, <1>t, <2>1, <2>2, PopControlSafe, Zenon DEF IInv
<1>4. CASE PopSome(c) \/ PopByte(c) \/ PopHeader(c) \/ PopData(c) \/ PopPublish(c)
  BY <1>0, <1>t, <1>4, PopSomeSafe, PopByteSafe, PopHeaderSafe, PopDataSafe, PopPublishSafe, Zenon DEF IInv
<1>5. CASE UNCHANGED vars
  <2>1. UNCHANGED <<accepted, returned>> /\ UNCHANGED <<accepted, returned, pushing, m_pDataBuf>>
        /\ UNCHANGED <<accepted, returned, popping>> /\ UNCHANGED m_pDataBuf
        /\ UNCHANGED <<accepted, returned, m_ulHead, m_ulTail, m_ulWriteHead, m_ulReadTail>>
    BY <1>5 DEF vars, ring
  <2>2. Reading' /\ \A x \in Consumers : PopOff(x)' = PopOff(x)
    BY <1>t, <2>1, KeepReading, Zenon DEF Safe
  <2>3. Writing' /\ \A x \in Producers : PushOff(x)' = PushOff(x)
    BY <1>t, <2>1, KeepWriting, Zenon DEF Safe
  <2>4. Positions'
    BY <1>t, <2>1, <2>2, <2>3, KeepPositions, Zenon DEF Safe
  <2>5. Chained' /\ Fifo' /\ PendingIntact'
    BY <1>t, <2>1, KeepRecords, Zenon DEF Safe
  <2>. QED
    BY <1>t, <2>2, <2>3, <2>4, <2>5, Zenon DEF IInv, Safe
<1>6. CASE Next
  <2>1. (PushStep(p) \/ \E m \in Msgs : PushCall(p, m)) \/ PopStep(c)
    BY <1>0, <1>6, Zenon DEF Next
  <2>. QED
    BY <1>1, <1>2, <1>3, <1>4, <2>1, Zenon DEF PushStep, PopStep
<1>. QED
  BY <1>5, <1>6, Zenon

\* The invariant gives the properties of RingQueue.
LEMMA InvImplies ==
    ASSUME IInv
    PROVE  SpaceExact /\ PendingIntact /\ ReadsOldestRecord /\ Fifo
<1>1. SpaceExact
  BY SpaceFacts DEF IInv, Safe, SpaceExact, Positions
<1>2. ReadsOldestRecord
  <2>1. SUFFICES ASSUME NEW c \in Consumers, rpc[c] \in Copying
                 PROVE  /\ Len(returned) < Len(accepted)
                        /\ Len(rgot[c]) <= Len(Record(Oldest))
                        /\ \A k \in 1 .. Len(rgot[c]) : rgot[c][k] = Record(Oldest)[k]
                        /\ rpc[c] = "publish" => Len(rgot[c]) = Len(Record(Oldest))
    BY DEF ReadsOldestRecord, Copying, Oldest
  <2>2. /\ Len(returned) < Len(accepted)
        /\ rlen[c] = IF rpc[c] = "head" THEN HeadLen ELSE Length[Oldest]
        /\ rdone[c] <= rlen[c]
        /\ Len(rgot[c]) = IF rpc[c] = "publish" THEN RecLen(Oldest) ELSE PopOff(c) + rdone[c]
        /\ \A k \in 1 .. Len(rgot[c]) : rgot[c][k] = Record(Oldest)[k]
        /\ rdone[c] \in Nat /\ rpc[c] \in Copying
    BY <2>1 DEF IInv, TypeOK, Safe, Reading
  <2>3. /\ Len(Record(Oldest)) = HeadLen + Length[Oldest] /\ RecLen(Oldest) = HeadLen + Length[Oldest]
        /\ HeadLen \in Nat /\ Length[Oldest] \in Nat
    BY <2>2, PendingEnds, RecordFacts, RingAssumption DEF IInv, Safe
  <2>4. Len(rgot[c]) <= Len(Record(Oldest))
    BY <2>2, <2>3 DEF PopOff, Copying
  <2>. QED
    BY <2>2, <2>3, <2>4
<1>. QED
  BY <1>1, <1>2 DEF IInv, Safe

\* With one producer and one consumer, the invariant always holds.
THEOREM Invariance ==
    ASSUME SPSC
    PROVE  Spec => []IInv
<1>1. Init => IInv
  BY InitType, InitSafe DEF IInv
<1>2. IInv /\ [Next]_vars => IInv'
  BY NextSafe
<1>. QED
  BY <1>1, <1>2, PTL DEF Spec

\* RemainingSpace and Empty tell exactly how full the ring is, across every
\* wrap of the uint32_t positions, for every ring size and message length.
THEOREM SpaceIsExact ==
    ASSUME SPSC
    PROVE  Spec => []SpaceExact
BY Invariance, InvImplies, PTL

\* Push never overwrites a byte of a record that Pop has not handed back.
THEOREM PendingStaysIntact ==
    ASSUME SPSC
    PROVE  Spec => []PendingIntact
BY Invariance, InvImplies, PTL

\* A Pop under way only ever holds bytes of the oldest published record.
THEOREM PopReadsOldestRecord ==
    ASSUME SPSC
    PROVE  Spec => []ReadsOldestRecord
BY Invariance, InvImplies, PTL

\* Pop hands out exactly the messages Push accepted, in order, byte for byte.
THEOREM FifoDelivery ==
    ASSUME SPSC
    PROVE  Spec => []Fifo
BY Invariance, InvImplies, PTL

-----------------------------------------------------------------------------
\* The ring implements MsgQueue.

\* The messages in the ring, as a sequence.
LEMMA QueueFacts ==
    ASSUME TypeOK, Len(returned) <= Len(accepted)
    PROVE  /\ Queue \in Seq(Msgs)
           /\ Len(Queue) = Len(accepted) - Len(returned)
           /\ \A i \in 1 .. Len(accepted) - Len(returned) : Queue[i] = accepted[Len(returned) + i].msg
<1>. DEFINE n == Len(accepted) - Len(returned)
<1>1. n \in Nat /\ \A i \in 1 .. n : accepted[Len(returned) + i].msg \in Msgs
  <2>1. n \in Nat /\ \A i \in 1 .. n : Len(returned) + i \in 1 .. Len(accepted)
    BY AcceptedType
  <2>. QED
    BY <2>1, AcceptedType
<1>2. Queue = [i \in 1 .. n |-> accepted[Len(returned) + i].msg]
  BY DEF Queue
<1>. HIDE DEF n
<1>. QED
  BY <1>1, <1>2 DEF n

LEMMA PublishEnqueues ==
    ASSUME NEW p, Producers = {p}, IInv, TypeOK', Safe', PushPublish(p)
    PROVE  Abs!Push(wmsg[p])
<1>. DEFINE n == Len(accepted)
            r == Len(returned)
            m == wmsg[p]
<1>1. /\ m \in Msgs /\ accepted' = Append(accepted, [msg |-> m, start |-> AbsHead])
      /\ returned' = returned /\ n \in Nat /\ r \in Nat /\ r <= n
  BY AcceptedType DEF PushPublish, PushGoto, IInv, TypeOK, Safe, Positions
<1>2. /\ Len(accepted') = n + 1 /\ accepted'[n + 1].msg = m
      /\ \A i \in 1 .. n : accepted'[i] = accepted[i]
  BY <1>1 DEF IInv, TypeOK
<1>3. /\ Queue \in Seq(Msgs) /\ Len(Queue) = n - r
      /\ \A i \in 1 .. n - r : Queue[i] = accepted[r + i].msg
  BY <1>1, QueueFacts DEF IInv
<1>. DEFINE q == [i \in 1 .. (n + 1) - r |-> accepted'[r + i].msg]
<1>4. Queue' = q
  BY <1>1, <1>2 DEF Queue
<1>. HIDE DEF n, r, m
<1>5. q \in Seq(Msgs) /\ Len(q) = (n + 1) - r
  <2>1. (n + 1) - r \in Nat
    BY <1>1
  <2>2. \A i \in 1 .. (n + 1) - r : accepted'[r + i].msg \in Msgs
    <3>1. SUFFICES ASSUME NEW i \in 1 .. (n + 1) - r PROVE accepted'[r + i].msg \in Msgs
      OBVIOUS
    <3>2. CASE r + i = n + 1
      BY <1>1, <1>2, <3>2
    <3>3. CASE r + i # n + 1
      <4>1. r + i \in 1 .. n
        BY <1>1, <3>1, <3>3
      <4>. QED
        BY <1>2, <4>1, AcceptedType DEF IInv, n
    <3>. QED
      BY <3>2, <3>3
  <2>. QED
    BY <2>1, <2>2
<1>6. \A i \in 1 .. (n + 1) - r : q[i] = Append(Queue, m)[i]
  <2>1. SUFFICES ASSUME NEW i \in 1 .. (n + 1) - r PROVE accepted'[r + i].msg = Append(Queue, m)[i]
    OBVIOUS
  <2>2. CASE i = (n + 1) - r
    <3>1. r + i = n + 1 /\ i = Len(Queue) + 1
      BY <1>1, <1>3, <2>2
    <3>2. Append(Queue, m)[Len(Queue) + 1] = m
      BY <1>1, <1>3
    <3>. QED
      BY <1>2, <3>1, <3>2
  <2>3. CASE i # (n + 1) - r
    <3>1. r + i \in 1 .. n /\ i \in 1 .. n - r /\ i \in 1 .. Len(Queue)
      BY <1>1, <1>3, <2>1, <2>3
    <3>2. Append(Queue, m)[i] = Queue[i]
      BY <1>1, <1>3, <3>1
    <3>. QED
      BY <1>2, <1>3, <3>1, <3>2
  <2>. QED
    BY <2>2, <2>3
<1>7. Append(Queue, m) \in Seq(Msgs) /\ Len(Append(Queue, m)) = (n + 1) - r
  BY <1>1, <1>3
<1>. HIDE DEF q
<1>8. q = Append(Queue, m)
  BY <1>5, <1>6, <1>7, SeqEqual, Zenon
<1>. QED
  BY <1>1, <1>4, <1>8 DEF Abs!Push, m

LEMMA PublishDequeues ==
    ASSUME NEW c, Consumers = {c}, IInv, TypeOK', Safe', PopPublish(c)
    PROVE  Abs!Pop
<1>. DEFINE n == Len(accepted)
            r == Len(returned)
<1>1. /\ accepted' = accepted /\ n \in Nat /\ r \in Nat /\ r < n
      /\ returned' = Append(returned, Decoded(rgot[c]))
      /\ rpc[c] = "publish"
  BY AcceptedType DEF PopPublish, PopGoto, IInv, Safe, Reading, Copying
<1>2. Len(returned') = r + 1 /\ returned'[r + 1] = Decoded(rgot[c])
  BY <1>1 DEF IInv, TypeOK
<1>3. Decoded(rgot[c]) = accepted[r + 1].msg
  <2>1. returned'[r + 1] = accepted'[r + 1].msg
    BY <1>1, <1>2 DEF Safe, Fifo
  <2>. QED
    BY <1>1, <1>2, <2>1
<1>4. /\ Queue \in Seq(Msgs) /\ Len(Queue) = n - r
      /\ \A i \in 1 .. n - r : Queue[i] = accepted[r + i].msg
  BY <1>1, QueueFacts DEF IInv
<1>. DEFINE q == [i \in 1 .. n - (r + 1) |-> accepted[(r + 1) + i].msg]
<1>5. Queue' = q
  BY <1>1, <1>2 DEF Queue
<1>. HIDE DEF n, r
<1>6. Queue # <<>> /\ 1 \in 1 .. n - r /\ Head(Queue) = Queue[1]
  BY <1>1, <1>4
<1>7. /\ Tail(Queue) \in Seq(Msgs) /\ Len(Tail(Queue)) = Len(Queue) - 1
      /\ \A i \in 1 .. Len(Tail(Queue)) : Tail(Queue)[i] = Queue[i + 1]
  BY <1>4, <1>6, HeadTailProperties, Zenon
<1>8. q \in Seq(Msgs) /\ Len(q) = n - (r + 1)
  <2>1. \A i \in 1 .. n - (r + 1) : (r + 1) + i \in 1 .. n
    BY <1>1
  <2>2. \A i \in 1 .. n - (r + 1) : accepted[(r + 1) + i].msg \in Msgs
    BY <2>1, AcceptedType DEF IInv, n
  <2>3. n - (r + 1) \in Nat
    BY <1>1
  <2>. QED
    BY <2>2, <2>3
<1>9. \A i \in 1 .. Len(q) : q[i] = Tail(Queue)[i]
  <2>1. SUFFICES ASSUME NEW i \in 1 .. n - (r + 1) PROVE accepted[(r + 1) + i].msg = Tail(Queue)[i]
    BY <1>8
  <2>2. i + 1 \in 1 .. n - r /\ (r + 1) + i = r + (i + 1) /\ i \in 1 .. Len(Tail(Queue))
    BY <1>1, <1>4, <1>7, <2>1
  <2>. QED
    BY <1>4, <1>7, <2>2
<1>10. Len(q) = Len(Tail(Queue))
  BY <1>1, <1>4, <1>7, <1>8, SMTT(40)
<1>. HIDE DEF q
<1>11. q = Tail(Queue)
  BY <1>7, <1>8, <1>9, <1>10, SeqEqual, Zenon
<1>12. Queue[1] = accepted[r + 1].msg
  BY <1>4, <1>6
<1>. QED
  BY <1>1, <1>3, <1>5, <1>6, <1>11, <1>12, Zenon DEF Abs!Pop

\* With one producer and one consumer, the ring implements a FIFO of whole
\* messages: every step is a Push or Pop of MsgQueue, or changes neither the
\* messages it holds nor those handed out.
THEOREM RingImplementsQueue ==
    ASSUME SPSC
    PROVE  Spec => ImplementsQueue
<1>1. Init => Abs!Init
  <2>1. SUFFICES ASSUME Init PROVE Queue = <<>> /\ returned = <<>>
    BY DEF Abs!Init
  <2>2. Len(accepted) - Len(returned) = 0 /\ returned = <<>>
    BY <2>1 DEF Init
  <2>. QED
    BY <2>2 DEF Queue
<1>2. ASSUME IInv, IInv', [Next]_vars PROVE [Abs!Next]_<<Queue, returned>>
  <2>0. PICK p, c : Producers = {p} /\ Consumers = {c}
    BY Zenon DEF SPSC
  <2>t. TypeOK' /\ Safe' /\ wmsg \in [Producers -> Msgs \cup {NoMsg}]
    BY <1>2 DEF IInv, TypeOK
  <2>1. CASE PushPublish(p)
    <3>1. wmsg[p] \in Msgs
      BY <1>2, <2>0, <2>1 DEF IInv, TypeOK, PushPublish, PushGoto
    <3>. QED
      BY <1>2, <2>0, <2>1, <2>t, <3>1, PublishEnqueues, Zenon DEF Abs!Next
  <2>2. CASE PopPublish(c)
    BY <1>2, <2>0, <2>2, <2>t, PublishDequeues, Zenon DEF Abs!Next
  <2>3. CASE UNCHANGED <<accepted, returned>>
    BY <2>3 DEF Queue
  <2>4. CASE Next
    <3>1. (PushStep(p) \/ \E m \in Msgs : PushCall(p, m)) \/ PopStep(c)
      BY <2>0, <2>4, Zenon DEF Next
    <3>2. PushPublish(p) \/ PopPublish(c) \/ UNCHANGED <<accepted, returned>>
      BY <3>1 DEF PushStep, PopStep, PushCall, PushTest, PushLock, PushReject, PushFits, PushByte,
                  PushAdvance, PushUnlock, PopCall, PopTest, PopLock, PopNothing, PopSome, PopByte,
                  PopHeader, PopData, PopUnlock
    <3>. QED
      BY <2>1, <2>2, <2>3, <3>2
  <2>5. CASE UNCHANGED vars
    BY <2>3, <2>5 DEF vars
  <2>. QED
    BY <1>2, <2>4, <2>5
<1>. QED
  BY <1>1, <1>2, Invariance, PTL DEF Spec, ImplementsQueue, Abs!Spec, Abs!qvars
=============================================================================
