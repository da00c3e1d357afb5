----------------------------- MODULE KcpRecv_proofs -----------------------------
(* For every window, every length of messages and every modulus of the sequence    *)
(* numbers: ikcp_recv hands out the messages of the peer, each whole, once and in    *)
(* order; and so it does under the receive loop of the net thread (RecvLoop), which  *)
(* hands on those of a good length and is never left again.                          *)
EXTENDS RecvLoop, WrapArith, SequenceTheorems, FiniteSetTheorems, WellFoundedInduction, TLAPS

\* Position p of the stream is where the n-th message begins, or will begin.
Begins(p, n) ==
    IF p <= Len(stream) THEN stream[p].msg = n /\ stream[p].frg = FragCount(sent[n]) - 1
                        ELSE n = Len(sent) + 1

\* From position p on the rest of a message follows.
Continues(p) ==
    /\ p + stream[p].frg <= Len(stream)
    /\ \A k \in 0 .. stream[p].frg :
          /\ stream[p + k].msg = stream[p].msg
          /\ stream[p + k].frg = stream[p].frg - k

\* The segment at position p of the stream is numbered and is a part of a message.
Sound(p) ==
    /\ stream[p].sn = (p - 1) % SnMod
    /\ stream[p].msg \in 1 .. Len(sent)
    /\ stream[p].frg < FragCount(sent[stream[p].msg])
    /\ Continues(p)
    /\ stream[p].frg = 0 => Begins(p + 1, stream[p].msg + 1)

\* The stream is the messages, cut up and numbered.
StreamInv ==
    /\ \A n \in 1 .. Len(sent) : FragCount(sent[n]) < IKCP_WND_RCV
    /\ \A p \in 1 .. Len(stream) : Sound(p)
    /\ Begins(1, 1)

\* The segments of queue are the last ones taken.
LastTaken(queue) ==
    /\ Len(queue) <= taken
    /\ \A k \in 1 .. Len(queue) : queue[k] = stream[taken - Len(queue) + k]

\* rcv_queue is the stream from a message's beginning to rcv_nxt.
QueueInv ==
    /\ rcv_nxt = taken % SnMod
    /\ taken <= Len(stream)
    /\ LastTaken(rcv_queue)
    /\ Begins(taken - Len(rcv_queue) + 1, Len(delivered) + 1)

\* The positions that may wait in rcv_buf.
Ahead == taken + 1 .. taken + rcv_wnd

\* The segments of buf are those at the positions pos of the stream, in order.
HeldAt(buf, pos) ==
    /\ \A i \in 1 .. Len(buf) : pos[i] <= Len(stream) /\ buf[i] = stream[pos[i]]
    /\ \A i, j \in 1 .. Len(buf) : i <= j => j - i <= pos[j] - pos[i]

BufInv == \E pos \in [1 .. Len(rcv_buf) -> Ahead] : HeldAt(rcv_buf, pos)

\* What was handed out is what was sent.
DeliveredInv ==
    /\ Len(delivered) <= Len(sent)
    /\ \A n \in 1 .. Len(delivered) : delivered[n] = sent[n]

\* The inductive invariant.
IInv == TypeOK /\ StreamInv /\ QueueInv /\ BufInv /\ DeliveredInv
-------------------------------------------------------------------------------
\* Smallest and largest elements.

LEMMA Smallest ==
    ASSUME NEW S \in SUBSET Nat, S # {}
    PROVE  \E x \in S : \A y \in S : x <= y
<1>1. PICK x \in S : \A y \in S : ~ (<<y, x>> \in OpToRel(<, Nat))
  BY NatLessThanWellFounded, WFMin, Zenon
<1>2. \A y \in S : ~ (y < x)
  BY <1>1 DEF OpToRel
<1>. QED
  BY <1>2

LEMMA Largest ==
    ASSUME NEW N \in Nat, NEW S \in SUBSET (0 .. N), S # {}
    PROVE  \E x \in S : \A y \in S : x >= y
<1> DEFINE T == {N - x : x \in S}
<1>1. T \in SUBSET Nat /\ T # {}
  <2>1. \A x \in S : N - x \in Nat
    OBVIOUS
  <2>. QED
    BY <2>1, Zenon
<1>2. PICK t \in T : \A y \in T : t <= y
  BY <1>1, Smallest, Zenon
<1>3. PICK x \in S : t = N - x
  BY <1>2
<1>4. \A y \in S : N - x <= N - y
  BY <1>2, <1>3
<1>. QED
  BY <1>4

LEMMA MinFacts ==
    ASSUME NEW S \in SUBSET Nat, S # {}
    PROVE  Min(S) \in S /\ \A y \in S : Min(S) <= y
BY Smallest, Zenon DEF Min

LEMMA MaxFacts ==
    ASSUME NEW N \in Nat, NEW S \in SUBSET (0 .. N), S # {}
    PROVE  Max(S) \in S /\ \A y \in S : Max(S) >= y
BY Largest, Zenon DEF Max
-------------------------------------------------------------------------------
\* Sequence numbers.

\* A wrapped number and half its modulus.
LEMMA HalfMod ==
    ASSUME SnMod > 0
    PROVE  /\ SnMod \in Nat \ {0} /\ SnMod \div 2 \in Nat
           /\ SnMod = 2 * (SnMod \div 2)
BY KcpAssumption, SMT

\* The signed difference of numbers that are less than half the modulus apart is
\* their distance.
LEMMA DiffExact ==
    ASSUME SnMod > 0, NEW a \in Nat, NEW b \in Nat,
           -(SnMod \div 2) <= a - b, a - b < SnMod \div 2
    PROVE  itimediff(a % SnMod, b % SnMod) = a - b
<1> DEFINE d == SnMod
           h == SnMod \div 2
           e == a % d
           f == b % d
<1>1. d \in Nat \ {0} /\ h \in Nat /\ d = 2 * h
  BY HalfMod, Zenon
<1>2. PICK x \in Int : Multiple(x, d) /\ e \in 0 .. d - 1 /\ a = x + e
  BY <1>1, DivMod, a \in Int
<1>3. PICK y \in Int : Multiple(y, d) /\ f \in 0 .. d - 1 /\ b = y + f
  BY <1>1, DivMod, b \in Int
<1>4. itimediff(e, f) = IF (e - f) % d < h THEN (e - f) % d ELSE ((e - f) % d) - d
  BY Zenon DEF itimediff
<1>5. -h <= a - b /\ a - b < h
  OBVIOUS
<1> HIDE DEF d, h, e, f
<1>6. Multiple(y - x, d) /\ Multiple((y - x) - d, d)
  <2>1. Multiple(d, d)
    BY <1>1 DEF Multiple
  <2>2. Multiple(y - x, d) /\ y - x \in Int
    BY <1>1, <1>2, <1>3, MultipleSum
  <2>. QED
    BY <1>1, <2>1, <2>2, MultipleSum
<1>7. CASE a - b >= 0
  <2>1. a - b \in 0 .. d - 1 /\ y - x \in Int /\ e - f = (y - x) + (a - b)
    BY <1>1, <1>2, <1>3, <1>5, <1>7
  <2>2. (e - f) % d = a - b
    BY <1>1, <1>6, <2>1, ModUnique, Zenon
  <2>. QED
    BY <1>4, <1>5, <2>2 DEF e, f, d
<1>8. CASE a - b < 0
  <2>1. /\ (a - b) + d \in 0 .. d - 1 /\ (y - x) - d \in Int
        /\ e - f = ((y - x) - d) + ((a - b) + d)
    BY <1>1, <1>2, <1>3, <1>5, <1>8
  <2>2. (e - f) % d = (a - b) + d
    BY <1>1, <1>6, <2>1, ModUnique, Zenon
  <2>3. ~ ((a - b) + d < h) /\ ((a - b) + d) - d = a - b
    BY <1>1, <1>5
  <2>. QED
    BY <1>4, <2>2, <2>3 DEF e, f, d
<1>. QED
  BY <1>7, <1>8
-------------------------------------------------------------------------------
\* The constants, windows and fragments.

\* What the constants say of the windows of a behaviour.
LEMMA WindowFacts ==
    ASSUME [snd |-> snd_wnd, rcv |-> rcv_wnd] \in Windows
    PROVE  /\ snd_wnd \in Nat \ {0} /\ rcv_wnd \in Nat \ {0}
           /\ IKCP_WND_RCV <= rcv_wnd + 1
           /\ 2 * snd_wnd <= SnMod /\ 2 * rcv_wnd <= SnMod
           /\ SnMod > 0 /\ SnMod \in Nat
           /\ snd_wnd <= SnMod \div 2 /\ rcv_wnd <= SnMod \div 2
<1> DEFINE w == [snd |-> snd_wnd, rcv |-> rcv_wnd]
<1>1. w \in [snd : Nat \ {0}, rcv : Nat \ {0}]
  BY KcpAssumption
<1>2. snd_wnd \in Nat \ {0} /\ rcv_wnd \in Nat \ {0}
  BY <1>1
<1>3. /\ IKCP_WND_RCV <= rcv_wnd + 1
      /\ 2 * snd_wnd <= SnMod /\ 2 * rcv_wnd <= SnMod
  BY KcpAssumption
<1>4. SnMod \in Nat /\ SnMod > 0
  BY <1>2, <1>3, KcpAssumption
<1>5. SnMod = 2 * (SnMod \div 2) /\ SnMod \div 2 \in Nat
  BY <1>4, HalfMod
<1>. QED
  BY <1>2, <1>3, <1>4, <1>5

\* A message has at least one segment.
LEMMA FragCountType ==
    ASSUME NEW m \in Msgs
    PROVE  FragCount(m) \in Nat \ {0}
<1> DEFINE n == Length[m] + mss - 1
<1>1. Length[m] \in Nat /\ mss \in Nat \ {0}
  BY KcpAssumption
<1>2. CASE Length[m] <= mss
  BY <1>2 DEF FragCount
<1>3. CASE ~ (Length[m] <= mss)
  <2>1. n \in Int /\ n >= mss
    BY <1>1, <1>3
  <2>2. n \div mss \in Int /\ n % mss \in 0 .. mss - 1 /\ n = mss * (n \div mss) + (n % mss)
    BY <1>1, <2>1, SMT
  <2>3. n \div mss >= 1
    <3>1. SUFFICES ASSUME 0 - (n \div mss) \in Nat PROVE FALSE
      BY <2>2
    <3>2. mss * (0 - (n \div mss)) >= 0
      BY <1>1, <3>1, SMT
    <3>. QED
      BY <1>1, <2>1, <2>2, <3>2, SMT
  <2>. QED
    BY <1>3, <2>2, <2>3 DEF FragCount
<1>. QED
  BY <1>2, <1>3

\* The segments of a message: numbered, and counted down to 0.
LEMMA FragmentsFacts ==
    ASSUME NEW m \in Msgs, NEW n \in Nat \ {0}, NEW p \in Nat, SnMod > 0
    PROVE  /\ Fragments(m, n, p) \in Seq(Segment)
           /\ Len(Fragments(m, n, p)) = FragCount(m)
           /\ \A k \in 1 .. FragCount(m) :
                 Fragments(m, n, p)[k] = [sn |-> (p + k - 1) % SnMod, frg |-> FragCount(m) - k, msg |-> n]
<1>1. FragCount(m) \in Nat \ {0}
  BY FragCountType
<1>2. \A k \in 1 .. FragCount(m) :
         [sn |-> (p + k - 1) % SnMod, frg |-> FragCount(m) - k, msg |-> n] \in Segment
  <2>1. TAKE k \in 1 .. FragCount(m)
  <2>2. p + k - 1 \in Nat /\ FragCount(m) - k \in Nat
    BY <1>1
  <2>3. (p + k - 1) % SnMod \in 0 .. SnMod - 1
    BY <2>2, KcpAssumption, SnMod > 0
  <2>. QED
    BY <2>2, <2>3 DEF Segment
<1>. QED
  BY <1>1, <1>2 DEF Fragments
-------------------------------------------------------------------------------
\* Moving segments and handing out messages.

\* What is moved to rcv_queue is at the front of the buffer and numbered from rcv_nxt on.
LEMMA AvailableFacts ==
    ASSUME NEW buf \in Seq(Segment), NEW queue \in Seq(Segment)
    PROVE  /\ Available(buf, queue) \in 0 .. Len(buf)
           /\ \A j \in 1 .. Available(buf, queue) : buf[j].sn = (rcv_nxt + j - 1) % SnMod
<1> DEFINE S == {n \in 0 .. Len(buf) :
                   /\ n = 0 \/ Len(queue) + n <= rcv_wnd
                   /\ \A j \in 1 .. n : buf[j].sn = (rcv_nxt + j - 1) % SnMod}
<1>1. Len(buf) \in Nat
  OBVIOUS
<1>2. S \in SUBSET (0 .. Len(buf)) /\ S # {}
  <2>1. 0 \in S
    BY <1>1
  <2>. QED
    BY <2>1
<1>3. Max(S) \in S
  BY <1>1, <1>2, MaxFacts, Zenon
<1>. QED
  BY <1>3, Zenon DEF Available

\* And it is all of that for which there is room.
LEMMA AvailableAll ==
    ASSUME NEW buf \in Seq(Segment), NEW queue \in Seq(Segment)
    PROVE  /\ Available(buf, queue) = 0 \/ Len(queue) + Available(buf, queue) <= rcv_wnd
           /\ \A n \in 1 .. Len(buf) :
                 /\ Len(queue) + n <= rcv_wnd
                 /\ \A j \in 1 .. n : buf[j].sn = (rcv_nxt + j - 1) % SnMod
                 => n <= Available(buf, queue)
<1> DEFINE S == {n \in 0 .. Len(buf) :
                   /\ n = 0 \/ Len(queue) + n <= rcv_wnd
                   /\ \A j \in 1 .. n : buf[j].sn = (rcv_nxt + j - 1) % SnMod}
<1>1. Len(buf) \in Nat
  OBVIOUS
<1>2. S \in SUBSET (0 .. Len(buf)) /\ S # {}
  <2>1. 0 \in S
    BY <1>1
  <2>. QED
    BY <2>1
<1>3. Max(S) \in S /\ \A y \in S : Max(S) >= y
  BY <1>1, <1>2, MaxFacts, Zenon
<1>4. Available(buf, queue) = Max(S)
  BY Zenon DEF Available
<1>5. ASSUME NEW n \in 1 .. Len(buf), Len(queue) + n <= rcv_wnd,
             \A j \in 1 .. n : buf[j].sn = (rcv_nxt + j - 1) % SnMod
      PROVE  n <= Available(buf, queue)
  <2>1. n \in 0 .. Len(buf)
    BY <1>1
  <2>2. n \in S
    BY <1>5, <2>1, Zenon
  <2>3. Max(S) >= n /\ Max(S) \in 0 .. Len(buf)
    BY <1>3, <2>2, Zenon
  <2>. QED
    BY <1>1, <1>4, <2>3
<1>6. Available(buf, queue) = 0 \/ Len(queue) + Available(buf, queue) <= rcv_wnd
  BY <1>3, <1>4, Zenon
<1>. QED
  BY <1>5, <1>6, Zenon

\* What MoveAvailable leaves in rcv_buf waits for a place in rcv_queue, or for a segment
\* before it.
LEMMA MovesAll ==
    ASSUME NEW buf \in Seq(Segment), NEW queue \in Seq(Segment), rcv_nxt \in Nat, SnMod \in Nat \ {0},
           rcv_wnd \in Nat, rcv_wnd' = rcv_wnd, Len(queue) <= rcv_wnd, MoveAvailable(buf, queue)
    PROVE  /\ Len(rcv_queue') <= rcv_wnd'
           /\ rcv_buf' # <<>> /\ rcv_buf'[1].sn = rcv_nxt' => Len(rcv_queue') = rcv_wnd'
<1>1. PICK n \in 0 .. Len(buf) : n = Available(buf, queue)
  BY AvailableFacts
<1>2. Len(buf) \in Nat /\ Len(queue) \in Nat /\ n \in Nat /\ n <= Len(buf)
  BY <1>1
<1>3. \A j \in 1 .. n : buf[j].sn = (rcv_nxt + j - 1) % SnMod
  BY <1>1, AvailableFacts, Zenon
<1>4. /\ n = 0 \/ Len(queue) + n <= rcv_wnd
      /\ \A k \in 1 .. Len(buf) :
            /\ Len(queue) + k <= rcv_wnd
            /\ \A j \in 1 .. k : buf[j].sn = (rcv_nxt + j - 1) % SnMod
            => k <= n
  BY <1>1, AvailableAll, Zenon
<1>5. /\ rcv_queue' = queue \o SubSeq(buf, 1, n) /\ rcv_buf' = SubSeq(buf, n + 1, Len(buf))
      /\ rcv_nxt' = (rcv_nxt + n) % SnMod
  BY <1>1, Zenon DEF MoveAvailable
<1>6. Len(rcv_queue') = Len(queue) + n
  <2>1. SubSeq(buf, 1, n) \in Seq(Segment) /\ Len(SubSeq(buf, 1, n)) = n
    BY <1>2
  <2>. QED
    BY <1>5, <2>1, ConcatProperties
<1>7. Len(rcv_queue') <= rcv_wnd
  BY <1>2, <1>4, <1>6
<1>8. ASSUME rcv_buf' # <<>>, rcv_buf'[1].sn = rcv_nxt', Len(queue) + n < rcv_wnd PROVE FALSE
  <2>1. n + 1 <= Len(buf) /\ rcv_buf'[1] = buf[n + 1]
    BY <1>2, <1>5, <1>8
  <2>2. n + 1 \in 1 .. Len(buf) /\ Len(queue) + (n + 1) <= rcv_wnd /\ ~ (n + 1 <= n)
    BY <1>2, <1>8, <2>1
  <2>3. buf[n + 1].sn = (rcv_nxt + (n + 1) - 1) % SnMod
    <3>1. (rcv_nxt + (n + 1)) - 1 = rcv_nxt + n
      BY <1>2
    <3>. QED
      BY <1>5, <1>8, <2>1, <3>1
  <2>4. \A j \in 1 .. n + 1 : j \in 1 .. n \/ j = n + 1
    BY <1>2
  <2>5. \A j \in 1 .. n + 1 : buf[j].sn = (rcv_nxt + j - 1) % SnMod
    BY <1>3, <2>3, <2>4, Zenon
  <2>. QED
    BY <1>4, <2>2, <2>5, Zenon
<1>9. rcv_buf' # <<>> /\ rcv_buf'[1].sn = rcv_nxt' => Len(rcv_queue') = rcv_wnd
  <2>1. Len(rcv_queue') < rcv_wnd \/ Len(rcv_queue') = rcv_wnd
    BY <1>2, <1>6, <1>7
  <2>. QED
    BY <1>6, <1>8, <2>1
<1>. QED
  BY <1>7, <1>9

\* What MoveAvailable does to the receiver, place by place.
LEMMA MoveFacts ==
    ASSUME NEW buf \in Seq(Segment), NEW queue \in Seq(Segment), taken \in Nat,
           rcv_nxt \in Nat, SnMod > 0, MoveAvailable(buf, queue)
    PROVE  \E n \in 0 .. Len(buf) :
              /\ \A j \in 1 .. n : buf[j].sn = (rcv_nxt + j - 1) % SnMod
              /\ rcv_queue' \in Seq(Segment) /\ Len(rcv_queue') = Len(queue) + n
              /\ \A k \in 1 .. Len(queue) : rcv_queue'[k] = queue[k]
              /\ \A k \in 1 .. n : rcv_queue'[Len(queue) + k] = buf[k]
              /\ rcv_buf' \in Seq(Segment) /\ Len(rcv_buf') = Len(buf) - n
              /\ \A i \in 1 .. Len(buf) - n : rcv_buf'[i] = buf[i + n]
              /\ rcv_nxt' = (rcv_nxt + n) % SnMod /\ rcv_nxt' \in 0 .. SnMod - 1
              /\ taken' = taken + n /\ taken' \in Nat
<1> DEFINE n == Available(buf, queue)
           front == SubSeq(buf, 1, n)
           rest == SubSeq(buf, n + 1, Len(buf))
<1>1. n \in 0 .. Len(buf) /\ Len(buf) \in Nat /\ Len(queue) \in Nat
  BY AvailableFacts
<1>2. \A j \in 1 .. n : buf[j].sn = (rcv_nxt + j - 1) % SnMod
  BY AvailableFacts, Zenon
<1>3. rcv_queue' = queue \o front /\ rcv_buf' = rest
  BY Zenon DEF MoveAvailable
<1>4. rcv_nxt' = (rcv_nxt + n) % SnMod /\ taken' = taken + n
  BY Zenon DEF MoveAvailable
<1> HIDE DEF n
<1>5. front \in Seq(Segment) /\ Len(front) = n /\ \A k \in 1 .. n : front[k] = buf[k]
  BY <1>1
<1>6. /\ rest \in Seq(Segment) /\ Len(rest) = Len(buf) - n
      /\ \A i \in 1 .. Len(buf) - n : rest[i] = buf[i + n]
  BY <1>1
<1> HIDE DEF front, rest
<1>7. /\ rcv_queue' \in Seq(Segment) /\ Len(rcv_queue') = Len(queue) + n
      /\ \A k \in 1 .. Len(queue) : rcv_queue'[k] = queue[k]
      /\ \A k \in 1 .. n : rcv_queue'[Len(queue) + k] = front[k]
  <2>1. /\ queue \o front \in Seq(Segment) /\ Len(queue \o front) = Len(queue) + Len(front)
        /\ \A i \in 1 .. Len(queue) + Len(front) :
              (queue \o front)[i] = IF i <= Len(queue) THEN queue[i] ELSE front[i - Len(queue)]
    BY <1>5, ConcatProperties
  <2>2. \A k \in 1 .. n : /\ Len(queue) + k \in 1 .. Len(queue) + n /\ ~ (Len(queue) + k <= Len(queue))
                          /\ (Len(queue) + k) - Len(queue) = k
    BY <1>1
  <2>. QED
    BY <1>1, <1>3, <1>5, <2>1, <2>2
<1>8. rcv_nxt' \in 0 .. SnMod - 1 /\ taken' \in Nat
  BY <1>1, <1>4, KcpAssumption
<1>. QED
  BY <1>1, <1>2, <1>3, <1>4, <1>5, <1>6, <1>7, <1>8

\* MoveAvailable keeps to the stream.
LEMMA MoveKeeps ==
    ASSUME TypeOK, StreamInv, QueueInv, UNCHANGED <<sender, windows>>,
           NEW buf \in Seq(Segment), NEW queue \in Seq(Segment), LastTaken(queue),
           NEW pos \in [1 .. Len(buf) -> Ahead], HeldAt(buf, pos),
           MoveAvailable(buf, queue)
    PROVE  /\ rcv_nxt' = (taken % SnMod)'
           /\ taken' <= Len(stream)
           /\ LastTaken(rcv_queue)'
           /\ taken' - Len(rcv_queue') = taken - Len(queue)
           /\ BufInv'
           /\ rcv_nxt' \in 0 .. SnMod - 1 /\ taken' \in Nat
           /\ rcv_buf' \in Seq(Segment) /\ rcv_queue' \in Seq(Segment)
<1>1. /\ taken \in Nat /\ rcv_nxt \in Nat /\ rcv_wnd \in Nat \ {0}
      /\ SnMod \in Nat \ {0} /\ rcv_wnd <= SnMod \div 2 /\ 2 * rcv_wnd <= SnMod
  <2>1. taken \in Nat /\ rcv_nxt \in 0 .. SnMod - 1
    BY DEF TypeOK
  <2>. QED
    BY <2>1, WindowFacts DEF TypeOK
<1>2. PICK n \in 0 .. Len(buf) :
              /\ \A j \in 1 .. n : buf[j].sn = (rcv_nxt + j - 1) % SnMod
              /\ rcv_queue' \in Seq(Segment) /\ Len(rcv_queue') = Len(queue) + n
              /\ \A k \in 1 .. Len(queue) : rcv_queue'[k] = queue[k]
              /\ \A k \in 1 .. n : rcv_queue'[Len(queue) + k] = buf[k]
              /\ rcv_buf' \in Seq(Segment) /\ Len(rcv_buf') = Len(buf) - n
              /\ \A i \in 1 .. Len(buf) - n : rcv_buf'[i] = buf[i + n]
              /\ rcv_nxt' = (rcv_nxt + n) % SnMod /\ rcv_nxt' \in 0 .. SnMod - 1
              /\ taken' = taken + n /\ taken' \in Nat
  <2>1. taken \in Nat /\ rcv_nxt \in Nat /\ SnMod > 0
    BY <1>1
  <2>. QED
    BY <2>1, MoveFacts
<1>3. Len(buf) \in Nat /\ Len(queue) \in Nat /\ n \in Nat /\ n <= Len(buf) /\ taken' = taken + n
  BY <1>2
<1>4. \A i \in 1 .. Len(buf) : pos[i] \in Nat /\ taken + 1 <= pos[i] /\ pos[i] <= taken + rcv_wnd
  BY <1>1 DEF Ahead
<1>5. \A i \in 1 .. Len(buf) : taken + i <= pos[i]
  <2>1. TAKE i \in 1 .. Len(buf)
  <2>2. 1 \in 1 .. Len(buf) /\ i - 1 <= pos[i] - pos[1]
    BY <1>3 DEF HeldAt
  <2>. QED
    BY <1>1, <1>3, <1>4, <2>2
<1>6. \A j \in 1 .. n : pos[j] = taken + j
  <2>1. SUFFICES ASSUME NEW j \in 1 .. n PROVE pos[j] = taken + j
    OBVIOUS
  <2>2. j \in 1 .. Len(buf) /\ pos[j] \in Nat /\ taken + j <= pos[j] /\ pos[j] <= taken + rcv_wnd
    BY <1>2, <1>3, <1>4, <1>5
  <2>3. buf[j].sn = (pos[j] - 1) % SnMod
    <3>1. pos[j] <= Len(stream) /\ buf[j] = stream[pos[j]] /\ pos[j] >= 1
      BY <1>1, <2>2, SMTT(30) DEF HeldAt
    <3>2. pos[j] \in 1 .. Len(stream)
      BY <2>2, <3>1 DEF TypeOK
    <3>. QED
      BY <3>1, <3>2 DEF StreamInv, Sound
  <2>4. buf[j].sn = (taken + (j - 1)) % SnMod
    <3>1. buf[j].sn = ((taken % SnMod) + (j - 1)) % SnMod
      BY <1>2 DEF QueueInv
    <3>2. j - 1 \in Nat
      OBVIOUS
    <3>. QED
      BY <1>1, <3>1, <3>2, ModAdd
  <2>5. SUFFICES ASSUME pos[j] # taken + j PROVE FALSE
    OBVIOUS
  <2>6. /\ pos[j] - 1 \in Nat /\ taken + (j - 1) \in Nat /\ pos[j] - 1 # taken + (j - 1)
        /\ (pos[j] - 1) - (taken + (j - 1)) < SnMod
        /\ (taken + (j - 1)) - (pos[j] - 1) < SnMod
    BY <1>1, <1>3, <2>2, <2>5, SMTT(30)
  <2>. QED
    BY <1>1, <2>3, <2>4, <2>6, ModDistinct, Zenon
<1>7. \A j \in 1 .. n : buf[j] = stream[taken + j] /\ taken + j <= Len(stream)
  BY <1>2, <1>3, <1>6, SMTT(30) DEF HeldAt
<1>8. stream' = stream /\ rcv_wnd' = rcv_wnd /\ Len(stream) \in Nat /\ taken <= Len(stream)
  BY DEF sender, windows, TypeOK, QueueInv
<1>9. rcv_nxt' = (taken % SnMod)'
  <2>1. rcv_nxt' = ((taken % SnMod) + n) % SnMod /\ n \in Nat
    BY <1>2, <1>3 DEF QueueInv
  <2>. QED
    BY <1>1, <1>2, <2>1, ModAdd
<1>10. taken' <= Len(stream)
  <2>1. CASE n = 0
    BY <1>1, <1>2, <1>8, <2>1
  <2>2. CASE n # 0
    BY <1>1, <1>2, <1>3, <1>7, <2>2
  <2>. QED
    BY <2>1, <2>2
<1>11. taken' - Len(rcv_queue') = taken - Len(queue)
  BY <1>1, <1>2, <1>3
<1>12. LastTaken(rcv_queue)'
  <2>1. Len(queue) <= taken /\ \A k \in 1 .. Len(queue) : queue[k] = stream[taken - Len(queue) + k]
    BY DEF LastTaken
  <2>2. Len(rcv_queue') <= taken'
    BY <1>1, <1>2, <1>3, <2>1
  <2>3. ASSUME NEW k \in 1 .. Len(rcv_queue')
        PROVE  rcv_queue'[k] = stream[taken - Len(queue) + k]
    <3>1. CASE k <= Len(queue)
      BY <1>2, <1>3, <2>1, <3>1, SMTT(30)
    <3>2. CASE ~ (k <= Len(queue))
      <4>1. k - Len(queue) \in 1 .. n /\ Len(queue) + (k - Len(queue)) = k
        BY <1>2, <1>3, <3>2
      <4>2. rcv_queue'[k] = buf[k - Len(queue)]
        BY <1>2, <4>1
      <4>3. taken + (k - Len(queue)) = taken - Len(queue) + k
        BY <1>1, <1>3, <4>1
      <4>. QED
        BY <1>7, <4>1, <4>2, <4>3
    <3>. QED
      BY <3>1, <3>2
  <2>. QED
    BY <1>8, <1>11, <2>2, <2>3 DEF LastTaken
<1>13. BufInv'
  <2> DEFINE q == [i \in 1 .. Len(buf) - n |-> pos[i + n]]
  <2>1. \A i \in 1 .. Len(buf) - n : /\ i + n \in 1 .. Len(buf)
                                     /\ q[i] = pos[i + n] /\ q[i] \in taken' + 1 .. taken' + rcv_wnd
    <3>1. TAKE i \in 1 .. Len(buf) - n
    <3>2. i + n \in 1 .. Len(buf)
      BY <1>2, <1>3
    <3>3. taken + (i + n) <= pos[i + n] /\ pos[i + n] \in Nat /\ pos[i + n] <= taken + rcv_wnd
      BY <1>4, <1>5, <3>2
    <3>4. pos[i + n] \in taken' + 1 .. taken' + rcv_wnd
      <4>1. taken + n + 1 <= taken + (i + n)
        BY <1>1, <1>3
      <4>. QED
        BY <1>1, <1>3, <3>3, <4>1
    <3>. QED
      BY <3>2, <3>4
  <2>2. q \in [1 .. Len(rcv_buf') -> Ahead']
    BY <1>2, <1>8, <2>1 DEF Ahead
  <2>3. \A i \in 1 .. Len(rcv_buf') : q[i] <= Len(stream) /\ rcv_buf'[i] = stream[q[i]]
    <3>1. TAKE i \in 1 .. Len(rcv_buf')
    <3>2. i + n \in 1 .. Len(buf) /\ q[i] = pos[i + n] /\ rcv_buf'[i] = buf[i + n]
      BY <1>2, <2>1
    <3>. QED
      BY <3>2 DEF HeldAt
  <2>4. \A i, j \in 1 .. Len(rcv_buf') : i <= j => j - i <= q[j] - q[i]
    <3>1. TAKE i, j \in 1 .. Len(rcv_buf')
    <3>2. HAVE i <= j
    <3>3. /\ i + n \in 1 .. Len(buf) /\ q[i] = pos[i + n]
          /\ j + n \in 1 .. Len(buf) /\ q[j] = pos[j + n]
      BY <1>2, <2>1
    <3>4. (j + n) - (i + n) <= pos[j + n] - pos[i + n]
      BY <1>2, <3>2, <3>3 DEF HeldAt
    <3>. QED
      BY <1>2, <1>3, <3>3, <3>4
  <2>5. HeldAt(rcv_buf, q)'
    BY <1>8, <2>3, <2>4 DEF HeldAt
  <2>. QED
    BY <2>2, <2>5, Zenon DEF BufInv
<1>. QED
  BY <1>2, <1>9, <1>10, <1>11, <1>12, <1>13
-------------------------------------------------------------------------------
\* A segment arrives.

\* A segment that is due and inside the window is one of those that may wait.
LEMMA InWindowAhead ==
    ASSUME TypeOK, StreamInv, QueueInv, NEW p \in 1 .. Len(stream),
           taken - (SnMod \div 2) < p, p <= taken + rcv_wnd + snd_wnd, InWindow(stream[p].sn)
    PROVE  p \in Ahead
<1> DEFINE h == SnMod \div 2
<1>1. /\ taken \in Nat /\ rcv_wnd \in Nat \ {0} /\ snd_wnd \in Nat \ {0}
      /\ SnMod \in Nat \ {0} /\ rcv_wnd <= h /\ snd_wnd <= h /\ h \in Nat
  <2>1. taken \in Nat
    BY DEF TypeOK
  <2>. QED
    BY <2>1, WindowFacts, HalfMod DEF TypeOK
<1>2. p \in Nat /\ p - 1 \in Nat /\ taken + rcv_wnd \in Nat
  BY <1>1
<1>3. stream[p].sn = (p - 1) % SnMod /\ rcv_nxt = taken % SnMod
  BY DEF StreamInv, Sound, QueueInv
<1>4. (rcv_nxt + rcv_wnd) % SnMod = (taken + rcv_wnd) % SnMod
  BY <1>1, <1>3, ModAdd
<1>5. ASSUME p - 1 < taken
      PROVE  itimediff((p - 1) % SnMod, taken % SnMod) = (p - 1) - taken
  <2>1. -(SnMod \div 2) <= (p - 1) - taken /\ (p - 1) - taken < SnMod \div 2
    BY <1>1, <1>2, <1>5
  <2>2. SnMod > 0
    BY <1>1
  <2>. QED
    BY <1>1, <1>2, <2>1, <2>2, DiffExact, Zenon
<1>6. taken <= p - 1
  <2>1. itimediff(stream[p].sn, rcv_nxt) >= 0
    BY DEF InWindow
  <2>. QED
    BY <1>1, <1>2, <1>3, <1>5, <2>1
<1>7. itimediff((p - 1) % SnMod, (taken + rcv_wnd) % SnMod) = (p - 1) - (taken + rcv_wnd)
  <2>1. /\ -(SnMod \div 2) <= (p - 1) - (taken + rcv_wnd)
        /\ (p - 1) - (taken + rcv_wnd) < SnMod \div 2
    BY <1>1, <1>2, <1>6
  <2>2. SnMod > 0
    BY <1>1
  <2>. QED
    BY <1>2, <2>1, <2>2, DiffExact, Zenon
<1>8. (p - 1) - (taken + rcv_wnd) < 0
  <2>1. itimediff(stream[p].sn, (rcv_nxt + rcv_wnd) % SnMod) < 0
    BY DEF InWindow
  <2>. QED
    BY <1>3, <1>4, <1>7, <2>1
<1>. QED
  BY <1>1, <1>2, <1>6, <1>8 DEF Ahead

\* An element put behind the i-th of a sequence.
Behind(s, i, e) == SubSeq(s, 1, i) \o <<e>> \o SubSeq(s, i + 1, Len(s))

LEMMA BehindFacts ==
    ASSUME NEW S, NEW s \in Seq(S), NEW e \in S, NEW i \in 0 .. Len(s)
    PROVE  /\ Behind(s, i, e) \in Seq(S) /\ Len(Behind(s, i, e)) = Len(s) + 1
           /\ \A k \in 1 .. i : Behind(s, i, e)[k] = s[k]
           /\ Behind(s, i, e)[i + 1] = e
           /\ \A k \in i + 2 .. Len(s) + 1 : Behind(s, i, e)[k] = s[k - 1]
<1> DEFINE a == SubSeq(s, 1, i)
           b == <<e>>
           c == SubSeq(s, i + 1, Len(s))
<1>1. a \in Seq(S) /\ Len(a) = i /\ \A k \in 1 .. i : a[k] = s[k]
  OBVIOUS
<1>2. b \in Seq(S) /\ Len(b) = 1 /\ b[1] = e
  OBVIOUS
<1>3. c \in Seq(S) /\ Len(c) = Len(s) - i /\ \A k \in 1 .. Len(s) - i : c[k] = s[k + i]
  OBVIOUS
<1>4. Len(s) \in Nat
  OBVIOUS
<1> HIDE DEF a, b, c
<1>5. /\ a \o b \in Seq(S) /\ Len(a \o b) = i + 1
      /\ \A k \in 1 .. i + 1 : (a \o b)[k] = IF k <= i THEN s[k] ELSE e
  <2>1. \A k \in 1 .. i + 1 : (a \o b)[k] = IF k <= i THEN a[k] ELSE b[k - i]
    <3>1. a \in Seq(S) /\ b \in Seq(S)
      BY <1>1, <1>2, Zenon
    <3>2. \A k \in 1 .. Len(a) + Len(b) : (a \o b)[k] = IF k <= Len(a) THEN a[k] ELSE b[k - Len(a)]
      BY <3>1, ConcatProperties
    <3>3. Len(a) = i /\ Len(b) = 1
      BY <1>1, <1>2, Zenon
    <3>. QED
      BY <3>2, <3>3
  <2>2. \A k \in 1 .. i + 1 : k <= i \/ k - i = 1
    OBVIOUS
  <2>3. a \o b \in Seq(S) /\ Len(a \o b) = Len(a) + Len(b)
    BY <1>1, <1>2, ConcatProperties, Zenon
  <2>. QED
    BY <1>1, <1>2, <2>1, <2>2, <2>3
<1> DEFINE ab == a \o b
<1>6. ab \in Seq(S) /\ Len(ab) = i + 1 /\ \A k \in 1 .. i + 1 : ab[k] = IF k <= i THEN s[k] ELSE e
  BY <1>5
<1> HIDE DEF ab
<1>7. /\ ab \o c \in Seq(S) /\ Len(ab \o c) = Len(ab) + Len(c)
      /\ \A k \in 1 .. Len(ab) + Len(c) : (ab \o c)[k] = IF k <= Len(ab) THEN ab[k] ELSE c[k - Len(ab)]
  BY <1>3, <1>6, ConcatProperties
<1>8. Len(ab) + Len(c) = Len(s) + 1
  BY <1>3, <1>4, <1>6
<1>9. \A k \in 1 .. Len(s) + 1 :
         (ab \o c)[k] = IF k <= i THEN s[k] ELSE IF k = i + 1 THEN e ELSE s[k - 1]
  <2>1. TAKE k \in 1 .. Len(s) + 1
  <2>2. CASE k <= i + 1
    BY <1>6, <1>7, <1>8, <2>2
  <2>3. CASE ~ (k <= i + 1)
    <3>1. k - (i + 1) \in 1 .. Len(s) - i /\ (k - (i + 1)) + i = k - 1
      BY <1>4, <2>3
    <3>2. (ab \o c)[k] = c[k - (i + 1)]
      BY <1>6, <1>7, <1>8, <2>3
    <3>. QED
      BY <1>3, <2>3, <3>1, <3>2
  <2>. QED
    BY <2>2, <2>3
<1> DEFINE u == ab \o c
<1>10. Behind(s, i, e) = u
  BY DEF Behind, ab, a, b, c
<1>11. u \in Seq(S) /\ Len(u) = Len(s) + 1
  BY <1>7, <1>8
<1>12. \A k \in 1 .. Len(s) + 1 : u[k] = IF k <= i THEN s[k] ELSE IF k = i + 1 THEN e ELSE s[k - 1]
  BY <1>9
<1> HIDE DEF u
<1>13. \A k \in 1 .. i : u[k] = s[k]
  BY <1>4, <1>12
<1>14. u[i + 1] = e
  <2>1. i + 1 \in 1 .. Len(s) + 1 /\ ~ (i + 1 <= i)
    BY <1>4
  <2>. QED
    BY <1>12, <2>1, Zenon
<1>15. \A k \in i + 2 .. Len(s) + 1 : u[k] = s[k - 1]
  <2>1. TAKE k \in i + 2 .. Len(s) + 1
  <2>2. k \in 1 .. Len(s) + 1 /\ ~ (k <= i) /\ k # i + 1
    BY <1>4
  <2>. QED
    BY <1>12, <2>2, Zenon
<1>. QED
  BY <1>10, <1>11, <1>13, <1>14, <1>15, Zenon

\* The place found for a segment is behind those before it in the stream.
LEMMA PlaceFacts ==
    ASSUME TypeOK, StreamInv, NEW p \in 1 .. Len(stream), p \in Ahead,
           NEW pos \in [1 .. Len(rcv_buf) -> Ahead], HeldAt(rcv_buf, pos)
    PROVE  /\ Place(stream[p].sn) \in 0 .. Len(rcv_buf)
           /\ \A k \in 1 .. Len(rcv_buf) : k <= Place(stream[p].sn) <=> pos[k] <= p
<1>1. /\ taken \in Nat /\ rcv_wnd \in Nat \ {0}
      /\ SnMod \in Nat \ {0} /\ rcv_wnd <= SnMod \div 2
      /\ Len(rcv_buf) \in Nat /\ Len(stream) \in Nat
  BY WindowFacts, SMTT(30) DEF TypeOK
<1>2. \A k \in 1 .. Len(rcv_buf) : pos[k] \in Nat /\ taken + 1 <= pos[k] /\ pos[k] <= taken + rcv_wnd
  BY <1>1 DEF Ahead
<1>3. p \in Nat /\ taken + 1 <= p /\ p <= taken + rcv_wnd
  BY <1>1 DEF Ahead
<1>4. \A k \in 1 .. Len(rcv_buf) : itimediff(stream[p].sn, rcv_buf[k].sn) = p - pos[k]
  <2>1. TAKE k \in 1 .. Len(rcv_buf)
  <2>2. pos[k] \in 1 .. Len(stream) /\ rcv_buf[k] = stream[pos[k]]
    BY <1>1, <1>2 DEF HeldAt
  <2>3. stream[p].sn = (p - 1) % SnMod /\ rcv_buf[k].sn = (pos[k] - 1) % SnMod
    BY <2>2 DEF StreamInv, Sound
  <2>4. /\ p - 1 \in Nat /\ pos[k] - 1 \in Nat
        /\ -(SnMod \div 2) <= (p - 1) - (pos[k] - 1)
        /\ (p - 1) - (pos[k] - 1) < SnMod \div 2
        /\ (p - 1) - (pos[k] - 1) = p - pos[k]
        /\ SnMod > 0
    <3>1. SnMod \div 2 \in Nat
      BY <1>1, HalfMod
    <3>. QED
      BY <1>1, <1>2, <1>3, <3>1
  <2>5. itimediff((p - 1) % SnMod, (pos[k] - 1) % SnMod) = (p - 1) - (pos[k] - 1)
    BY <2>4, DiffExact, Zenon
  <2>. QED
    BY <2>3, <2>4, <2>5, Zenon
<1> DEFINE S == {0} \union {k \in 1 .. Len(rcv_buf) : itimediff(stream[p].sn, rcv_buf[k].sn) >= 0}
           i == Place(stream[p].sn)
<1>5. S \in SUBSET (0 .. Len(rcv_buf)) /\ S # {}
  BY <1>1
<1>6. Max(S) \in S /\ \A y \in S : Max(S) >= y
  BY <1>1, <1>5, MaxFacts, Zenon
<1>7. i \in S /\ \A y \in S : i >= y
  BY <1>6, Zenon DEF Place
<1> HIDE DEF i
<1>8. \A k \in 1 .. Len(rcv_buf) : k \in S <=> pos[k] <= p
  BY <1>2, <1>3, <1>4
<1>9. i \in 0 .. Len(rcv_buf)
  BY <1>5, <1>7
<1>10. \A k \in 1 .. Len(rcv_buf) : k <= i => pos[k] <= p
  <2>1. TAKE k \in 1 .. Len(rcv_buf)
  <2>2. HAVE k <= i
  <2>3. i \in 1 .. Len(rcv_buf)
    BY <1>9, <2>2
  <2>4. pos[i] <= p
    BY <1>7, <1>8, <2>3
  <2>5. i - k <= pos[i] - pos[k]
    BY <2>2, <2>3 DEF HeldAt
  <2>. QED
    BY <1>2, <1>3, <2>2, <2>3, <2>4, <2>5
<1>11. \A k \in 1 .. Len(rcv_buf) : pos[k] <= p => k <= i
  BY <1>7, <1>8
<1>. QED
  BY <1>9, <1>10, <1>11 DEF i

\* The segment is put among those that wait, in the order of the stream, and once.
LEMMA InsertKeeps ==
    ASSUME IInv, NEW p \in 1 .. Len(stream), p \in Ahead
    PROVE  /\ Inserted(stream[p]) \in Seq(Segment)
           /\ \E pos \in [1 .. Len(Inserted(stream[p])) -> Ahead] : HeldAt(Inserted(stream[p]), pos)
<1>1. /\ taken \in Nat /\ rcv_wnd \in Nat \ {0} /\ Len(stream) \in Nat
      /\ rcv_buf \in Seq(Segment) /\ Len(rcv_buf) \in Nat /\ stream[p] \in Segment
  BY WindowFacts, SMTT(30) DEF IInv, TypeOK
<1>2. PICK pos \in [1 .. Len(rcv_buf) -> Ahead] : HeldAt(rcv_buf, pos)
  BY DEF IInv, BufInv
<1> DEFINE i == Place(stream[p].sn)
           t == Behind(rcv_buf, i, stream[p])
<1>3. i \in 0 .. Len(rcv_buf) /\ \A k \in 1 .. Len(rcv_buf) : k <= i <=> pos[k] <= p
  BY <1>2, PlaceFacts DEF IInv
<1>4. Inserted(stream[p]) = IF i > 0 /\ rcv_buf[i].sn = stream[p].sn THEN rcv_buf ELSE t
  BY Zenon DEF Inserted, Behind
<1>5. CASE i > 0 /\ rcv_buf[i].sn = stream[p].sn
  <2>1. Inserted(stream[p]) = rcv_buf
    BY <1>4, <1>5, Zenon
  <2>. QED
    BY <1>1, <1>2, <2>1, Zenon
<1>6. CASE ~ (i > 0 /\ rcv_buf[i].sn = stream[p].sn)
  <2>1. Inserted(stream[p]) = t
    BY <1>4, <1>6, Zenon
  <2> HIDE DEF i
  <2>2. /\ t \in Seq(Segment) /\ Len(t) = Len(rcv_buf) + 1
        /\ \A k \in 1 .. i : t[k] = rcv_buf[k]
        /\ t[i + 1] = stream[p]
        /\ \A k \in i + 2 .. Len(rcv_buf) + 1 : t[k] = rcv_buf[k - 1]
    <3>1. rcv_buf \in Seq(Segment) /\ stream[p] \in Segment /\ i \in 0 .. Len(rcv_buf)
      BY <1>1, <1>3
    <3> DEFINE e == stream[p]
    <3>2. rcv_buf \in Seq(Segment) /\ e \in Segment /\ i \in 0 .. Len(rcv_buf)
      BY <3>1
    <3> HIDE DEF e
    <3>3. /\ Behind(rcv_buf, i, e) \in Seq(Segment) /\ Len(Behind(rcv_buf, i, e)) = Len(rcv_buf) + 1
      BY <3>2, BehindFacts, SMT
    <3>4. \A k \in 1 .. i : Behind(rcv_buf, i, e)[k] = rcv_buf[k]
      BY <3>2, BehindFacts, SMTT(30)
    <3>5. Behind(rcv_buf, i, e)[i + 1] = e
      BY <3>2, BehindFacts, SMT
    <3>6. \A k \in i + 2 .. Len(rcv_buf) + 1 : Behind(rcv_buf, i, e)[k] = rcv_buf[k - 1]
      BY <3>2, BehindFacts, SMT
    <3>. QED
      BY <3>3, <3>4, <3>5, <3>6, Zenon DEF e
  <2> HIDE DEF t
  <2> DEFINE q == [k \in 1 .. Len(rcv_buf) + 1 |->
                     IF k <= i THEN pos[k] ELSE IF k = i + 1 THEN p ELSE pos[k - 1]]
  <2>3. \A k \in 1 .. Len(rcv_buf) : pos[k] \in Nat /\ pos[k] \in Ahead
    BY <1>1 DEF Ahead
  <2>4. p \in Nat /\ i \in Nat /\ i <= Len(rcv_buf)
    BY <1>1, <1>3
  <2>5. \A k \in 1 .. Len(rcv_buf) + 1 :
           \/ k <= i /\ k \in 1 .. Len(rcv_buf) /\ q[k] = pos[k] /\ t[k] = rcv_buf[k]
           \/ k = i + 1 /\ q[k] = p /\ t[k] = stream[p]
           \/ /\ k > i + 1 /\ k - 1 \in 1 .. Len(rcv_buf)
              /\ q[k] = pos[k - 1] /\ t[k] = rcv_buf[k - 1]
    BY <1>1, <2>2, <2>4
  <2> HIDE DEF q
  <2>6. \A k \in 1 .. Len(rcv_buf) + 1 : q[k] \in Ahead /\ q[k] \in Nat
    BY <2>3, <2>4, <2>5
  <2>7. q \in [1 .. Len(t) -> Ahead]
    BY <2>2, <2>6 DEF q
  <2>8. \A k \in 1 .. Len(t) : q[k] <= Len(stream) /\ t[k] = stream[q[k]]
    <3>1. TAKE k \in 1 .. Len(t)
    <3>2. \A j \in 1 .. Len(rcv_buf) : pos[j] <= Len(stream) /\ rcv_buf[j] = stream[pos[j]]
      BY <1>2 DEF HeldAt
    <3>3. k \in 1 .. Len(rcv_buf) + 1
      BY <2>2
    <3>4. p <= Len(stream)
      BY <1>1
    <3>. QED
      BY <2>5, <3>2, <3>3, <3>4
  <2>9. \A k \in 1 .. Len(rcv_buf) : pos[k] # p
    <3>1. SUFFICES ASSUME NEW k \in 1 .. Len(rcv_buf), pos[k] = p PROVE FALSE
      OBVIOUS
    <3>2. k <= i /\ i \in 1 .. Len(rcv_buf) /\ i > 0
      BY <1>3, <2>4, <3>1
    <3>3. pos[i] <= p /\ i - k <= pos[i] - pos[k]
      BY <1>2, <1>3, <3>2 DEF HeldAt
    <3>4. pos[i] = p
      BY <2>3, <2>4, <3>1, <3>2, <3>3
    <3>5. rcv_buf[i] = stream[p]
      BY <1>2, <3>2, <3>4 DEF HeldAt
    <3>. QED
      BY <1>6, <3>2, <3>5
  <2>10. ASSUME NEW j \in 1 .. Len(t), NEW k \in 1 .. Len(t), j <= k
         PROVE  k - j <= q[k] - q[j]
    <3>1. \A x, y \in 1 .. Len(rcv_buf) : x <= y => y - x <= pos[y] - pos[x]
      BY <1>2 DEF HeldAt
    <3>2. j \in 1 .. Len(rcv_buf) + 1 /\ k \in 1 .. Len(rcv_buf) + 1
      BY <2>2
    <3>3. CASE k <= i
      <4>1. /\ j \in 1 .. Len(rcv_buf) /\ k \in 1 .. Len(rcv_buf)
            /\ q[j] = pos[j] /\ q[k] = pos[k]
        BY <2>4, <2>5, <2>10, <3>2, <3>3
      <4>. QED
        BY <2>10, <3>1, <4>1
    <3>4. CASE k = i + 1
      <4>1. q[k] = p
        BY <2>4, <2>5, <3>2, <3>4
      <4>2. CASE j = k
        BY <2>4, <3>2, <4>1, <4>2
      <4>3. CASE j # k
        <5>1. /\ j <= i /\ j \in 1 .. Len(rcv_buf) /\ i \in 1 .. Len(rcv_buf)
              /\ q[j] = pos[j]
          BY <2>4, <2>5, <2>10, <3>2, <3>4, <4>3
        <5>2. pos[i] <= p /\ pos[i] # p /\ i - j <= pos[i] - pos[j]
          BY <1>3, <2>9, <3>1, <5>1
        <5>. QED
          BY <2>3, <2>4, <3>2, <3>4, <4>1, <5>1, <5>2
      <4>. QED
        BY <4>2, <4>3
    <3>5. CASE k > i + 1
      <4>1. k - 1 \in 1 .. Len(rcv_buf) /\ q[k] = pos[k - 1]
        BY <2>4, <2>5, <3>2, <3>5
      <4>2. CASE j <= i
        <5>1. j \in 1 .. Len(rcv_buf) /\ i + 1 \in 1 .. Len(rcv_buf) /\ q[j] = pos[j]
              /\ i \in 1 .. Len(rcv_buf)
          BY <2>4, <2>5, <3>2, <3>5, <4>1, <4>2
        <5>2. pos[i] <= p /\ pos[i] # p /\ i - j <= pos[i] - pos[j]
          BY <1>3, <2>9, <3>1, <4>2, <5>1
        <5>3. ~ (pos[i + 1] <= p) /\ (k - 1) - (i + 1) <= pos[k - 1] - pos[i + 1]
          <6>1. i + 1 <= k - 1
            BY <2>4, <3>2, <3>5
          <6>. QED
            BY <1>3, <2>4, <3>1, <4>1, <5>1, <6>1
        <5>4. pos[i] \in Nat /\ pos[j] \in Nat /\ pos[i + 1] \in Nat /\ pos[k - 1] \in Nat
          BY <2>3, <4>1, <5>1
        <5>5. i \in Int /\ j \in Int /\ k \in Int /\ p \in Int
          BY <2>4, <3>2
        <5>6. k - j <= pos[k - 1] - pos[j]
          BY <5>2, <5>3, <5>4, <5>5, SMTT(30)
        <5>. QED
          BY <4>1, <5>1, <5>6, Zenon
      <4>3. CASE j = i + 1
        <5>1. i + 1 \in 1 .. Len(rcv_buf) /\ q[j] = p
          BY <2>4, <2>5, <3>2, <3>5, <4>1, <4>3
        <5>2. ~ (pos[i + 1] <= p) /\ (k - 1) - (i + 1) <= pos[k - 1] - pos[i + 1]
          <6>1. i + 1 <= k - 1
            BY <2>4, <3>2, <3>5
          <6>. QED
            BY <1>3, <2>4, <3>1, <4>1, <5>1, <6>1
        <5>3. pos[i + 1] \in Nat /\ pos[k - 1] \in Nat
          BY <2>3, <4>1, <5>1
        <5>. QED
          BY <2>4, <3>2, <4>1, <4>3, <5>1, <5>2, <5>3
      <4>4. CASE j > i + 1
        <5>1. j - 1 \in 1 .. Len(rcv_buf) /\ q[j] = pos[j - 1] /\ j - 1 <= k - 1
          BY <2>4, <2>5, <2>10, <3>2, <4>4
        <5>2. (k - 1) - (j - 1) <= pos[k - 1] - pos[j - 1]
          BY <3>1, <4>1, <5>1
        <5>. QED
          BY <3>2, <4>1, <5>1, <5>2
      <4>. QED
        BY <2>4, <3>2, <4>2, <4>3, <4>4
    <3>. QED
      BY <2>4, <3>2, <3>3, <3>4, <3>5
  <2>11. HeldAt(t, q)
    BY <2>8, <2>10 DEF HeldAt
  <2>. QED
    BY <2>1, <2>2, <2>7, <2>11, Zenon
<1>. QED
  BY <1>5, <1>6

\* Arrival of a segment keeps the invariant.
LEMMA InputKeeps ==
    ASSUME IInv, NEW p \in 1 .. Len(stream), Input(p)
    PROVE  IInv'
<1>1. /\ taken - (SnMod \div 2) < p /\ p <= taken + rcv_wnd + snd_wnd
      /\ UNCHANGED <<sender, windows, delivered>>
  BY DEF Input, InputSegment
<1>2. TypeOK /\ StreamInv /\ QueueInv /\ BufInv /\ DeliveredInv
  BY DEF IInv
<1>0. acklist' = acklist /\ crashed' \in BOOLEAN
  BY Zenon DEF Input, InputSegment, WritesNull
<1>3. CASE ~ (InWindow(stream[p].sn) /\ ~WritesNull(stream[p].sn))
  <2>1. UNCHANGED receiver
    BY <1>3, Zenon DEF Input, InputSegment
  <2>2. StreamInv' /\ QueueInv' /\ BufInv' /\ DeliveredInv'
    BY <1>1, <1>2, <2>1, ZenonT(40)
       DEF StreamInv, Sound, QueueInv, BufInv, DeliveredInv, Begins, Continues, LastTaken, HeldAt,
           Ahead, sender, receiver, windows
  <2>3. TypeOK'
    BY <1>0, <1>1, <1>2, <2>1 DEF TypeOK, sender, receiver, windows
  <2>. QED
    BY <2>2, <2>3 DEF IInv
<1>4. CASE InWindow(stream[p].sn) /\ ~WritesNull(stream[p].sn)
  <2>1. MoveAvailable(Inserted(stream[p]), rcv_queue)
    BY <1>4, Zenon DEF Input, InputSegment
  <2>2. p \in Ahead
    BY <1>1, <1>2, <1>4, InWindowAhead
  <2>3. Inserted(stream[p]) \in Seq(Segment)
    BY <2>2, InsertKeeps
  <2>4. PICK pos \in [1 .. Len(Inserted(stream[p])) -> Ahead] : HeldAt(Inserted(stream[p]), pos)
    BY <2>2, InsertKeeps
  <2>5. rcv_queue \in Seq(Segment) /\ LastTaken(rcv_queue)
    BY <1>2 DEF TypeOK, QueueInv
  <2>6. UNCHANGED <<sender, windows>>
    BY <1>1
  <2>7. /\ rcv_nxt' = (taken % SnMod)'
        /\ taken' <= Len(stream)
        /\ LastTaken(rcv_queue)'
        /\ taken' - Len(rcv_queue') = taken - Len(rcv_queue)
        /\ BufInv'
        /\ rcv_nxt' \in 0 .. SnMod - 1 /\ taken' \in Nat
        /\ rcv_buf' \in Seq(Segment) /\ rcv_queue' \in Seq(Segment)
    BY <1>2, <2>1, <2>3, <2>4, <2>5, <2>6, MoveKeeps, Zenon
  <2>8. TypeOK'
    BY <1>0, <1>1, <1>2, <2>7 DEF TypeOK, sender, windows
  <2>9. StreamInv' /\ DeliveredInv'
    BY <1>1, <1>2 DEF StreamInv, Sound, DeliveredInv, Begins, Continues, sender
  <2>10. Begins(taken - Len(rcv_queue) + 1, Len(delivered) + 1)'
    BY <1>1, <1>2, <2>7 DEF QueueInv, Begins, sender
  <2>11. QueueInv'
    BY <1>1, <2>7, <2>10 DEF QueueInv, sender
  <2>. QED
    BY <2>7, <2>8, <2>9, <2>11 DEF IInv
<1>. QED
  BY <1>3, <1>4
-------------------------------------------------------------------------------
\* The peer sends a message.

\* What sending adds to the histories.
LEMMA SendFacts ==
    ASSUME TypeOK, NEW m \in Msgs, Send(m)
    PROVE  /\ FragCount(m) \in Nat \ {0} /\ FragCount(m) < IKCP_WND_RCV
           /\ sent' \in Seq(Msgs) /\ Len(sent') = Len(sent) + 1
           /\ \A n \in 1 .. Len(sent) : sent'[n] = sent[n]
           /\ sent'[Len(sent) + 1] = m
           /\ stream' \in Seq(Segment) /\ Len(stream') = Len(stream) + FragCount(m)
           /\ \A p \in 1 .. Len(stream) : stream'[p] = stream[p]
           /\ \A k \in 1 .. FragCount(m) :
                 stream'[Len(stream) + k] =
                    [sn |-> (Len(stream) + k - 1) % SnMod, frg |-> FragCount(m) - k, msg |-> Len(sent) + 1]
<1> DEFINE f == Fragments(m, Len(sent) + 1, Len(stream))
           F == FragCount(m)
<1>1. sent \in Seq(Msgs) /\ stream \in Seq(Segment) /\ Len(sent) \in Nat /\ Len(stream) \in Nat /\ SnMod > 0
  BY WindowFacts, SMTT(30) DEF TypeOK
<1>2. F \in Nat \ {0}
  BY FragCountType
<1>3. F < IKCP_WND_RCV /\ sent' = Append(sent, m) /\ stream' = stream \o f
  BY DEF Send, SendNumbered
<1>4. /\ f \in Seq(Segment) /\ Len(f) = F
      /\ \A k \in 1 .. F : f[k] = [sn |-> (Len(stream) + k - 1) % SnMod, frg |-> F - k, msg |-> Len(sent) + 1]
  <2>1. Len(sent) + 1 \in Nat \ {0}
    BY <1>1
  <2>. QED
    BY <1>1, <2>1, FragmentsFacts, ZenonT(40)
<1> HIDE DEF f, F
<1>5. /\ stream \o f \in Seq(Segment) /\ Len(stream \o f) = Len(stream) + Len(f)
      /\ \A i \in 1 .. Len(stream) + Len(f) :
            (stream \o f)[i] = IF i <= Len(stream) THEN stream[i] ELSE f[i - Len(stream)]
  BY <1>1, <1>4, ConcatProperties
<1>6. \A p \in 1 .. Len(stream) : stream'[p] = stream[p]
  BY <1>1, <1>2, <1>3, <1>4, <1>5
<1>7. \A k \in 1 .. F : stream'[Len(stream) + k] = f[k]
  <2>1. TAKE k \in 1 .. F
  <2>2. Len(stream) + k \in 1 .. Len(stream) + Len(f) /\ ~ (Len(stream) + k <= Len(stream))
        /\ (Len(stream) + k) - Len(stream) = k
    BY <1>1, <1>2, <1>4
  <2>. QED
    BY <1>3, <1>5, <2>2
<1>8. /\ sent' \in Seq(Msgs) /\ Len(sent') = Len(sent) + 1
      /\ \A n \in 1 .. Len(sent) : sent'[n] = sent[n]
      /\ sent'[Len(sent) + 1] = m
  BY <1>1, <1>3, AppendProperties
<1>. QED
  BY <1>2, <1>3, <1>4, <1>5, <1>6, <1>7, <1>8 DEF F

\* Where a message begins, it still begins when another is sent.
LEMMA BeginsKept ==
    ASSUME TypeOK, StreamInv, NEW m \in Msgs, Send(m), NEW p \in 1 .. Len(stream) + 1, NEW n, Begins(p, n)
    PROVE  Begins(p, n)'
<1>1. Len(sent) \in Nat /\ Len(stream) \in Nat
  BY DEF TypeOK
<1> DEFINE F == FragCount(m)
<1>2. /\ F \in Nat \ {0}
      /\ Len(stream') = Len(stream) + F /\ Len(sent') = Len(sent) + 1
      /\ \A i \in 1 .. Len(sent) : sent'[i] = sent[i]
      /\ sent'[Len(sent) + 1] = m
      /\ \A q \in 1 .. Len(stream) : stream'[q] = stream[q]
  BY SendFacts
<1>3. \A k \in 1 .. F : stream'[Len(stream) + k] =
                 [sn |-> (Len(stream) + k - 1) % SnMod, frg |-> F - k, msg |-> Len(sent) + 1]
  BY SendFacts, Zenon
<1> HIDE DEF F
<1>4. p <= Len(stream')
  BY <1>1, <1>2
<1>5. CASE p <= Len(stream)
  <2>1. stream[p].msg = n /\ stream[p].frg = FragCount(sent[n]) - 1 /\ stream'[p] = stream[p]
    BY <1>2, <1>5 DEF Begins
  <2>2. n \in 1 .. Len(sent)
    BY <1>1, <1>5, <2>1 DEF StreamInv, Sound
  <2>. QED
    BY <1>2, <1>4, <2>1, <2>2 DEF Begins, FragCount
<1>6. CASE p = Len(stream) + 1
  <2>1. n = Len(sent) + 1
    BY <1>1, <1>6 DEF Begins
  <2>2. stream'[p] = [sn |-> (Len(stream) + 1 - 1) % SnMod, frg |-> F - 1, msg |-> Len(sent) + 1]
    <3>1. 1 \in 1 .. F
      BY <1>2
    <3>. QED
      BY <1>3, <1>6, <3>1, Zenon
  <2>3. sent'[n] = m
    BY <1>2, <2>1
  <2>. QED
    BY <1>4, <2>1, <2>2, <2>3 DEF Begins, FragCount, F
<1>. QED
  BY <1>1, <1>5, <1>6

\* Sending a message keeps the invariant.
LEMMA SendKeeps ==
    ASSUME IInv, NEW m \in Msgs, Send(m)
    PROVE  IInv'
<1> DEFINE F == FragCount(m)
<1>0. PICK L \in Nat, N \in Nat \ {0} : L = Len(stream) /\ N = Len(sent) + 1
  BY DEF IInv, TypeOK
<1>1. TypeOK /\ StreamInv /\ QueueInv /\ BufInv /\ DeliveredInv
  BY DEF IInv
<1>2. L = Len(stream) /\ N = Len(sent) + 1 /\ Len(sent) \in Nat /\ taken \in Nat /\ Len(delivered) \in Nat
      /\ SnMod \in Nat \ {0}
  BY <1>0, <1>1, WindowFacts, SMTT(30) DEF TypeOK
<1>3. /\ F \in Nat \ {0} /\ F < IKCP_WND_RCV
      /\ Len(stream') = L + F /\ stream' \in Seq(Segment)
      /\ Len(sent') = N /\ sent' \in Seq(Msgs) /\ sent'[N] = m
      /\ \A n \in 1 .. Len(sent) : sent'[n] = sent[n]
      /\ \A p \in 1 .. L : stream'[p] = stream[p]
  BY <1>1, <1>2, SendFacts
<1>4. ASSUME NEW k \in 1 .. F
      PROVE  stream'[L + k].sn = (L + k - 1) % SnMod /\ stream'[L + k].frg = F - k /\ stream'[L + k].msg = N
  <2>1. stream'[L + k] = [sn |-> (L + k - 1) % SnMod, frg |-> F - k, msg |-> N]
    BY <1>1, <1>2, SendFacts, Zenon
  <2>. QED
    BY <2>1
<1>5. UNCHANGED <<receiver, windows, delivered, process>>
  BY DEF Send, SendNumbered
<1>6. \A p \in 1 .. L + 1 : \A n : Begins(p, n) => Begins(p, n)'
  BY <1>1, <1>2, BeginsKept, Zenon
<1>7. FragCount(m)' = FragCount(m) /\ \A n \in 1 .. Len(sent) : FragCount(sent[n])' = FragCount(sent[n])
  BY <1>3 DEF FragCount
<1> HIDE DEF F
<1>8. ASSUME NEW p \in 1 .. L PROVE Sound(p)'
  <2>1. /\ stream[p].sn = (p - 1) % SnMod
        /\ stream[p].msg \in 1 .. Len(sent)
        /\ stream[p].frg < FragCount(sent[stream[p].msg])
        /\ Continues(p)
        /\ stream[p].frg = 0 => Begins(p + 1, stream[p].msg + 1)
        /\ stream'[p] = stream[p] /\ stream[p].frg \in Nat
    <3>1. stream[p] \in Segment
      BY <1>1, <1>2 DEF TypeOK
    <3>. QED
      BY <1>1, <1>2, <1>3, <3>1 DEF StreamInv, Sound, Segment
  <2>2. Continues(p)'
    <3>1. p + stream[p].frg <= L
      BY <1>2, <2>1 DEF Continues
    <3>2. p + stream[p].frg <= Len(stream')
      BY <1>2, <1>3, <2>1, <3>1, SMTT(30)
    <3>3. \A k \in 0 .. stream[p].frg : p + k \in 1 .. L
      BY <1>2, <2>1, <3>1
    <3>. QED
      BY <1>3, <2>1, <3>2, <3>3 DEF Continues
  <2>3. stream[p].frg = 0 => Begins(p + 1, stream[p].msg + 1)'
    <3>1. p + 1 \in 1 .. L + 1
      BY <1>2
    <3>. QED
      BY <1>6, <2>1, <3>1, Zenon
  <2>4. stream[p].msg \in 1 .. N /\ sent'[stream[p].msg] = sent[stream[p].msg]
    BY <1>2, <1>3, <2>1
  <2>. QED
    BY <1>3, <2>1, <2>2, <2>3, <2>4 DEF FragCount, Sound
<1>9. ASSUME NEW k \in 1 .. F PROVE Sound(L + k)'
  <2>1. stream'[L + k].sn = (L + k - 1) % SnMod /\ stream'[L + k].frg = F - k /\ stream'[L + k].msg = N
    BY <1>4
  <2>2. FragCount(sent'[N]) = F
    BY <1>3 DEF F
  <2>3. Continues(L + k)'
    <3>1. (L + k) + (F - k) <= Len(stream')
      BY <1>2, <1>3
    <3>2. ASSUME NEW j \in 0 .. F - k
          PROVE  stream'[(L + k) + j].msg = N /\ stream'[(L + k) + j].frg = (F - k) - j
      <4>1. k + j \in 1 .. F /\ L + (k + j) = (L + k) + j /\ F - (k + j) = (F - k) - j
        BY <1>2, <1>3
      <4>2. stream'[L + (k + j)].msg = N /\ stream'[L + (k + j)].frg = F - (k + j)
        BY <1>4, <4>1
      <4>. QED
        BY <4>1, <4>2
    <3>. QED
      BY <2>1, <3>1, <3>2 DEF Continues
  <2>4. F - k = 0 => Begins((L + k) + 1, N + 1)'
    <3>1. F - k = 0 => ~ ((L + k) + 1 <= Len(stream')) /\ N + 1 = Len(sent') + 1
      BY <1>2, <1>3
    <3>. QED
      BY <2>1, <3>1, Zenon DEF Begins
  <2>5. N \in 1 .. Len(sent') /\ F - k < F /\ L + k - 1 = (L + k) - 1
    BY <1>2, <1>3
  <2>. QED
    BY <2>1, <2>2, <2>3, <2>4, <2>5, Zenon DEF Sound
<1>10. StreamInv'
  <2>1. \A n \in 1 .. Len(sent') : FragCount(sent'[n]) < IKCP_WND_RCV
    <3>1. TAKE n \in 1 .. Len(sent')
    <3>2. CASE n = N
      BY <1>3, <3>2 DEF F
    <3>3. CASE n # N
      <4>1. n \in 1 .. Len(sent)
        BY <1>2, <1>3, <3>3
      <4>. QED
        BY <1>1, <1>3, <4>1 DEF StreamInv, Sound
    <3>. QED
      BY <3>2, <3>3
  <2>2. ASSUME NEW p \in 1 .. Len(stream') PROVE Sound(p)'
    <3>1. CASE p <= L
      <4>1. p \in 1 .. L
        BY <1>2, <3>1
      <4>. QED
        BY <1>8, <4>1, Zenon
    <3>2. CASE ~ (p <= L)
      <4>1. p - L \in 1 .. F /\ L + (p - L) = p
        BY <1>2, <1>3, <3>2
      <4>. QED
        BY <1>9, <4>1, Zenon
    <3>. QED
      BY <3>1, <3>2
  <2>3. Begins(1, 1)'
    <3>1. 1 \in 1 .. L + 1 /\ Begins(1, 1)
      BY <1>1, <1>2 DEF StreamInv, Sound
    <3>. QED
      BY <1>6, <3>1, Zenon
  <2>. QED
    BY <2>1, <2>2, <2>3, Zenon DEF StreamInv
<1>11. UNCHANGED <<rcv_nxt, rcv_buf, rcv_queue, taken, snd_wnd, rcv_wnd, delivered>>
  BY <1>5 DEF receiver, windows
<1>12. QueueInv'
  <2>1. /\ rcv_nxt = taken % SnMod /\ taken <= L
        /\ Len(rcv_queue) \in Nat /\ Len(rcv_queue) <= taken
        /\ \A k \in 1 .. Len(rcv_queue) : rcv_queue[k] = stream[taken - Len(rcv_queue) + k]
        /\ Begins(taken - Len(rcv_queue) + 1, Len(delivered) + 1)
    BY <1>1, <1>2 DEF QueueInv, LastTaken, TypeOK
  <2>2. Begins(taken - Len(rcv_queue) + 1, Len(delivered) + 1)'
    <3>1. taken - Len(rcv_queue) + 1 \in 1 .. L + 1
      BY <1>2, <2>1
    <3>2. \A n : Begins(taken - Len(rcv_queue) + 1, n) =>
              IF taken - Len(rcv_queue) + 1 <= Len(stream') THEN
                   /\ stream'[taken - Len(rcv_queue) + 1].msg = n
                   /\ stream'[taken - Len(rcv_queue) + 1].frg = FragCount(sent'[n]) - 1
              ELSE n = Len(sent') + 1
      BY <1>6, <3>1 DEF Begins, FragCount
    <3>. QED
      BY <1>11, <2>1, <3>2 DEF Begins, FragCount
  <2>3. LastTaken(rcv_queue)'
    <3>1. \A k \in 1 .. Len(rcv_queue) : taken - Len(rcv_queue) + k \in 1 .. L
      BY <1>2, <2>1
    <3>. QED
      BY <1>3, <1>11, <2>1, <3>1 DEF LastTaken
  <2>4. taken <= Len(stream')
    BY <1>2, <1>3, <2>1
  <2>. QED
    BY <1>11, <2>1, <2>2, <2>3, <2>4 DEF QueueInv
<1>13. BufInv'
  <2>1. PICK pos \in [1 .. Len(rcv_buf) -> Ahead] : HeldAt(rcv_buf, pos)
    BY <1>1 DEF BufInv
  <2>2. \A i \in 1 .. Len(rcv_buf) : pos[i] \in 1 .. L
    <3>1. TAKE i \in 1 .. Len(rcv_buf)
    <3>2. pos[i] \in Ahead /\ pos[i] <= L
      BY <1>2, <2>1 DEF HeldAt
    <3>3. rcv_wnd \in Nat
      BY <1>1, WindowFacts DEF TypeOK
    <3>. QED
      BY <1>2, <3>2, <3>3 DEF Ahead
  <2>3. HeldAt(rcv_buf, pos)'
    <3>1. \A i \in 1 .. Len(rcv_buf) : pos[i] <= Len(stream') /\ stream'[pos[i]] = stream[pos[i]]
      BY <1>2, <1>3, <2>2
    <3>. QED
      BY <1>11, <2>1, <3>1 DEF HeldAt
  <2>4. pos \in [1 .. Len(rcv_buf) -> Ahead]'
    BY <1>11 DEF Ahead
  <2>. QED
    BY <1>11, <2>3, <2>4 DEF BufInv
<1>14. DeliveredInv'
  <2>1. Len(delivered) <= Len(sent) /\ \A n \in 1 .. Len(delivered) : delivered[n] = sent[n]
    BY <1>1 DEF DeliveredInv
  <2>2. \A n \in 1 .. Len(delivered) : n \in 1 .. Len(sent)
    BY <1>2, <2>1
  <2>3. Len(delivered) \in Nat /\ Len(sent) \in Nat /\ Len(sent') \in Nat /\ Len(sent) <= Len(sent')
    BY <1>1, <1>2, <1>3 DEF TypeOK
  <2>4. Len(delivered) <= Len(sent')
    BY <2>1, <2>3
  <2>5. \A n \in 1 .. Len(delivered) : sent'[n] = sent[n]
    BY <1>3, <2>2, Zenon
  <2>6. \A n \in 1 .. Len(delivered) : delivered[n] = sent'[n]
    BY <2>1, <2>5, Zenon
  <2>. QED
    BY <1>11, <2>4, <2>6, Zenon DEF DeliveredInv
<1>15. TypeOK'
  BY <1>1, <1>3, <1>5, <1>11 DEF TypeOK, process
<1>. QED
  BY <1>10, <1>12, <1>13, <1>14, <1>15 DEF IInv
-------------------------------------------------------------------------------
\* A message is handed out.

\* The message at the front of rcv_queue is the next to be handed out, and counted down from its
\* first fragment to its last.
LEMMA FrontFacts ==
    ASSUME IInv, rcv_queue # <<>>
    PROVE  /\ Len(delivered) + 1 \in 1 .. Len(sent) /\ sent[Len(delivered) + 1] \in Msgs
           /\ FragCount(sent[Len(delivered) + 1]) \in Nat \ {0}
           /\ FragCount(sent[Len(delivered) + 1]) < IKCP_WND_RCV
           /\ rcv_queue[1].msg = Len(delivered) + 1
           /\ rcv_queue[1].frg = FragCount(sent[Len(delivered) + 1]) - 1
           /\ \A k \in 1 .. FragCount(sent[Len(delivered) + 1]) :
                 /\ taken - Len(rcv_queue) + k \in 1 .. Len(stream)
                 /\ stream[taken - Len(rcv_queue) + k].msg = Len(delivered) + 1
                 /\ stream[taken - Len(rcv_queue) + k].frg = FragCount(sent[Len(delivered) + 1]) - k
                 /\ k <= Len(rcv_queue) => rcv_queue[k] = stream[taken - Len(rcv_queue) + k]
<1>1. TypeOK /\ StreamInv /\ QueueInv
  BY DEF IInv
<1>2. PICK c \in Nat, N \in Nat \ {0} : c = taken - Len(rcv_queue) /\ N = Len(delivered) + 1
  <2>1. taken - Len(rcv_queue) \in Nat /\ Len(delivered) + 1 \in Nat \ {0}
    BY <1>1 DEF TypeOK, QueueInv, LastTaken
  <2>. QED
    BY <2>1, Zenon
<1>3. Len(rcv_queue) \in Nat \ {0} /\ Len(stream) \in Nat /\ Len(sent) \in Nat /\ taken \in Nat
  BY <1>1 DEF TypeOK
<1>4. c + 1 \in 1 .. Len(stream) /\ c + Len(rcv_queue) = taken /\ taken <= Len(stream)
  BY <1>1, <1>2, <1>3 DEF QueueInv
<1>5. /\ stream[c + 1].msg = N
      /\ stream[c + 1].frg = FragCount(sent[N]) - 1
  BY <1>1, <1>2, <1>4 DEF QueueInv, Begins
<1>6. Sound(c + 1)
  BY <1>1, <1>4 DEF StreamInv
<1>7. N \in 1 .. Len(sent) /\ Continues(c + 1)
  BY <1>5, <1>6 DEF Sound
<1>8. sent[N] \in Msgs /\ FragCount(sent[N]) < IKCP_WND_RCV
  BY <1>1, <1>7 DEF TypeOK, StreamInv
<1>9. PICK F \in Nat \ {0} : F = FragCount(sent[N])
  BY <1>8, FragCountType
<1>10. \A k \in 1 .. Len(rcv_queue) : rcv_queue[k] = stream[c + k]
  BY <1>1, <1>2 DEF QueueInv, LastTaken
<1>11. ASSUME NEW k \in 1 .. F
       PROVE  /\ c + k \in 1 .. Len(stream)
              /\ stream[c + k].msg = N
              /\ stream[c + k].frg = F - k
              /\ k <= Len(rcv_queue) => rcv_queue[k] = stream[c + k]
  <2>1. k - 1 \in 0 .. F - 1 /\ (c + 1) + (k - 1) = c + k /\ (F - 1) - (k - 1) = F - k
    BY <1>9
  <2>2. /\ (c + 1) + (F - 1) <= Len(stream)
        /\ \A j \in 0 .. F - 1 : stream[(c + 1) + j].msg = N /\ stream[(c + 1) + j].frg = (F - 1) - j
    BY <1>5, <1>7, <1>9 DEF Continues
  <2>3. c + k \in 1 .. Len(stream)
    BY <1>3, <2>2
  <2>4. stream[(c + 1) + (k - 1)].msg = N /\ stream[(c + 1) + (k - 1)].frg = (F - 1) - (k - 1)
    BY <2>1, <2>2, Zenon
  <2>. QED
    BY <1>3, <1>10, <2>1, <2>3, <2>4
<1>12. rcv_queue[1].msg = N /\ rcv_queue[1].frg = F - 1
  <2>1. 1 \in 1 .. Len(rcv_queue)
    BY <1>3
  <2>2. rcv_queue[1] = stream[c + 1]
    BY <1>10, <2>1, Zenon
  <2>. QED
    BY <1>5, <1>9, <2>2
<1>. QED
  BY <1>2, <1>7, <1>8, <1>9, <1>11, <1>12

\* What ikcp_recv merges is the next message: all of it, and nothing more.
LEMMA MergedFacts ==
    ASSUME IInv, Whole,
           NEW N \in Nat, N = Len(delivered) + 1, NEW F \in Nat, F = FragCount(sent[N])
    PROVE  /\ Merged = F /\ F \in 1 .. Len(rcv_queue)
           /\ Decoded(SubSeq(rcv_queue, 1, F)) = sent[N]
           /\ Begins(taken - Len(rcv_queue) + F + 1, N + 1)
<1>1. TypeOK /\ StreamInv /\ QueueInv /\ rcv_queue # <<>>
  BY DEF IInv, Whole
<1>2. PICK c \in Nat : c = taken - Len(rcv_queue)
  <2>1. taken - Len(rcv_queue) \in Nat
    BY <1>1 DEF TypeOK, QueueInv, LastTaken
  <2>. QED
    BY <2>1, Zenon
<1>3. Len(rcv_queue) \in Nat /\ Len(sent) \in Nat /\ rcv_queue \in Seq(Segment)
  BY <1>1 DEF TypeOK
<1>4. /\ N \in 1 .. Len(sent) /\ F \in Nat \ {0}
      /\ rcv_queue[1].frg = F - 1
  BY <1>1, FrontFacts
<1>5. \A k \in 1 .. F : /\ c + k \in 1 .. Len(stream)
                        /\ stream[c + k].msg = N
                        /\ stream[c + k].frg = F - k
                        /\ k <= Len(rcv_queue) => rcv_queue[k] = stream[c + k]
  BY <1>1, <1>2, FrontFacts
<1>6. F \in 1 .. Len(rcv_queue)
  <2>1. Len(rcv_queue) >= 1
    BY <1>1, <1>3
  <2>. QED
    BY <1>3, <1>4, <2>1 DEF Whole
<1>7. \A k \in 1 .. F : rcv_queue[k].msg = N /\ rcv_queue[k].frg = F - k /\ k \in 1 .. Len(rcv_queue)
  <2>1. TAKE k \in 1 .. F
  <2>2. k \in 1 .. Len(rcv_queue) /\ k <= Len(rcv_queue)
    BY <1>3, <1>6
  <2>3. rcv_queue[k] = stream[c + k]
    BY <1>5, <2>2, Zenon
  <2>. QED
    BY <1>5, <2>2, <2>3
<1>8. Merged = F
  <2> DEFINE S == {Len(rcv_queue)} \union {k \in 1 .. Len(rcv_queue) : rcv_queue[k].frg = 0}
  <2>1. F \in S
    BY <1>4, <1>6, <1>7, SMTT(30)
  <2>2. \A k \in S : F <= k
    <3>1. TAKE k \in S
    <3>2. k \in 1 .. Len(rcv_queue) /\ (k = Len(rcv_queue) \/ rcv_queue[k].frg = 0)
      BY <1>3, <1>6
    <3>3. SUFFICES ASSUME k < F PROVE FALSE
      BY <1>3, <3>2
    <3>4. k \in 1 .. F /\ F - k # 0
      BY <1>3, <3>2, <3>3
    <3>. QED
      BY <1>3, <1>6, <1>7, <3>2, <3>3, <3>4
  <2>3. S \in SUBSET Nat /\ S # {}
    BY <1>3, <2>1
  <2>4. Min(S) \in S /\ Min(S) <= F
    <3>1. Min(S) \in S /\ \A y \in S : Min(S) <= y
      BY <2>3, MinFacts, Zenon
    <3>. QED
      BY <2>1, <3>1, Zenon
  <2>5. F <= Min(S) /\ Min(S) \in Nat
    BY <2>2, <2>3, <2>4, Zenon
  <2>6. Merged = Min(S)
    BY Zenon DEF Merged
  <2> HIDE DEF S
  <2>. QED
    BY <2>4, <2>5, <2>6
<1>9. Decoded(SubSeq(rcv_queue, 1, F)) = sent[N]
  <2> DEFINE segs == SubSeq(rcv_queue, 1, F)
             parts == [k \in 1 .. Len(segs) |-> [frg |-> segs[k].frg, msg |-> segs[k].msg]]
  <2>1. Len(segs) = F /\ \A k \in 1 .. F : segs[k] = rcv_queue[k]
    BY <1>3, <1>6
  <2> HIDE DEF segs
  <2>2. parts = [k \in 1 .. F |-> [frg |-> F - k, msg |-> N]]
    BY <1>7, <2>1
  <2>3. Parts(N) = [k \in 1 .. F |-> [frg |-> F - k, msg |-> N]]
    BY DEF Parts
  <2>4. parts = Parts(N)
    BY <2>2, <2>3
  <2>5. ASSUME NEW n \in 1 .. Len(sent), parts = Parts(n) PROVE n = N
    <3>1. 1 \in 1 .. F
      BY <1>4
    <3>2. parts[1].msg = N
      BY <2>2, <3>1
    <3>3. FragCount(sent[n]) \in Nat \ {0}
      BY <1>1, FragCountType DEF TypeOK
    <3>4. Parts(n)[1].msg = n
      BY <3>3 DEF Parts
    <3>. QED
      BY <2>5, <3>2, <3>4
  <2> HIDE DEF parts
  <2>6. (CHOOSE n \in 1 .. Len(sent) : parts = Parts(n)) = N
    BY <1>4, <2>4, <2>5, Zenon
  <2>7. Decoded(segs) = IF \E n \in 1 .. Len(sent) : parts = Parts(n)
                        THEN sent[CHOOSE n \in 1 .. Len(sent) : parts = Parts(n)]
                        ELSE Garbage
    BY Zenon DEF Decoded, parts
  <2>8. \E n \in 1 .. Len(sent) : parts = Parts(n)
    BY <1>4, <2>4, Zenon
  <2>9. Decoded(segs) = sent[N]
    BY <2>6, <2>7, <2>8, Zenon
  <2>. QED
    BY <2>9 DEF segs
<1>10. Begins(c + F + 1, N + 1)
  <2>1. F \in 1 .. F /\ F - F = 0
    BY <1>4
  <2>2. c + F \in 1 .. Len(stream) /\ stream[c + F].msg = N /\ stream[c + F].frg = 0
    BY <1>5, <2>1
  <2>3. Begins((c + F) + 1, N + 1)
    BY <1>1, <2>2 DEF StreamInv, Sound
  <2>. QED
    BY <2>3
<1>. QED
  BY <1>2, <1>6, <1>8, <1>9, <1>10

\* ikcp_recv hands out the next message, as it was sent.
LEMMA RecvFacts ==
    ASSUME IInv, Recv
    PROVE  /\ Len(delivered) + 1 \in 1 .. Len(sent)
           /\ delivered' = Append(delivered, sent[Len(delivered) + 1])
           /\ UNCHANGED <<sender, windows, process>>
<1>1. Whole /\ rcv_queue # <<>>
  BY DEF Recv, Whole
<1>2. PICK N \in Nat : N = Len(delivered) + 1
  BY DEF IInv, TypeOK
<1>3. N \in 1 .. Len(sent) /\ FragCount(sent[N]) \in Nat
  BY <1>1, <1>2, FrontFacts
<1>4. Merged = FragCount(sent[N]) /\ Decoded(SubSeq(rcv_queue, 1, FragCount(sent[N]))) = sent[N]
  BY <1>1, <1>2, <1>3, MergedFacts
<1>5. delivered' = Append(delivered, Decoded(SubSeq(rcv_queue, 1, Merged))) /\ UNCHANGED <<sender, windows, process>>
  BY DEF Recv
<1>. QED
  BY <1>2, <1>3, <1>4, <1>5

\* Handing out a message keeps the invariant.
LEMMA RecvKeeps ==
    ASSUME IInv, Recv
    PROVE  IInv'
<1>1. TypeOK /\ StreamInv /\ QueueInv /\ BufInv /\ DeliveredInv
  BY DEF IInv
<1>2. Whole /\ rcv_queue # <<>>
  BY DEF Recv, Whole
<1>3. PICK N \in Nat : N = Len(delivered) + 1
  BY <1>1 DEF TypeOK
<1>4. N \in 1 .. Len(sent) /\ sent[N] \in Msgs
  BY <1>2, <1>3, FrontFacts
<1>5. PICK F \in Nat : F = FragCount(sent[N])
  BY <1>4, FragCountType
<1>6. /\ Merged = F /\ F \in 1 .. Len(rcv_queue)
      /\ Begins(taken - Len(rcv_queue) + F + 1, N + 1)
  BY <1>2, <1>3, <1>5, MergedFacts
<1>7. delivered' = Append(delivered, sent[N]) /\ UNCHANGED <<sender, windows, process>>
  BY <1>3, RecvFacts
<1> DEFINE rest == SubSeq(rcv_queue, F + 1, Len(rcv_queue))
<1>8. rcv_queue \in Seq(Segment) /\ Len(rcv_queue) \in Nat /\ taken \in Nat /\ rcv_buf \in Seq(Segment)
      /\ Len(delivered) \in Nat /\ delivered \in Seq(Msgs \union {Garbage})
  BY <1>1 DEF TypeOK
<1>9. /\ rest \in Seq(Segment) /\ Len(rest) = Len(rcv_queue) - F
      /\ \A k \in 1 .. Len(rcv_queue) - F : rest[k] = rcv_queue[F + k]
  BY <1>6, <1>8
<1>10. MoveAvailable(rcv_buf, rest)
  BY <1>6 DEF Recv
<1> HIDE DEF rest
<1>11. LastTaken(rest)
  <2>1. Len(rcv_queue) <= taken /\ \A k \in 1 .. Len(rcv_queue) : rcv_queue[k] = stream[taken - Len(rcv_queue) + k]
    BY <1>1 DEF QueueInv, LastTaken
  <2>2. ASSUME NEW k \in 1 .. Len(rest) PROVE rest[k] = stream[taken - Len(rest) + k]
    <3>1. F + k \in 1 .. Len(rcv_queue) /\ k \in 1 .. Len(rcv_queue) - F
      BY <1>6, <1>8, <1>9
    <3>2. taken - Len(rcv_queue) + (F + k) = taken - Len(rest) + k
      BY <1>8, <1>9
    <3>3. rest[k] = rcv_queue[F + k] /\ rcv_queue[F + k] = stream[taken - Len(rcv_queue) + (F + k)]
      BY <1>9, <2>1, <3>1, Zenon
    <3>. QED
      BY <3>2, <3>3
  <2>3. Len(rest) <= taken
    BY <1>6, <1>8, <1>9, <2>1
  <2>. QED
    BY <2>2, <2>3 DEF LastTaken
<1>12. PICK pos \in [1 .. Len(rcv_buf) -> Ahead] : HeldAt(rcv_buf, pos)
  BY <1>1 DEF BufInv
<1>13. /\ rcv_nxt' = (taken % SnMod)'
       /\ taken' <= Len(stream)
       /\ LastTaken(rcv_queue)'
       /\ taken' - Len(rcv_queue') = taken - Len(rest)
       /\ BufInv'
       /\ rcv_nxt' \in 0 .. SnMod - 1 /\ taken' \in Nat
       /\ rcv_buf' \in Seq(Segment) /\ rcv_queue' \in Seq(Segment)
  BY <1>1, <1>7, <1>8, <1>9, <1>10, <1>11, <1>12, MoveKeeps, Zenon
<1>14. /\ delivered' \in Seq(Msgs \union {Garbage}) /\ Len(delivered') = N
       /\ \A n \in 1 .. Len(delivered) : delivered'[n] = delivered[n]
       /\ delivered'[N] = sent[N]
  <2>1. sent[N] \in Msgs \union {Garbage}
    BY <1>4
  <2>. QED
    BY <1>3, <1>7, <1>8, <2>1, AppendProperties
<1>15. TypeOK'
  BY <1>1, <1>7, <1>13, <1>14 DEF TypeOK, sender, windows, process
<1>16. StreamInv'
  BY <1>1, <1>7 DEF StreamInv, Sound, Begins, Continues, sender
<1>17. QueueInv'
  <2>1. taken' - Len(rcv_queue') + 1 = taken - Len(rcv_queue) + F + 1
    BY <1>5, <1>8, <1>9, <1>13
  <2>2. Begins(taken - Len(rcv_queue) + 1, Len(delivered) + 1)'
    BY <1>6, <1>7, <1>14, <2>1 DEF Begins, sender
  <2>. QED
    BY <1>7, <1>13, <2>2 DEF QueueInv, sender
<1>18. DeliveredInv'
  <2>1. \A n \in 1 .. Len(delivered) : delivered[n] = sent[n]
    BY <1>1 DEF DeliveredInv
  <2>2. \A n \in 1 .. N : n \in 1 .. Len(delivered) \/ n = N
    BY <1>3, <1>8
  <2>3. Len(delivered') <= Len(sent)
    BY <1>4, <1>14
  <2>. QED
    BY <1>7, <1>14, <2>1, <2>2, <2>3 DEF DeliveredInv, sender
<1>. QED
  BY <1>13, <1>15, <1>16, <1>17, <1>18 DEF IInv
-------------------------------------------------------------------------------
\* The invariant of the specification, and what follows from it.

\* Before anything is sent the invariant holds.
LEMMA InitInv == Init => IInv
<1> SUFFICES ASSUME Init PROVE IInv
  OBVIOUS
<1>1. /\ sent = <<>> /\ stream = <<>> /\ rcv_nxt = 0 /\ rcv_buf = <<>> /\ rcv_queue = <<>>
      /\ taken = 0 /\ delivered = <<>> /\ acklist \in AckLists /\ crashed = FALSE
  BY DEF Init
<1>2. [snd |-> snd_wnd, rcv |-> rcv_wnd] \in Windows
  <2>1. PICK w \in Windows : snd_wnd = w.snd /\ rcv_wnd = w.rcv
    BY DEF Init
  <2>2. w \in [snd : Nat \ {0}, rcv : Nat \ {0}]
    BY KcpAssumption
  <2>3. w = [snd |-> snd_wnd, rcv |-> rcv_wnd]
    BY <2>1, <2>2
  <2>. QED
    BY <2>3
<1>3. SnMod \in Nat /\ SnMod > 0
  BY <1>2, WindowFacts
<1>4. TypeOK
  <2>1. crashed \in BOOLEAN
    BY <1>1, Zenon
  <2>2. /\ sent \in Seq(Msgs) /\ stream \in Seq(Segment) /\ rcv_nxt \in 0 .. SnMod - 1
        /\ rcv_buf \in Seq(Segment) /\ rcv_queue \in Seq(Segment) /\ taken \in Nat
        /\ delivered \in Seq(Msgs \union {Garbage})
    BY <1>1, <1>3
  <2>. QED
    BY <1>1, <1>2, <2>1, <2>2, Zenon DEF TypeOK
<1>5. Begins(1, 1)
  BY <1>1 DEF Begins
<1>6. StreamInv
  BY <1>1, <1>5 DEF StreamInv
<1>7. QueueInv
  <2>1. 0 = 0 % SnMod
    BY <1>3
  <2>. QED
    BY <1>1, <1>5, <2>1 DEF QueueInv, LastTaken
<1>8. BufInv
  <2> DEFINE pos == [i \in 1 .. Len(rcv_buf) |-> taken + 1]
  <2>1. pos \in [1 .. Len(rcv_buf) -> Ahead] /\ HeldAt(rcv_buf, pos)
    BY <1>1 DEF HeldAt
  <2>. QED
    BY <2>1 DEF BufInv
<1>9. DeliveredInv
  BY <1>1 DEF DeliveredInv
<1>. QED
  BY <1>4, <1>6, <1>7, <1>8, <1>9 DEF IInv

\* Every step of the peer, the network and the application keeps it.
LEMMA NextKeeps == IInv /\ [Next]_kvars => IInv'
<1> SUFFICES ASSUME IInv, [Next]_kvars PROVE IInv'
  OBVIOUS
<1>1. CASE \E m \in Msgs : Send(m)
  BY <1>1, SendKeeps, Zenon
<1>2. CASE \E p \in 1 .. Len(stream) : Input(p)
  BY <1>2, InputKeeps, Zenon
<1>3. CASE Recv
  BY <1>3, RecvKeeps
<1>4. CASE UNCHANGED kvars
  BY <1>4, ZenonT(40)
     DEF IInv, TypeOK, StreamInv, Sound, QueueInv, BufInv, DeliveredInv, Begins, Continues, LastTaken, HeldAt,
         Ahead, kvars, sender, receiver, windows, process
<1>. QED
  BY <1>1, <1>2, <1>3, <1>4 DEF Next, Gone

\* The stream is cut into messages, rcv_queue is its end up to rcv_nxt, rcv_buf a part of what is
\* ahead, and what was handed out is what was sent.
THEOREM Invariance == Spec => []IInv
<1>. QED
  BY InitInv, NextKeeps, PTL DEF Spec

\* The variables keep to their types.
THEOREM TypeCorrect == Spec => []TypeOK
<1>1. IInv => TypeOK
  BY DEF IInv
<1>. QED
  BY <1>1, Invariance, PTL

\* What rcv_nxt acknowledges is in rcv_queue or was handed out (AckedIsKept).
THEOREM AckedKept == Spec => []AckedIsKept
<1>1. IInv => AckedIsKept
  <2>1. SUFFICES ASSUME IInv PROVE AckedIsKept
    OBVIOUS
  <2>2. QueueInv
    BY <2>1 DEF IInv
  <2>3. rcv_queue # <<>> => /\ rcv_queue[1].msg = Len(delivered) + 1
                            /\ rcv_queue[1].frg = FragCount(sent[rcv_queue[1].msg]) - 1
    BY <2>1, FrontFacts
  <2>. QED
    BY <2>2, <2>3 DEF AckedIsKept, QueueInv, LastTaken
<1>. QED
  BY <1>1, Invariance, PTL

\* Where the waiting segments are in the stream, and their numbers.
LEMMA WaitingFacts ==
    ASSUME IInv, NEW pos \in [1 .. Len(rcv_buf) -> Ahead], HeldAt(rcv_buf, pos), NEW i \in 1 .. Len(rcv_buf)
    PROVE  /\ pos[i] - 1 \in Nat /\ taken \in Nat /\ (pos[i] - 1) - taken \in 0 .. rcv_wnd - 1
           /\ rcv_buf[i].sn = (pos[i] - 1) % SnMod
<1>1. TypeOK /\ StreamInv /\ rcv_wnd \in Nat /\ taken \in Nat
  BY WindowFacts DEF IInv, TypeOK
<1>2. pos[i] \in taken + 1 .. taken + rcv_wnd
  BY DEF Ahead
<1>3. pos[i] <= Len(stream) /\ rcv_buf[i] = stream[pos[i]]
  BY DEF HeldAt
<1>4. Len(stream) \in Nat
  BY <1>1 DEF TypeOK
<1>5. pos[i] \in 1 .. Len(stream)
  BY <1>1, <1>2, <1>3, <1>4
<1>6. stream[pos[i]].sn = (pos[i] - 1) % SnMod
  BY <1>1, <1>5 DEF StreamInv, Sound
<1>. QED
  BY <1>1, <1>2, <1>3, <1>6, SMTT(30)

\* No segment waits that is outside the window, out of order or there twice (NoneBlocks).
THEOREM NoSegmentBlocks == Spec => []NoneBlocks
<1>1. IInv => NoneBlocks
  <2>1. SUFFICES ASSUME IInv PROVE NoneBlocks
    OBVIOUS
  <2>2. /\ taken \in Nat /\ rcv_wnd \in Nat /\ rcv_nxt = taken % SnMod
        /\ SnMod > 0 /\ SnMod \div 2 \in Nat /\ rcv_wnd <= SnMod \div 2
    <3>1. TypeOK /\ QueueInv
      BY <2>1 DEF IInv
    <3>2. SnMod > 0 /\ rcv_wnd \in Nat /\ rcv_wnd <= SnMod \div 2
      BY <3>1, WindowFacts DEF TypeOK
    <3>. QED
      BY <3>1, <3>2, HalfMod DEF TypeOK, QueueInv
  <2>3. PICK pos \in [1 .. Len(rcv_buf) -> Ahead] : HeldAt(rcv_buf, pos)
    BY <2>1 DEF IInv, BufInv
  <2>4. \A i \in 1 .. Len(rcv_buf) : /\ pos[i] - 1 \in Nat /\ (pos[i] - 1) - taken \in 0 .. rcv_wnd - 1
                                     /\ rcv_buf[i].sn = (pos[i] - 1) % SnMod
    BY <2>1, <2>3, WaitingFacts
  <2>5. ASSUME NEW i \in 1 .. Len(rcv_buf)
        PROVE  itimediff(rcv_buf[i].sn, rcv_nxt) \in 0 .. rcv_wnd - 1
    <3>1. PICK a \in Nat : a = pos[i] - 1
      BY <2>4
    <3>2. a - taken \in 0 .. rcv_wnd - 1 /\ rcv_buf[i].sn = a % SnMod
      BY <2>4, <3>1
    <3>3. -(SnMod \div 2) <= a - taken /\ a - taken < SnMod \div 2
      BY <2>2, <3>2
    <3>4. itimediff(a % SnMod, taken % SnMod) = a - taken
      BY <2>2, <3>3, DiffExact, Zenon
    <3>. QED
      BY <2>2, <3>2, <3>4
  <2>6. ASSUME NEW i \in 1 .. Len(rcv_buf), NEW j \in 1 .. Len(rcv_buf), i < j
        PROVE  itimediff(rcv_buf[j].sn, rcv_buf[i].sn) > 0
    <3>1. PICK a \in Nat, b \in Nat : a = pos[i] - 1 /\ b = pos[j] - 1
      BY <2>4
    <3>2. /\ a - taken \in 0 .. rcv_wnd - 1 /\ rcv_buf[i].sn = a % SnMod
          /\ b - taken \in 0 .. rcv_wnd - 1 /\ rcv_buf[j].sn = b % SnMod
      BY <2>4, <3>1
    <3>3. j - i <= pos[j] - pos[i] /\ pos[i] \in Int /\ pos[j] \in Int
      <4>1. i <= j
        BY <2>2, <2>6
      <4>2. j - i <= pos[j] - pos[i]
        BY <2>3, <4>1 DEF HeldAt
      <4>3. pos[i] \in Ahead /\ pos[j] \in Ahead
        BY <2>3, Zenon
      <4>4. \A p \in Ahead : p \in Int
        BY <2>2 DEF Ahead
      <4>. QED
        BY <4>2, <4>3, <4>4, Zenon
    <3>4. b - a > 0
      <4>1. 1 <= j - i
        BY <2>2, <2>6
      <4>2. b - a = pos[j] - pos[i]
        BY <3>1, <3>3
      <4>3. i \in Int /\ j \in Int
        OBVIOUS
      <4>. QED
        BY <3>3, <4>1, <4>2, <4>3
    <3>5. -(SnMod \div 2) <= b - a /\ b - a < SnMod \div 2
      BY <2>2, <3>2, <3>4, SMTT(30)
    <3>6. itimediff(b % SnMod, a % SnMod) = b - a
      BY <2>2, <3>5, DiffExact, Zenon
    <3>. QED
      BY <3>2, <3>4, <3>6
  <2>. QED
    BY <2>5, <2>6 DEF NoneBlocks
<1>. QED
  BY <1>1, Invariance, PTL

\* rcv_queue takes no more than the window, and all that is next in order until it is full.
RoomInv ==
    /\ Len(rcv_queue) <= rcv_wnd
    /\ rcv_buf # <<>> /\ rcv_buf[1].sn = rcv_nxt => Len(rcv_queue) = rcv_wnd

LEMMA RoomKeeps == IInv /\ RoomInv /\ [Next]_kvars => RoomInv'
<1> SUFFICES ASSUME IInv, RoomInv, [Next]_kvars PROVE RoomInv'
  OBVIOUS
<1>1. /\ rcv_nxt \in Nat /\ SnMod \in Nat \ {0} /\ rcv_wnd \in Nat
      /\ rcv_queue \in Seq(Segment) /\ rcv_buf \in Seq(Segment) /\ Len(rcv_queue) <= rcv_wnd
  <2>1. SnMod \in Nat \ {0} /\ rcv_wnd \in Nat
    BY WindowFacts DEF IInv, TypeOK
  <2>. QED
    BY <2>1 DEF IInv, TypeOK, RoomInv
<1>2. ASSUME NEW m \in Msgs, Send(m) PROVE RoomInv'
  BY <1>2 DEF Send, SendNumbered, receiver, windows, RoomInv
<1>3. ASSUME NEW p \in 1 .. Len(stream), Input(p) PROVE RoomInv'
  <2>1. rcv_wnd' = rcv_wnd
    BY <1>3 DEF Input, InputSegment, windows
  <2>2. CASE ~ (InWindow(stream[p].sn) /\ ~WritesNull(stream[p].sn))
    BY <1>3, <2>1, <2>2 DEF Input, InputSegment, receiver, RoomInv
  <2>3. CASE InWindow(stream[p].sn) /\ ~WritesNull(stream[p].sn)
    <3>1. MoveAvailable(Inserted(stream[p]), rcv_queue)
      BY <1>3, <2>3, Zenon DEF Input, InputSegment
    <3>2. Inserted(stream[p]) \in Seq(Segment)
      <4>1. taken - (SnMod \div 2) < p /\ p <= taken + rcv_wnd + snd_wnd
        BY <1>3 DEF Input
      <4>2. p \in Ahead
        BY <2>3, <4>1, InWindowAhead DEF IInv
      <4>. QED
        BY <4>2, InsertKeeps
    <3>. QED
      BY <1>1, <2>1, <3>1, <3>2, MovesAll, Zenon DEF RoomInv
  <2>. QED
    BY <2>2, <2>3
<1>4. ASSUME Recv PROVE RoomInv'
  <2> DEFINE rest == SubSeq(rcv_queue, Merged + 1, Len(rcv_queue))
  <2>1. rcv_wnd' = rcv_wnd /\ MoveAvailable(rcv_buf, rest)
    BY <1>4 DEF Recv, windows
  <2>2. PICK F \in 1 .. Len(rcv_queue) : Merged = F
    <3>1. Whole /\ rcv_queue # <<>>
      BY <1>4 DEF Recv, Whole
    <3>2. PICK N \in Nat : N = Len(delivered) + 1
      BY DEF IInv, TypeOK
    <3>3. N \in 1 .. Len(sent) /\ sent[N] \in Msgs
      BY <3>1, <3>2, FrontFacts
    <3>4. PICK F \in Nat : F = FragCount(sent[N])
      BY <3>3, FragCountType
    <3>. QED
      BY <3>1, <3>2, <3>4, MergedFacts
  <2>3. rest \in Seq(Segment) /\ Len(rest) <= rcv_wnd
    BY <1>1, <2>2
  <2> HIDE DEF rest
  <2>. QED
    BY <1>1, <2>1, <2>3, MovesAll, Zenon DEF RoomInv
<1>5. ASSUME UNCHANGED kvars PROVE RoomInv'
  BY <1>5 DEF kvars, receiver, windows, RoomInv
<1>. QED
  BY <1>2, <1>3, <1>4, <1>5 DEF Next, Gone
LEMMA RoomInvariance == Spec => []RoomInv
<1>1. Init => RoomInv
  <2>1. SUFFICES ASSUME Init PROVE RoomInv
    OBVIOUS
  <2>2. rcv_wnd \in Nat
    BY <2>1, InitInv, WindowFacts DEF IInv, TypeOK
  <2>. QED
    BY <2>1, <2>2 DEF Init, RoomInv
<1>. QED
  BY <1>1, RoomKeeps, Invariance, PTL DEF Spec

\* What rcv_nxt asks for waits in rcv_buf only as long as rcv_queue is full, and then there is a
\* whole message to take out of it (NeverStuck).
THEOREM QueueNeverStuck == Spec => []NeverStuck
<1>1. IInv /\ RoomInv => NeverStuck
  <2>1. SUFFICES ASSUME IInv, Len(rcv_queue) >= rcv_wnd PROVE Whole
    BY DEF NeverStuck, RoomInv
  <2>2. Len(rcv_queue) \in Nat /\ rcv_wnd \in Nat \ {0} /\ IKCP_WND_RCV <= rcv_wnd + 1
    BY <2>1, WindowFacts DEF IInv, TypeOK
  <2>3. rcv_queue # <<>>
    BY <2>1, <2>2
  <2>4. PICK F \in Nat : F < IKCP_WND_RCV /\ rcv_queue[1].frg = F - 1
    BY <2>1, <2>3, FrontFacts
  <2>5. IKCP_WND_RCV \in Nat
    BY KcpAssumption
  <2>. QED
    BY <2>1, <2>2, <2>3, <2>4, <2>5 DEF Whole
<1>. QED
  BY <1>1, Invariance, RoomInvariance, PTL
\* Put among those that wait, the segment next in order is the first of them.
LEMMA NextIsFirst ==
    ASSUME IInv, NEW p \in 1 .. Len(stream), p = taken + 1
    PROVE  /\ Inserted(stream[p]) \in Seq(Segment) /\ Len(Inserted(stream[p])) >= 1
           /\ Inserted(stream[p])[1] = stream[p]
<1>1. /\ taken \in Nat /\ rcv_wnd \in Nat \ {0} /\ rcv_buf \in Seq(Segment) /\ Len(rcv_buf) \in Nat
      /\ stream[p] \in Segment /\ p \in Ahead
  <2>1. /\ taken \in Nat /\ rcv_buf \in Seq(Segment) /\ stream \in Seq(Segment)
        /\ [snd |-> snd_wnd, rcv |-> rcv_wnd] \in Windows
    BY Zenon DEF IInv, TypeOK
  <2>2. rcv_wnd \in Nat \ {0}
    BY <2>1, WindowFacts, Zenon
  <2>3. Len(rcv_buf) \in Nat /\ stream[p] \in Segment
    BY <2>1
  <2>4. p \in Ahead
    BY <2>1, <2>2 DEF Ahead
  <2>. QED
    BY <2>1, <2>2, <2>3, <2>4, Zenon
<1>2. PICK pos \in [1 .. Len(rcv_buf) -> Ahead] : HeldAt(rcv_buf, pos)
  BY DEF IInv, BufInv
<1>3. PICK i \in 0 .. Len(rcv_buf) :
         i = Place(stream[p].sn) /\ \A k \in 1 .. Len(rcv_buf) : k <= i <=> pos[k] <= p
  BY <1>1, <1>2, PlaceFacts DEF IInv
<1>4. Inserted(stream[p]) \in Seq(Segment)
  BY <1>1, InsertKeeps
<1>5. CASE i = 0
  <2>1. Inserted(stream[p]) = Behind(rcv_buf, i, stream[p])
    BY <1>3, <1>5 DEF Inserted, Behind
  <2>2. Behind(rcv_buf, i, stream[p])[i + 1] = stream[p] /\ Len(Behind(rcv_buf, i, stream[p])) = Len(rcv_buf) + 1
    BY <1>1, BehindFacts, SMTT(30)
  <2>. QED
    BY <1>1, <1>4, <1>5, <2>1, <2>2
<1>6. CASE i # 0
  <2>1. i \in 1 .. Len(rcv_buf) /\ 1 \in 1 .. Len(rcv_buf) /\ 1 <= i /\ i > 0
    BY <1>1, <1>6
  <2>2. pos[1] \in Ahead /\ pos[i] \in Ahead /\ pos[1] <= p /\ pos[i] <= p
    BY <1>3, <2>1
  <2>3. pos[1] = p /\ pos[i] = p
    BY <1>1, <2>2 DEF Ahead
  <2>4. rcv_buf[1] = stream[p] /\ rcv_buf[i] = stream[p]
    BY <1>2, <2>1, <2>3 DEF HeldAt
  <2>5. Inserted(stream[p]) = rcv_buf
    BY <1>3, <2>1, <2>4, Zenon DEF Inserted
  <2>. QED
    BY <1>1, <1>4, <2>1, <2>4, <2>5
<1>. QED
  BY <1>5, <1>6

\* The segment that rcv_nxt asks for is taken when it arrives, if rcv_queue has room, or it has ended
\* the process: the step on which it rests that messages get through at all.  Numbers that wrap do not
\* put it outside the window, and no segment that waits is put before it.
NextSegmentTaken ==
    [][\A p \in 1 .. Len(stream) :
          Input(p) /\ p = taken + 1 /\ Len(rcv_queue) < rcv_wnd
             => taken' >= p \/ (acklist = "NULL" /\ crashed')]_kvars

\* It is taken, whatever waits and wherever the numbers wrap (NextSegmentTaken).
THEOREM NextIsTaken == Spec => NextSegmentTaken
<1>1. ASSUME IInv, NEW p \in 1 .. Len(stream), Input(p), p = taken + 1, Len(rcv_queue) < rcv_wnd
      PROVE  taken' >= p \/ (acklist = "NULL" /\ crashed')
  <2>0. ASSUME WritesNull(stream[p].sn) PROVE acklist = "NULL" /\ crashed'
    BY <1>1, <2>0, Zenon DEF WritesNull, Input, InputSegment
  <2> SUFFICES ASSUME ~WritesNull(stream[p].sn) PROVE taken' >= p
    BY <2>0
  <2>1. /\ taken \in Nat /\ rcv_nxt = taken % SnMod /\ rcv_nxt \in 0 .. SnMod - 1
        /\ rcv_wnd \in Nat \ {0} /\ SnMod \in Nat \ {0} /\ rcv_wnd <= SnMod \div 2
        /\ rcv_queue \in Seq(Segment)
    BY <1>1, WindowFacts, SMTT(30) DEF IInv, TypeOK, QueueInv
  <2>2. stream[p].sn = (p - 1) % SnMod
    BY <1>1 DEF IInv, StreamInv, Sound
  <2>3. p - 1 = taken
    BY <1>1, <2>1
  <2>4. SnMod > 0 /\ SnMod \div 2 \in Nat /\ SnMod = 2 * (SnMod \div 2)
    BY <2>1, HalfMod
  <2>5. itimediff(stream[p].sn, rcv_nxt) = 0
    <3>1. -(SnMod \div 2) <= taken - taken /\ taken - taken < SnMod \div 2 /\ taken - taken = 0
      BY <2>1, <2>4
    <3>2. itimediff(taken % SnMod, taken % SnMod) = taken - taken
      BY <2>1, <2>4, <3>1, DiffExact, Zenon
    <3>. QED
      BY <2>1, <2>2, <2>3, <3>1, <3>2
  <2>6. itimediff(stream[p].sn, (rcv_nxt + rcv_wnd) % SnMod) < 0
    <3>1. (rcv_nxt + rcv_wnd) % SnMod = (taken + rcv_wnd) % SnMod
      BY <2>1, ModAdd
    <3>2. PICK e \in Nat : e = taken + rcv_wnd
      BY <2>1
    <3>3. -(SnMod \div 2) <= taken - e /\ taken - e < SnMod \div 2 /\ taken - e < 0
      BY <2>1, <2>4, <3>2
    <3>4. itimediff(taken % SnMod, e % SnMod) = taken - e
      BY <2>1, <2>4, <3>2, <3>3, DiffExact, Zenon
    <3>. QED
      BY <2>2, <2>3, <3>1, <3>2, <3>3, <3>4
  <2>7. InWindow(stream[p].sn)
    BY <2>5, <2>6 DEF InWindow
  <2>8. PICK buf \in Seq(Segment) : buf = Inserted(stream[p]) /\ Len(buf) >= 1 /\ buf[1] = stream[p]
    BY <1>1, NextIsFirst
  <2>9. MoveAvailable(buf, rcv_queue)
    BY <1>1, <2>7, <2>8, Zenon DEF Input, InputSegment
  <2>10. taken' = taken + Available(buf, rcv_queue)
    BY <2>9, Zenon DEF MoveAvailable
  <2>11. 1 <= Available(buf, rcv_queue)
    <3>1. 1 \in 1 .. Len(buf) /\ Len(rcv_queue) + 1 <= rcv_wnd /\ rcv_nxt + 1 - 1 = rcv_nxt
      BY <1>1, <2>1, <2>8
    <3>2. rcv_nxt % SnMod = rcv_nxt
      BY <2>1
    <3>3. \A j \in 1 .. 1 : buf[j].sn = (rcv_nxt + j - 1) % SnMod
      <4>1. \A j \in 1 .. 1 : j = 1
        OBVIOUS
      <4>. QED
        BY <2>1, <2>2, <2>3, <2>8, <3>1, <3>2, <4>1
    <3>. QED
      BY <2>1, <3>1, <3>3, AvailableAll, Zenon
  <2>12. Available(buf, rcv_queue) \in 0 .. Len(buf)
    BY <2>1, AvailableFacts
  <2>. QED
    BY <1>1, <2>1, <2>10, <2>11, <2>12
<1>2. IInv => [\A p \in 1 .. Len(stream) :
                  Input(p) /\ p = taken + 1 /\ Len(rcv_queue) < rcv_wnd
                     => taken' >= p \/ (acklist = "NULL" /\ crashed')]_kvars
  BY <1>1
<1>. QED
  BY <1>2, Invariance, PTL DEF NextSegmentTaken
-------------------------------------------------------------------------------
\* KCP implements the queue of messages.

\* The messages not handed out, when there are n sent and d handed out.
LEMMA UndeliveredFacts ==
    ASSUME IInv
    PROVE  /\ Undelivered \in Seq(Msgs) /\ Len(Undelivered) = Len(sent) - Len(delivered)
           /\ \A i \in 1 .. Len(sent) - Len(delivered) : Undelivered[i] = sent[Len(delivered) + i]
<1>1. Len(delivered) \in Nat /\ Len(sent) \in Nat /\ Len(delivered) <= Len(sent) /\ sent \in Seq(Msgs)
  BY DEF IInv, TypeOK, DeliveredInv
<1>. QED
  BY <1>1 DEF Undelivered

\* ikcp_send at the peer puts the message at the end of the queue.
LEMMA SendPushes ==
    ASSUME IInv, IInv', NEW m \in Msgs, Send(m)
    PROVE  Fifo!Push(m)
<1>1. PICK d \in Nat, n \in Nat : d = Len(delivered) /\ n = Len(sent) /\ d <= n
  BY DEF IInv, TypeOK, DeliveredInv
<1>2. sent' = Append(sent, m) /\ delivered' = delivered /\ sent \in Seq(Msgs)
  BY DEF Send, SendNumbered, IInv, TypeOK
<1>3. Len(sent') = n + 1 /\ sent'[n + 1] = m /\ \A i \in 1 .. n : sent'[i] = sent[i]
  BY <1>1, <1>2, AppendProperties
<1>4. /\ Undelivered \in Seq(Msgs) /\ Len(Undelivered) = n - d
      /\ \A i \in 1 .. n - d : Undelivered[i] = sent[d + i]
  BY <1>1, UndeliveredFacts
<1>5. Undelivered' = SubSeq(sent', d + 1, n + 1) /\ sent' \in Seq(Msgs)
  BY <1>1, <1>2, <1>3 DEF Undelivered
<1>6. /\ Undelivered' \in Seq(Msgs) /\ Len(Undelivered') = (n + 1) - d
      /\ \A i \in 1 .. (n + 1) - d : Undelivered'[i] = sent'[d + i]
  BY <1>1, <1>3, <1>5
<1> HIDE DEF Undelivered
<1>7. /\ Append(Undelivered, m) \in Seq(Msgs) /\ Len(Append(Undelivered, m)) = (n - d) + 1
      /\ \A i \in 1 .. n - d : Append(Undelivered, m)[i] = Undelivered[i]
      /\ Append(Undelivered, m)[(n - d) + 1] = m
  <2>1. /\ Append(Undelivered, m) \in Seq(Msgs) /\ Len(Append(Undelivered, m)) = Len(Undelivered) + 1
        /\ \A i \in 1 .. Len(Undelivered) : Append(Undelivered, m)[i] = Undelivered[i]
        /\ Append(Undelivered, m)[Len(Undelivered) + 1] = m
    BY <1>4, AppendProperties
  <2>. QED
    BY <1>4, <2>1, Zenon
<1>8. ASSUME NEW i \in 1 .. (n + 1) - d PROVE Undelivered'[i] = Append(Undelivered, m)[i]
  <2>1. Undelivered'[i] = sent'[d + i]
    BY <1>6
  <2>2. CASE i \in 1 .. n - d
    <3>1. d + i \in 1 .. n
      BY <1>1, <2>2
    <3>2. sent'[d + i] = Undelivered[i]
      BY <1>3, <1>4, <2>2, <3>1
    <3>. QED
      BY <1>7, <2>1, <2>2, <3>2
  <2>3. CASE i = (n - d) + 1
    <3>1. d + i = n + 1
      BY <1>1, <2>3
    <3>2. Append(Undelivered, m)[i] = m
      BY <1>7, <2>3, Zenon
    <3>. QED
      BY <1>3, <2>1, <3>1, <3>2, Zenon
  <2>4. i \in 1 .. n - d \/ i = (n - d) + 1
    BY <1>1
  <2>. QED
    BY <2>2, <2>3, <2>4, Zenon
<1>9. Undelivered' = Append(Undelivered, m)
  <2>1. Len(Undelivered') = Len(Append(Undelivered, m)) /\ Len(Undelivered') = (n + 1) - d
    BY <1>1, <1>6, <1>7
  <2>. QED
    BY <1>6, <1>7, <1>8, <2>1, SeqEqual
<1>. QED
  BY <1>2, <1>9 DEF Fifo!Push

\* ikcp_recv takes the first message from the queue and hands it out.
LEMMA RecvPops ==
    ASSUME IInv, IInv', Recv
    PROVE  Fifo!Pop
<1>1. PICK d \in Nat, n \in Nat : d = Len(delivered) /\ n = Len(sent) /\ d <= n
  BY DEF IInv, TypeOK, DeliveredInv
<1>2. d + 1 \in 1 .. n /\ delivered' = Append(delivered, sent[d + 1]) /\ sent' = sent
  BY <1>1, RecvFacts DEF sender
<1>3. delivered \in Seq(Msgs \union {Garbage}) /\ sent[d + 1] \in Msgs \union {Garbage} /\ sent \in Seq(Msgs)
  BY <1>1, <1>2 DEF IInv, TypeOK
<1>4. Len(delivered') = d + 1
  BY <1>1, <1>2, <1>3, AppendProperties
<1>5. /\ Undelivered \in Seq(Msgs) /\ Len(Undelivered) = n - d
      /\ \A i \in 1 .. n - d : Undelivered[i] = sent[d + i]
  BY <1>1, UndeliveredFacts
<1>6. Undelivered' = SubSeq(sent, d + 2, n)
  BY <1>1, <1>2, <1>4 DEF Undelivered
<1>7. /\ Undelivered' \in Seq(Msgs) /\ Len(Undelivered') = n - d - 1
      /\ \A i \in 1 .. n - d - 1 : Undelivered'[i] = sent[(d + 1) + i]
  BY <1>1, <1>2, <1>3, <1>6
<1> HIDE DEF Undelivered
<1>8. 1 \in 1 .. n - d /\ Undelivered # <<>> /\ Head(Undelivered) = sent[d + 1]
  BY <1>1, <1>2, <1>5
<1>9. /\ Tail(Undelivered) \in Seq(Msgs) /\ Len(Tail(Undelivered)) = n - d - 1
      /\ \A i \in 1 .. n - d - 1 : Tail(Undelivered)[i] = Undelivered[i + 1]
  BY <1>5, <1>8
<1>10. \A i \in 1 .. n - d - 1 : Undelivered'[i] = Tail(Undelivered)[i]
  <2>1. TAKE i \in 1 .. n - d - 1
  <2>2. i + 1 \in 1 .. n - d /\ d + (i + 1) = (d + 1) + i
    BY <1>1
  <2>. QED
    BY <1>5, <1>7, <1>9, <2>2
<1>11. Undelivered' = Tail(Undelivered)
  BY <1>1, <1>7, <1>9, <1>10, SeqEqual
<1>. QED
  BY <1>2, <1>8, <1>11 DEF Fifo!Pop

\* Whatever the network does, ikcp_recv hands out the messages of the peer, each whole, once and in
\* order, for every size of the windows and of the sequence numbers (ImplementsQueue).
THEOREM KcpImplementsQueue == Spec => ImplementsQueue
<1>1. Init => Fifo!Init
  BY DEF Init, Fifo!Init, Undelivered
<1>2. IInv /\ IInv' /\ [Next]_kvars => [Fifo!Next]_(Fifo!qvars)
  <2>1. SUFFICES ASSUME IInv, IInv', [Next]_kvars PROVE [Fifo!Next]_(Fifo!qvars)
    OBVIOUS
  <2>2. CASE \E m \in Msgs : Send(m)
    BY <2>1, <2>2, SendPushes DEF Fifo!Next
  <2>3. CASE \E p \in 1 .. Len(stream) : Input(p)
    BY <2>3 DEF Input, InputSegment, sender, Undelivered, Fifo!qvars
  <2>4. CASE Recv
    BY <2>1, <2>4, RecvPops DEF Fifo!Next
  <2>5. CASE UNCHANGED kvars
    BY <2>5 DEF kvars, sender, Undelivered, Fifo!qvars
  <2>. QED
    BY <2>1, <2>2, <2>3, <2>4, <2>5 DEF Next, Gone
<1>. QED
  BY <1>1, <1>2, Invariance, PTL DEF Spec, ImplementsQueue, Fifo!Spec
-------------------------------------------------------------------------------
\* The receive loop of the net thread (RecvLoop).

\* Those of the first n messages of ms that have a good length and are not among the refused
\* ones rs.
Good(ms, rs, n) == {k \in 1 .. n : Length[ms[k]] \in 1 .. MAX_ENCODE_BUF_SIZE /\ k \notin rs}

\* The messages of hs are those of ms that have a good length and were not refused, in order.
GoodOf(hs, ms, rs) ==
    /\ Len(hs) = Cardinality(Good(ms, rs, Len(ms)))
    /\ \A k \in Good(ms, rs, Len(ms)) : /\ hs[Cardinality(Good(ms, rs, k))] = ms[k]
                                        /\ DataHead <= Length[ms[k]]
    /\ \A k \in rs : k \in 1 .. Len(ms) /\ Length[ms[k]] \in 1 .. MAX_ENCODE_BUF_SIZE

\* While the loop looks at the message in front, its length stays the one peeked.
LoopInv ==
    /\ handed \in Seq(Msgs)
    /\ pc \in {"idle", "peek", "test"}
    /\ pc = "test" => iPeekLen = PeekSize % SizeMod
    /\ GoodOf(handed, delivered, refused)

\* The good ones among n messages can be counted.
LEMMA GoodCount ==
    ASSUME NEW ms, NEW rs, NEW n \in Nat
    PROVE  IsFiniteSet(Good(ms, rs, n)) /\ Cardinality(Good(ms, rs, n)) \in Nat
<1>1. IsFiniteSet(1 .. n) /\ Good(ms, rs, n) \in SUBSET (1 .. n)
  BY FS_Interval DEF Good
<1>2. IsFiniteSet(Good(ms, rs, n))
  BY <1>1, FS_Subset
<1>. QED
  BY <1>2, FS_CardinalityType

\* The place of a good message among the good ones.
LEMMA GoodPlace ==
    ASSUME NEW ms, NEW rs, NEW n \in Nat, NEW k \in Good(ms, rs, n)
    PROVE  Cardinality(Good(ms, rs, k)) \in 1 .. Cardinality(Good(ms, rs, n))
<1>1. k \in Nat /\ k \in 1 .. n /\ k \in Good(ms, rs, k)
  BY DEF Good
<1>2. /\ IsFiniteSet(Good(ms, rs, n)) /\ Cardinality(Good(ms, rs, n)) \in Nat
      /\ IsFiniteSet(Good(ms, rs, k)) /\ Cardinality(Good(ms, rs, k)) \in Nat
  BY <1>1, GoodCount
<1>3. Good(ms, rs, k) \in SUBSET Good(ms, rs, n)
  BY <1>1 DEF Good
<1>4. Cardinality(Good(ms, rs, k)) <= Cardinality(Good(ms, rs, n))
  BY <1>2, <1>3, FS_Subset
<1>5. Cardinality(Good(ms, rs, k)) # 0
  BY <1>1, <1>2, FS_EmptySet, Zenon
<1>. QED
  BY <1>2, <1>4, <1>5

\* A further message, refused or not, leaves the good ones before it what they are.
LEMMA GoodBefore ==
    ASSUME NEW S, NEW ms \in Seq(S), NEW m \in S, NEW n \in 0 .. Len(ms),
           NEW rs, NEW ss \in {rs, rs \union {Len(ms) + 1}}
    PROVE  Good(Append(ms, m), ss, n) = Good(ms, rs, n)
<1>1. \A k \in 1 .. n : Append(ms, m)[k] = ms[k] /\ k # Len(ms) + 1
  OBVIOUS
<1>2. \A k \in 1 .. n : k \in ss <=> k \in rs
  BY <1>1
<1>. QED
  BY <1>1, <1>2 DEF Good

\* A message of a good length is handed on ...
LEMMA GoodTaken ==
    ASSUME NEW S, NEW ms \in Seq(S), NEW m \in S, NEW hs \in Seq(S), NEW rs, GoodOf(hs, ms, rs),
           Length[m] \in 1 .. MAX_ENCODE_BUF_SIZE, DataHead <= Length[m]
    PROVE  GoodOf(Append(hs, m), Append(ms, m), rs)
<1>1. PICK d \in Nat : d = Len(ms)
  OBVIOUS
<1>2. PICK ns \in Seq(S) : ns = Append(ms, m)
  <2>1. Append(ms, m) \in Seq(S)
    OBVIOUS
  <2>. QED
    BY <2>1, Zenon
<1>3. Len(ns) = d + 1 /\ ns[d + 1] = m /\ \A k \in 1 .. d : ns[k] = ms[k]
  BY <1>1, <1>2
<1>0. /\ \A k \in rs : k \in 1 .. d /\ Length[ms[k]] \in 1 .. MAX_ENCODE_BUF_SIZE
      /\ \A k \in Good(ms, rs, d) : DataHead <= Length[ms[k]]
      /\ d + 1 \notin rs
  <2>1. d + 1 \notin 1 .. d
    BY <1>1
  <2>. QED
    BY <1>1, <2>1, Zenon DEF GoodOf
<1>4. Good(ns, rs, d + 1) = Good(ms, rs, d) \union {d + 1}
  BY <1>0, <1>1, <1>3 DEF Good
<1>5. d + 1 \notin Good(ms, rs, d)
  BY <1>1 DEF Good
<1>6. IsFiniteSet(Good(ms, rs, d)) /\ Cardinality(Good(ms, rs, d)) \in Nat
  BY <1>1, GoodCount
<1>7. PICK c \in Nat : c = Cardinality(Good(ms, rs, d))
  BY <1>6
<1>8. Cardinality(Good(ns, rs, d + 1)) = c + 1
  BY <1>4, <1>5, <1>6, <1>7, FS_AddElement
<1>9. Len(hs) = c
  BY <1>1, <1>7 DEF GoodOf
<1>10. PICK gs \in Seq(S) : gs = Append(hs, m)
  <2>1. Append(hs, m) \in Seq(S)
    OBVIOUS
  <2>. QED
    BY <2>1, Zenon
<1>11. Len(gs) = c + 1 /\ gs[c + 1] = m /\ \A i \in 1 .. c : gs[i] = hs[i]
  BY <1>9, <1>10
<1>12. ASSUME NEW k \in Good(ns, rs, d + 1)
       PROVE  gs[Cardinality(Good(ns, rs, k))] = ns[k] /\ DataHead <= Length[ns[k]]
  <2>1. CASE k = d + 1
    BY <2>1, <1>3, <1>8, <1>11
  <2>2. CASE k \in Good(ms, rs, d)
    <3>1. k \in 1 .. d /\ k \in 0 .. Len(ms)
      BY <2>2, <1>1 DEF Good
    <3>2. Good(ns, rs, k) = Good(ms, rs, k)
      BY <3>1, <1>2, GoodBefore
    <3>3. Cardinality(Good(ms, rs, k)) \in 1 .. c
      BY <2>2, <1>7, GoodPlace
    <3>4. hs[Cardinality(Good(ms, rs, k))] = ms[k]
      BY <2>2, <1>1 DEF GoodOf
    <3>5. DataHead <= Length[ns[k]]
      BY <2>2, <3>1, <1>0, <1>3
    <3>. QED
      BY <3>1, <3>2, <3>3, <3>4, <3>5, <1>3, <1>11
  <2>. QED
    BY <2>1, <2>2, <1>4
<1>13. \A k \in rs : k \in 1 .. d + 1 /\ Length[ns[k]] \in 1 .. MAX_ENCODE_BUF_SIZE
  <2>1. \A k \in 1 .. d : k \in 1 .. d + 1
    BY <1>1
  <2>. QED
    BY <1>0, <1>3, <2>1
<1>. QED
  BY <1>2, <1>3, <1>8, <1>10, <1>11, <1>12, <1>13 DEF GoodOf

\* ... one of a bad length is not, and one that RecvOneMsg fails for is lost.
LEMMA OthersDropped ==
    ASSUME NEW S, NEW ms \in Seq(S), NEW m \in S, NEW hs, NEW rs, GoodOf(hs, ms, rs), NEW ss,
           \/ Length[m] \notin 1 .. MAX_ENCODE_BUF_SIZE /\ ss = rs
           \/ Length[m] \in 1 .. MAX_ENCODE_BUF_SIZE /\ ss = rs \union {Len(ms) + 1}
    PROVE  GoodOf(hs, Append(ms, m), ss)
<1>1. PICK d \in Nat : d = Len(ms)
  OBVIOUS
<1>2. PICK ns \in Seq(S) : ns = Append(ms, m)
  <2>1. Append(ms, m) \in Seq(S)
    OBVIOUS
  <2>. QED
    BY <2>1, Zenon
<1>3. Len(ns) = d + 1 /\ ns[d + 1] = m /\ \A k \in 1 .. d : ns[k] = ms[k]
  BY <1>1, <1>2
<1>4. /\ \A k \in 1 .. d : k \in ss <=> k \in rs
      /\ d + 1 \notin Good(ns, ss, d + 1)
      /\ \A k \in ss : k \in 1 .. d + 1 /\ Length[ns[k]] \in 1 .. MAX_ENCODE_BUF_SIZE
  <2>1. \A k \in rs : k \in 1 .. d /\ Length[ms[k]] \in 1 .. MAX_ENCODE_BUF_SIZE
    BY <1>1 DEF GoodOf
  <2>2. \A k \in 1 .. d : k \in 1 .. d + 1 /\ k # d + 1
    BY <1>1
  <2>3. d + 1 \in 1 .. d + 1
    BY <1>1
  <2>4. CASE Length[m] \notin 1 .. MAX_ENCODE_BUF_SIZE /\ ss = rs
    BY <1>3, <2>1, <2>2, <2>4, Zenon DEF Good
  <2>5. CASE Length[m] \in 1 .. MAX_ENCODE_BUF_SIZE /\ ss = rs \union {d + 1}
    BY <1>3, <2>1, <2>2, <2>3, <2>5, ZenonT(40) DEF Good
  <2>. QED
    BY <1>1, <2>4, <2>5
<1>5. Good(ns, ss, d + 1) = Good(ms, rs, d)
  <2>1. \A k \in 1 .. d + 1 : k \in 1 .. d \/ k = d + 1
    BY <1>1
  <2>2. \A k \in 1 .. d : k \in 1 .. d + 1
    BY <1>1
  <2>3. \A k \in 1 .. d : k \in Good(ns, ss, d + 1) <=> k \in Good(ms, rs, d)
    BY <1>3, <1>4, <2>2, Zenon DEF Good
  <2>4. Good(ns, ss, d + 1) \in SUBSET (1 .. d + 1) /\ Good(ms, rs, d) \in SUBSET (1 .. d)
    BY Zenon DEF Good
  <2>. QED
    BY <1>4, <2>1, <2>3, <2>4, Zenon
<1>6. ASSUME NEW k \in Good(ns, ss, d + 1)
      PROVE  hs[Cardinality(Good(ns, ss, k))] = ns[k] /\ DataHead <= Length[ns[k]]
  <2>1. k \in 1 .. d /\ k \in 0 .. Len(ms) /\ k \in Good(ms, rs, d)
    BY <1>1, <1>5 DEF Good
  <2>2. Good(ns, ss, k) = Good(ms, rs, k)
    <3>1. ss \in {rs, rs \union {Len(ms) + 1}}
      OBVIOUS
    <3>. QED
      BY <2>1, <3>1, <1>2, GoodBefore, ZenonT(40)
  <2>3. hs[Cardinality(Good(ms, rs, k))] = ms[k] /\ DataHead <= Length[ms[k]]
    BY <2>1, <1>1 DEF GoodOf
  <2>. QED
    BY <2>1, <2>2, <2>3, <1>3
<1>7. Len(hs) = Cardinality(Good(ms, rs, d))
  BY <1>1 DEF GoodOf
<1>. QED
  BY <1>2, <1>3, <1>4, <1>5, <1>6, <1>7 DEF GoodOf

\* The size peeked is the length of the next message, or -1 as a size_t: that is longer than
\* any message may be.
LEMMA PeekFacts ==
    ASSUME IInv
    PROVE  /\ Whole => PeekSize % SizeMod = Length[sent[Len(delivered) + 1]]
           /\ ~Whole => PeekSize % SizeMod = SizeMod - 1
           /\ SizeMod - 1 \in Nat /\ MAX_ENCODE_BUF_SIZE \in Nat /\ MAX_ENCODE_BUF_SIZE < SizeMod - 1
<1>1. /\ SizeMod \in Nat \ {0} /\ SizeMod - 1 \in Nat
      /\ MAX_ENCODE_BUF_SIZE \in Nat /\ MAX_ENCODE_BUF_SIZE < SizeMod - 1
  BY LoopAssumption
<1>2. ASSUME Whole PROVE PeekSize % SizeMod = Length[sent[Len(delivered) + 1]]
  <2>1. PICK N \in Nat : N = Len(delivered) + 1
    BY DEF IInv, TypeOK
  <2>2. rcv_queue # <<>>
    BY <1>2 DEF Whole
  <2>3. sent[N] \in Msgs /\ rcv_queue[1].msg = N
    BY <2>1, <2>2, FrontFacts
  <2>4. PeekSize = Length[sent[N]]
    BY <1>2, <2>3 DEF PeekSize
  <2>5. Length[sent[N]] \in Nat /\ Length[sent[N]] < SizeMod
    BY <2>3, <1>1, KcpAssumption, LoopAssumption
  <2>6. PICK l \in Nat : l = Length[sent[N]]
    BY <2>5
  <2>7. PICK d \in Nat \ {0} : d = SizeMod
    BY <1>1
  <2>8. 0 \in Int /\ 0 = d * 0 /\ l \in 0 .. d - 1 /\ 0 + l = l
    BY <2>5, <2>6, <2>7
  <2>9. Multiple(0, d)
    BY <2>8, Zenon DEF Multiple
  <2>10. (0 + l) % d = l
    BY <2>8, <2>9, ModUnique, Zenon
  <2>. QED
    BY <2>1, <2>4, <2>6, <2>7, <2>8, <2>10
<1>3. ASSUME ~Whole PROVE PeekSize % SizeMod = SizeMod - 1
  <2>1. PeekSize = -1
    BY <1>3 DEF PeekSize
  <2>2. PICK d \in Nat \ {0} : d = SizeMod
    BY <1>1
  <2>3. -d \in Int /\ -d = d * (-1) /\ -1 \in Int /\ d - 1 \in 0 .. d - 1 /\ (-d) + (d - 1) = -1
    BY <2>2
  <2>4. Multiple(-d, d)
    BY <2>3, Zenon DEF Multiple
  <2>5. ((-d) + (d - 1)) % d = d - 1
    BY <2>3, <2>4, ModUnique, Zenon
  <2>. QED
    BY <2>1, <2>2, <2>3, <2>5
<1>. QED
  BY <1>1, <1>2, <1>3

\* The messages are all received: the loop never finds so.
LEMMA NeverAllReceived ==
    ASSUME IInv, LoopInv, pc = "test"
    PROVE  iPeekLen \in Nat /\ ~AllReceived
<1>1. iPeekLen = PeekSize % SizeMod
  BY DEF LoopInv
<1>2. CASE Whole
  <2>1. PICK N \in Nat : N = Len(delivered) + 1
    BY DEF IInv, TypeOK
  <2>2. rcv_queue # <<>>
    BY <1>2 DEF Whole
  <2>3. sent[N] \in Msgs
    BY <2>1, <2>2, FrontFacts
  <2>4. iPeekLen = Length[sent[N]]
    BY <1>1, <1>2, <2>1, PeekFacts
  <2>5. iPeekLen \in Nat
    BY <2>3, <2>4, KcpAssumption
  <2>. QED
    BY <2>5 DEF AllReceived
<1>3. CASE ~Whole
  <2>1. iPeekLen \in Nat
    BY <1>1, <1>3, PeekFacts
  <2>. QED
    BY <2>1 DEF AllReceived
<1>. QED
  BY <1>2, <1>3

\* Every step of the loop is one of KCP, or none.
LEMMA LoopIsKcp == [LoopNext]_lvars => [Next]_kvars
<1>1. SUFFICES ASSUME [LoopNext]_lvars PROVE [Next]_kvars
  OBVIOUS
<1>2. CASE \E m \in Msgs : PeerSend(m)
  BY <1>2 DEF PeerSend, Next
<1>3. CASE \E p \in 1 .. Len(stream) : InputData(p)
  BY <1>3 DEF InputData, Next
<1>4. CASE InputOther \/ Enter \/ Peek
  <2>1. UNCHANGED kvars
    BY <1>4, Zenon DEF InputOther, Enter, Peek, kvars
  <2>. QED
    BY <2>1
<1>5. CASE Test
  <2>1. Recv \/ UNCHANGED kvars
    BY <1>5, Zenon DEF Test, TakeOut, kvars
  <2>. QED
    BY <2>1 DEF Next
<1>6. CASE UNCHANGED lvars
  BY <1>6 DEF lvars
<1>7. CASE Gone
  BY <1>7 DEF Gone
<1>. QED
  BY <1>1, <1>2, <1>3, <1>4, <1>5, <1>6, <1>7 DEF LoopNext

\* What the peer sends meanwhile changes nothing of the message in front.
LEMMA SendKeepsPeek ==
    ASSUME IInv, NEW m \in Msgs, Send(m)
    PROVE  PeekSize' = PeekSize /\ UNCHANGED <<rcv_queue, delivered>>
<1>1. UNCHANGED <<rcv_queue, delivered>>
  BY Zenon DEF Send, SendNumbered, receiver
<1>2. Whole' <=> Whole
  BY <1>1 DEF Whole
<1>3. ASSUME Whole PROVE PeekSize' = PeekSize
  <2>1. PICK N \in Nat : N = Len(delivered) + 1
    BY DEF IInv, TypeOK
  <2>2. rcv_queue # <<>>
    BY <1>3 DEF Whole
  <2>3. N \in 1 .. Len(sent) /\ rcv_queue[1].msg = N
    BY <2>1, <2>2, FrontFacts
  <2>4. sent'[N] = sent[N]
    BY <2>3, SendFacts DEF IInv
  <2>. QED
    BY <1>1, <1>2, <1>3, <2>3, <2>4 DEF PeekSize
<1>4. ASSUME ~Whole PROVE PeekSize' = PeekSize
  BY <1>2, <1>4 DEF PeekSize
<1>. QED
  BY <1>1, <1>3, <1>4

\* An iteration of the loop takes out the message in front, and hands it on if its length is good
\* and RecvOneMsg does not fail.
LEMMA TestKeeps ==
    ASSUME IInv, LoopInv, Test
    PROVE  LoopInv' /\ pc' = "peek"
<1>1. pc = "test" /\ ~AllReceived
  BY NeverAllReceived DEF Test
<1>2. TakeOut /\ IF BadLength THEN UNCHANGED <<handed, refused>> ELSE Pushed \/ Refused
  BY <1>1, Zenon DEF Test
<1>3. pc' = "peek"
  BY <1>2 DEF TakeOut
<1>4. iPeekLen = PeekSize % SizeMod /\ iPeekLen \in Nat
  BY <1>1, NeverAllReceived DEF LoopInv
<1>5. /\ handed \in Seq(Msgs) /\ GoodOf(handed, delivered, refused)
      /\ delivered \in Seq(Msgs \union {Garbage}) /\ handed \in Seq(Msgs \union {Garbage})
  <2>1. handed \in Seq(Msgs) /\ GoodOf(handed, delivered, refused) /\ delivered \in Seq(Msgs \union {Garbage})
    BY DEF LoopInv, IInv, TypeOK
  <2>. QED
    BY <2>1
<1>6. handed' \in Seq(Msgs) /\ GoodOf(handed', delivered', refused')
  <2>1. CASE Whole
    <3>1. PICK N \in Nat : N = Len(delivered) + 1
      BY DEF IInv, TypeOK
    <3>2. rcv_queue # <<>>
      BY <2>1 DEF Whole
    <3>3. sent[N] \in Msgs /\ rcv_queue[1].msg = N
      BY <3>1, <3>2, FrontFacts
    <3>4. PICK m \in Msgs : m = sent[N]
      BY <3>3, Zenon
    <3>5. Recv
      BY <1>2, <2>1 DEF TakeOut
    <3>6. delivered' = Append(delivered, m)
      BY <3>1, <3>4, <3>5, RecvFacts
    <3>7. iPeekLen = Length[m]
      BY <1>4, <2>1, <3>1, <3>4, PeekFacts
    <3>8. Length[m] \in Nat /\ MAX_ENCODE_BUF_SIZE \in Nat
      BY <3>4, KcpAssumption, LoopAssumption
    <3>9. BadLength <=> Length[m] \notin 1 .. MAX_ENCODE_BUF_SIZE
      BY <3>7, <3>8 DEF BadLength
    <3>10. m \in Msgs \union {Garbage}
      OBVIOUS
    <3>11. CASE BadLength
      <4>1. handed' = handed /\ refused' = refused
        BY <1>2, <3>11
      <4>2. GoodOf(handed, Append(delivered, m), refused)
        BY <1>5, <3>9, <3>10, <3>11, OthersDropped, Zenon
      <4>. QED
        BY <1>5, <3>6, <4>1, <4>2
    <3>12. CASE ~BadLength /\ Pushed
      <4>1. handed' = Append(handed, m) /\ refused' = refused /\ DataHead <= Length[m]
        BY <3>3, <3>4, <3>7, <3>12 DEF Pushed
      <4>2. Append(handed, m) \in Seq(Msgs)
        BY <1>5
      <4>3. Length[m] \in 1 .. MAX_ENCODE_BUF_SIZE
        BY <3>9, <3>12
      <4>4. GoodOf(Append(handed, m), Append(delivered, m), refused)
        BY <1>5, <3>10, <4>1, <4>3, GoodTaken, Zenon
      <4>. QED
        BY <3>6, <4>1, <4>2, <4>4
    <3>13. CASE ~BadLength /\ Refused
      <4>1. Len(delivered') = Len(delivered) + 1
        BY <1>5, <3>6, <3>10, AppendProperties
      <4>2. handed' = handed /\ refused' = refused \union {Len(delivered) + 1}
        BY <3>13, <4>1, Zenon DEF Refused
      <4>3. Length[m] \in 1 .. MAX_ENCODE_BUF_SIZE
        BY <3>9, <3>13
      <4>4. GoodOf(handed, Append(delivered, m), refused \union {Len(delivered) + 1})
        BY <1>5, <3>10, <4>3, OthersDropped, Zenon
      <4>. QED
        BY <1>5, <3>6, <4>2, <4>4
    <3>. QED
      BY <1>2, <3>11, <3>12, <3>13
  <2>2. CASE ~Whole
    <3>1. iPeekLen = SizeMod - 1 /\ MAX_ENCODE_BUF_SIZE < iPeekLen
      BY <1>4, <2>2, PeekFacts
    <3>2. BadLength
      BY <3>1 DEF BadLength
    <3>3. UNCHANGED <<handed, refused>> /\ UNCHANGED kvars
      BY <1>2, <2>2, <3>2, Zenon DEF TakeOut
    <3>4. handed' = handed /\ delivered' = delivered /\ refused' = refused
      BY <3>3 DEF kvars
    <3>. QED
      BY <3>4, <1>5
  <2>. QED
    BY <2>1, <2>2
<1>. QED
  BY <1>3, <1>6 DEF LoopInv

\* Every step of the loop, of the peer and of the network keeps the invariant.
LEMMA LoopKeeps == IInv /\ LoopInv /\ [LoopNext]_lvars => LoopInv'
<1>1. SUFFICES ASSUME IInv, LoopInv, [LoopNext]_lvars PROVE LoopInv'
  OBVIOUS
<1>2. ASSUME NEW m \in Msgs, PeerSend(m) PROVE LoopInv'
  <2>1. Send(m) /\ UNCHANGED <<m_bNeedRecv, pc, iPeekLen, handed, refused>>
    BY <1>2, Zenon DEF PeerSend, loop
  <2>2. PeekSize' = PeekSize /\ UNCHANGED <<rcv_queue, delivered>>
    BY <1>1, <2>1, SendKeepsPeek, Zenon
  <2>. QED
    BY <1>1, <2>1, <2>2 DEF LoopInv
<1>3. ASSUME NEW p \in 1 .. Len(stream), InputData(p) PROVE LoopInv'
  <2>1. pc' = "idle" /\ UNCHANGED <<handed, refused, delivered>>
    BY <1>3, Zenon DEF InputData, Input, InputSegment
  <2>. QED
    BY <1>1, <2>1 DEF LoopInv
<1>4. ASSUME InputOther \/ Enter PROVE LoopInv'
  <2>1. pc' \in {"idle", "peek"} /\ UNCHANGED <<handed, refused, delivered>>
    BY <1>4 DEF InputOther, Enter, kvars
  <2>. QED
    BY <1>1, <2>1 DEF LoopInv
<1>5. ASSUME Peek PROVE LoopInv'
  <2>1. iPeekLen' = PeekSize % SizeMod /\ pc' = "test"
    BY <1>5, Zenon DEF Peek
  <2>2. UNCHANGED <<sent, rcv_queue, delivered, handed, refused>>
    BY <1>5, Zenon DEF Peek, kvars, sender, receiver
  <2>3. PeekSize' = PeekSize
    BY <2>2 DEF PeekSize, Whole
  <2>. QED
    BY <1>1, <2>1, <2>2, <2>3 DEF LoopInv
<1>6. ASSUME Test PROVE LoopInv'
  BY <1>1, <1>6, TestKeeps
<1>7. ASSUME UNCHANGED lvars PROVE LoopInv'
  <2>1. UNCHANGED <<sent, rcv_queue, delivered, handed, refused, pc, iPeekLen>>
    BY <1>7, Zenon DEF lvars, loop, kvars, sender, receiver
  <2>2. PeekSize' = PeekSize
    BY <2>1 DEF PeekSize, Whole
  <2>. QED
    BY <1>1, <2>1, <2>2 DEF LoopInv
<1>. QED
  BY <1>1, <1>2, <1>3, <1>4, <1>5, <1>6, <1>7 DEF LoopNext, Gone, lvars

\* Before the first message nothing is handed on.
LEMMA LoopInitInv == LoopInit => IInv /\ LoopInv
<1>1. SUFFICES ASSUME LoopInit PROVE IInv /\ LoopInv
  OBVIOUS
<1>2. IInv
  BY <1>1, InitInv DEF LoopInit
<1>3. handed = <<>> /\ delivered = <<>> /\ pc = "idle" /\ refused = {}
  BY <1>1 DEF LoopInit, Init
<1>4. Good(<<>>, {}, 0) = {}
  BY DEF Good
<1>5. GoodOf(<<>>, <<>>, {})
  BY <1>4, FS_EmptySet DEF GoodOf
<1>. QED
  BY <1>2, <1>3, <1>5 DEF LoopInv

\* The two invariants hold at every point of the loop.
LEMMA LoopInvariance == LoopSpec => [](IInv /\ LoopInv)
<1>1. IInv /\ LoopInv /\ [LoopNext]_lvars => (IInv /\ LoopInv)'
  BY NextKeeps, LoopIsKcp, LoopKeeps
<1>. QED
  BY LoopInitInv, <1>1, PTL DEF LoopSpec

\* Looked at in the loop of the net thread, KCP is still a queue of whole messages: the size peeked,
\* -1 of an empty queue among them, makes the loop take out nothing that is not there
\* (ImplementsQueue).
THEOREM LoopImplementsQueue == LoopSpec => ImplementsQueue
<1>1. LoopInit => Init
  BY DEF LoopInit
<1>2. LoopSpec => Spec
  BY <1>1, LoopIsKcp, PTL DEF LoopSpec, Spec
<1>. QED
  BY <1>2, KcpImplementsQueue

\* While the loop's invariant holds nothing else has been handed on.
LEMMA OnlyGood == LoopInv => GoodOnesHanded
<1>1. SUFFICES ASSUME LoopInv PROVE GoodOnesHanded
  OBVIOUS
<1>2. GoodOf(handed, delivered, refused)
  BY <1>1 DEF LoopInv
<1>3. \A n : GoodOnes(n) = Good(delivered, refused, n)
  BY Zenon DEF Good, GoodOnes
<1>4. \A k \in 1 .. Len(delivered) : k <= Len(delivered)
  OBVIOUS
<1>. QED
  BY <1>2, <1>3, <1>4, Zenon DEF GoodOf, GoodOnesHanded

\* The main thread's queue gets each message of a good length that was taken out of KCP, in order, and
\* no other, but for those RecvOneMsg fails for, which are lost: whatever the lengths are, and for
\* which messages it fails (GoodOnesHanded).
THEOREM OnlyGoodOnesHanded == LoopSpec => []GoodOnesHanded
<1>. QED
  BY OnlyGood, LoopInvariance, PTL

\* Once it is entered the loop is never left: the size_t it peeked into is not below 0 when the
\* messages are all received.  No message length and no modulus of size_t changes that.
THEOREM LoopNeverEnds == LoopSpec => [][pc # "idle" => pc' # "idle"]_lvars
<1>1. IInv /\ LoopInv /\ [LoopNext]_lvars => [pc # "idle" => pc' # "idle"]_lvars
  <2>1. SUFFICES ASSUME IInv, LoopInv, [LoopNext]_lvars, pc # "idle" PROVE pc' # "idle" \/ UNCHANGED lvars
    OBVIOUS
  <2>2. CASE \E m \in Msgs : PeerSend(m)
    BY <2>1, <2>2, Zenon DEF PeerSend, loop
  <2>3. CASE \E p \in 1 .. Len(stream) : InputData(p)
    BY <2>1, <2>3, Zenon DEF InputData
  <2>4. CASE InputOther \/ Enter
    BY <2>1, <2>4, Zenon DEF InputOther, Enter
  <2>5. CASE Peek
    BY <2>5 DEF Peek
  <2>6. CASE Test
    BY <2>1, <2>6, TestKeeps
  <2>7. CASE Gone /\ UNCHANGED loop
    BY <2>1, <2>7, Zenon DEF loop
  <2>. QED
    BY <2>1, <2>2, <2>3, <2>4, <2>5, <2>6, <2>7, Zenon DEF LoopNext
<1>. QED
  BY <1>1, LoopInvariance, PTL DEF LoopSpec
===============================================================================
