---------------------------- MODULE KcpLink_proofs ----------------------------
(* Proofs about KcpLink, for every window, length of messages, modulus and         *)
(* network whose datagrams are at most Lifetime late: the sending half of KCP is   *)
(* such a peer as the receiving half assumes (KeepsToRecv), so that what is        *)
(* proved of KcpRecv holds of the two together; no numbered segment is forgotten    *)
(* before it arrives and no acknowledgement makes KCP take the link for broken       *)
(* (KeptUntilArrived); and the FIN follows all reliable messages (FinAfterAll).      *)
(*                                                                               *)
(* Sequence numbers are compared by the sign of their wrapped difference.  The     *)
(* proof counts positions in the stream instead, which do not wrap: n segments are  *)
(* numbered, una of them acknowledged, and `heard` is what the client had taken      *)
(* when it last wrote to the server.  All comparisons are of positions less than     *)
(* half the modulus apart, or, of an acknowledged number, less than the modulus.     *)
(*                                                                               *)
(* The last theorem is of the instance MCKcp, in which a behaviour is of one of the   *)
(* modules on KCP: that what RecvLoop promises holds of the behaviours that are its.   *)
EXTENDS MCKcp, KcpRecv_proofs, FiniteSetTheorems

Fragment == [frg : Nat, msg : Nat \ {0}]

Flying == [sn : 0 .. SnMod - 1, frg : Nat, msg : Nat \ {0}, xmit : Nat]

LinkTypes ==
    /\ m_eState \in {"ESTABLISHED", "DISCONNET", "FIN_WAIT1"}
    /\ cleared \in BOOLEAN
    /\ snd_queue \in Seq(Fragment)
    /\ snd_buf \in Seq(Flying)
    /\ rmt_wnd \in Nat
    /\ toServer \subseteq [taken : Nat, wnd : Nat, acks : SUBSET Nat]

\* No two segments of the stream are alike.
Once ==
    \A p, r \in 1 .. Len(stream) :
        stream[p].msg = stream[r].msg /\ stream[p].frg = stream[r].frg => p = r

\* The first n segments of the stream are numbered, the others are in snd_queue.
Queued(n) ==
    /\ n + Len(snd_queue) = Len(stream)
    /\ snd_nxt = n % SnMod
    /\ \A j \in 1 .. Len(snd_queue) :
          snd_queue[j].frg = stream[n + j].frg /\ snd_queue[j].msg = stream[n + j].msg

\* The segments of buf are at the positions pos, in order.
InFlight(buf, pos, n) ==
    /\ \A i \in 1 .. Len(buf) :
          /\ pos[i] \in 1 .. n
          /\ buf[i].sn = (pos[i] - 1) % SnMod
          /\ buf[i].frg = stream[pos[i]].frg /\ buf[i].msg = stream[pos[i]].msg
    /\ \A i, j \in 1 .. Len(buf) : i < j => pos[i] < pos[j]

\* The first segments are acknowledged, una of them; the window begins there.
Window(buf, pos, n, una) ==
    /\ buf = <<>> => una = n
    /\ buf # <<>> => una = pos[1] - 1
    /\ n <= una + snd_wnd

\* A numbered segment is kept until it has arrived and the server could hear of it.
Kept(buf, pos, n, heard) ==
    \A p \in 1 .. n : \/ p \in arrived /\ p <= heard + rcv_wnd
                      \/ \E i \in 1 .. Len(buf) : pos[i] = p

\* The elements of s are segments at some of the positions in arr.
From(s, arr) == \A i \in 1 .. Len(s) : \E p \in arr : s[i] = stream[p]

\* What has arrived is what was taken and what waits in rcv_buf.
Reached(n) ==
    /\ arrived \subseteq 1 .. n
    /\ 1 .. taken \subseteq arrived
    /\ \A p \in arrived : p <= taken + rcv_wnd
    /\ From(rcv_buf, arrived)
    /\ toClient \subseteq 0 .. n

\* The numbers the client is about to acknowledge are of segments that have arrived, and
\* not too old.
Noted(heard) ==
    \A a \in acks : \E p \in arrived : a = (p - 1) % SnMod /\ heard - Lifetime - snd_wnd < p

\* So are those in datagrams to the server.
ToldOf(d) ==
    \A a \in d.acks : \E p \in arrived :
        /\ a = (p - 1) % SnMod
        /\ p <= d.taken + rcv_wnd
        /\ d.taken - Lifetime - 2 * snd_wnd - rcv_wnd < p

Told(heard) == \A d \in toServer : d.taken <= heard /\ ToldOf(d)

Flight(n, una, heard, pos) ==
    /\ Queued(n)
    /\ InFlight(snd_buf, pos, n)
    /\ Window(snd_buf, pos, n, una) /\ snd_una = una % SnMod
    /\ Kept(snd_buf, pos, n, heard)
    /\ Reached(n)
    /\ Noted(heard)
    /\ Told(heard)
    /\ heard <= taken

FlightInv ==
    \E n, una, heard \in Nat : \E pos \in [1 .. Len(snd_buf) -> Nat] : Flight(n, una, heard, pos)

FinInv == finSent => m_eState = "FIN_WAIT1" /\ arrived = 1 .. Len(stream)

LateInv == 2 * Lifetime + 2 * rcv_wnd + 3 * snd_wnd <= SnMod

\* The inductive invariant, with that of KcpRecv.
LinkInv ==
    /\ IInv
    /\ LinkTypes
    /\ FinInv
    /\ LateInv
    /\ ~cleared => Once /\ FlightInv
-------------------------------------------------------------------------------
\* Smallest and largest of two numbers.
LEMMA MinMaxTwo ==
    ASSUME NEW a \in Int, NEW b \in Int
    PROVE  /\ Min({a, b}) \in {a, b} /\ Min({a, b}) <= a /\ Min({a, b}) <= b
           /\ Max({a, b}) \in {a, b} /\ Max({a, b}) >= a /\ Max({a, b}) >= b
<1>1. \E x \in {a, b} : \A y \in {a, b} : x <= y
  BY SMT
<1>2. \E x \in {a, b} : \A y \in {a, b} : x >= y
  BY SMT
<1>3. Min({a, b}) \in {a, b} /\ \A y \in {a, b} : Min({a, b}) <= y
  BY <1>1, Zenon DEF Min
<1>4. Max({a, b}) \in {a, b} /\ \A y \in {a, b} : Max({a, b}) >= y
  BY <1>2, Zenon DEF Max
<1>. QED
  BY <1>3, <1>4, Zenon

\* The elements of s at n of its places.
Picked(s, g, n) == [k \in 1 .. n |-> s[g[k]]]

\* g lists the n places of S in their order, and At the elements of s there.
Lists(s, S, g, n) ==
    /\ At(s, S) = Picked(s, g, n)
    /\ \A j, k \in 1 .. n : j < k => g[j] < g[k]
    /\ \A i \in S : \E k \in 1 .. n : g[k] = i

\* The places taken are counted in their order.
LEMMA AtFacts ==
    ASSUME NEW N \in Nat, NEW S \in SUBSET (1 .. N), NEW s
    PROVE  \E n \in Nat : \E g \in [1 .. n -> S] : Lists(s, S, g, n)
<1> DEFINE upto(i) == {j \in S : j <= i}
           rank == [i \in S |-> Cardinality(upto(i))]
           n == Cardinality(S)
           g == [k \in 1 .. n |-> CHOOSE i \in S : Cardinality(upto(i)) = k]
<1>1. IsFiniteSet(S) /\ n \in Nat
  <2>1. IsFiniteSet(1 .. N)
    BY FS_Interval
  <2>2. IsFiniteSet(S)
    BY <2>1, FS_Subset
  <2>. QED
    BY <2>2, FS_CardinalityType
<1>0. \A i \in S : i \in Nat
  OBVIOUS
<1>2. \A i \in S : IsFiniteSet(upto(i)) /\ rank[i] \in 1 .. n
  <2>1. TAKE i \in S
  <2>2. upto(i) \in SUBSET S /\ i \in upto(i)
    OBVIOUS
  <2>3. IsFiniteSet(upto(i)) /\ Cardinality(upto(i)) <= n
    BY <1>1, <2>2, FS_Subset
  <2>4. Cardinality(upto(i)) \in Nat /\ Cardinality(upto(i)) # 0
    BY <2>2, <2>3, FS_CardinalityType, FS_EmptySet
  <2>. QED
    BY <1>1, <2>3, <2>4
<1>3. \A i, j \in S : i < j => rank[i] < rank[j]
  <2>1. SUFFICES ASSUME NEW i \in S, NEW j \in S, i < j
                 PROVE  Cardinality(upto(i)) < Cardinality(upto(j))
    OBVIOUS
  <2>2. upto(i) \in SUBSET upto(j) /\ j \in upto(j) /\ j \notin upto(i)
    <3>1. i \in Nat /\ j \in Nat /\ \A k \in S : k \in Nat
      BY <1>0
    <3>2. \A k \in S : k <= i => k <= j
      BY <2>1, <3>1
    <3>3. j <= j /\ ~ (j <= i)
      BY <2>1, <3>1
    <3>. QED
      BY <3>2, <3>3
  <2>3. /\ Cardinality(upto(i)) <= Cardinality(upto(j))
        /\ Cardinality(upto(i)) # Cardinality(upto(j))
    BY <1>2, <2>2, FS_Subset
  <2>. QED
    BY <1>2, <2>3, FS_CardinalityType
<1>4. \A k \in 1 .. n : \E i \in S : rank[i] = k
  <2>1. rank \in Injection(S, 1 .. n)
    <3>1. \A i, j \in S : rank[i] = rank[j] => i = j
      BY <1>2, <1>3
    <3>. QED
      BY <1>2, <3>1 DEF Injection, IsInjective
  <2>2. IsFiniteSet(1 .. n) /\ Cardinality(1 .. n) = n
    BY <1>1, FS_Interval
  <2>3. rank \in Surjection(S, 1 .. n)
    BY <2>1, <2>2, FS_Injection
  <2>. QED
    BY <2>3 DEF Surjection
<1>5. \A k \in 1 .. n : g[k] \in S /\ rank[g[k]] = k
  <2>1. TAKE k \in 1 .. n
  <2>2. \E i \in S : Cardinality(upto(i)) = k
    BY <1>4
  <2>. QED
    BY <2>2
<1>6. At(s, S) = Picked(s, g, n)
  BY DEF At, Picked
<1> HIDE DEF n, rank, g
<1>7. g \in [1 .. n -> S]
  BY <1>5 DEF g
<1>8. \A j, k \in 1 .. n : j < k => g[j] < g[k]
  <2>1. SUFFICES ASSUME NEW j \in 1 .. n, NEW k \in 1 .. n, j < k, ~ (g[j] < g[k])
                 PROVE  FALSE
    OBVIOUS
  <2>2. g[j] \in S /\ g[k] \in S /\ rank[g[j]] = j /\ rank[g[k]] = k
    BY <1>5
  <2>3. g[j] \in Nat /\ g[k] \in Nat
    BY <1>0, <2>2, Zenon
  <2>4. g[j] = g[k] \/ g[k] < g[j]
    BY <2>1, <2>3
  <2>5. CASE g[j] = g[k]
    <3>1. j = k
      BY <2>2, <2>5, Zenon
    <3>. QED
      BY <1>1, <2>1, <3>1
  <2>6. CASE g[k] < g[j]
    <3>1. rank[g[k]] < rank[g[j]]
      BY <1>3, <2>2, <2>6, Zenon
    <3>2. k < j
      BY <2>2, <3>1, Zenon
    <3>. QED
      BY <1>1, <2>1, <3>2
  <2>. QED
    BY <2>4, <2>5, <2>6, Zenon
<1>9. \A i \in S : \E k \in 1 .. n : g[k] = i
  <2>1. TAKE i \in S
  <2>2. rank[i] \in 1 .. n /\ g[rank[i]] \in S /\ rank[g[rank[i]]] = rank[i]
    BY <1>2, <1>5
  <2>3. g[rank[i]] = i
    <3>1. SUFFICES ASSUME g[rank[i]] # i PROVE FALSE
      OBVIOUS
    <3>2. i \in Nat /\ g[rank[i]] \in Nat
      BY <1>0, <2>2, Zenon
    <3>3. i < g[rank[i]] \/ g[rank[i]] < i
      BY <3>1, <3>2
    <3>4. rank[i] < rank[i]
      BY <1>3, <2>2, <3>3, Zenon
    <3>. QED
      BY <1>1, <2>2, <3>4
  <2>. QED
    BY <2>2, <2>3
<1>10. Lists(s, S, g, n)
  BY <1>6, <1>8, <1>9, Zenon DEF Lists
<1>. QED
  BY <1>1, <1>7, <1>10, Zenon
-------------------------------------------------------------------------------
\* The numbers a state is described with.

\* A late datagram, two windows and what follows are within half the modulus.
LEMMA LinkFacts ==
    ASSUME LinkInv
    PROVE  /\ taken \in Nat /\ Len(stream) \in Nat /\ taken <= Len(stream)
           /\ snd_wnd \in Nat \ {0} /\ rcv_wnd \in Nat \ {0} /\ Lifetime \in Nat \ {0}
           /\ SnMod > 0 /\ SnMod \in Nat /\ SnMod \in Nat \ {0}
           /\ SnMod \div 2 \in Nat /\ SnMod = 2 * (SnMod \div 2)
           /\ Lifetime + rcv_wnd + snd_wnd < SnMod \div 2
           /\ 2 * Lifetime + 2 * rcv_wnd + 3 * snd_wnd <= SnMod
           /\ rcv_nxt = taken % SnMod
<1>1. TypeOK /\ QueueInv /\ LateInv
  BY DEF LinkInv, IInv
<1>2. /\ snd_wnd \in Nat \ {0} /\ rcv_wnd \in Nat \ {0}
      /\ SnMod > 0 /\ SnMod \in Nat
  BY <1>1, WindowFacts DEF TypeOK
<1>3. SnMod \in Nat \ {0} /\ SnMod \div 2 \in Nat /\ SnMod = 2 * (SnMod \div 2)
  BY <1>2, HalfMod
<1>4. Lifetime \in Nat \ {0}
  BY LinkAssumption
<1>5. 2 * Lifetime + 2 * rcv_wnd + 3 * snd_wnd <= SnMod
  BY <1>1 DEF LateInv
<1> DEFINE h == SnMod \div 2
<1>6. h \in Nat /\ SnMod = 2 * h
  BY <1>3
<1> HIDE DEF h
<1>7. Lifetime + rcv_wnd + snd_wnd < h
  BY <1>2, <1>4, <1>5, <1>6
<1>8. taken \in Nat /\ Len(stream) \in Nat /\ taken <= Len(stream) /\ rcv_nxt = taken % SnMod
  BY <1>1 DEF TypeOK, QueueInv
<1>. QED
  BY <1>2, <1>3, <1>4, <1>5, <1>7, <1>8 DEF h

\* The server's window begins no further than the client's, as it last told of it.
LEMMA Distances ==
    ASSUME LinkInv, NEW n \in Nat, NEW una \in Nat, NEW heard \in Nat,
           NEW pos \in [1 .. Len(snd_buf) -> Nat], Flight(n, una, heard, pos)
    PROVE  /\ una <= n /\ n <= una + snd_wnd /\ n <= Len(stream)
           /\ heard <= taken /\ taken <= n
           /\ una <= heard + rcv_wnd
           /\ n <= taken + rcv_wnd + snd_wnd
<1>1. /\ taken \in Nat /\ Len(stream) \in Nat
      /\ snd_wnd \in Nat \ {0} /\ rcv_wnd \in Nat \ {0}
  BY LinkFacts
<1>2. Len(snd_buf) \in Nat /\ Len(snd_queue) \in Nat
  BY DEF LinkInv, LinkTypes
<1>3. n <= una + snd_wnd /\ heard <= taken
  BY DEF Flight, Window
<1>4. n <= Len(stream)
  BY <1>1, <1>2 DEF Flight, Queued
<1>5. taken <= n
  <2>1. CASE taken = 0
    BY <2>1
  <2>2. CASE taken # 0
    <3>1. taken \in 1 .. taken
      BY <1>1, <2>2
    <3>2. taken \in 1 .. n
      BY <3>1 DEF Flight, Reached
    <3>. QED
      BY <3>2
  <2>. QED
    BY <2>1, <2>2
<1>6. una <= n /\ \A i \in 1 .. Len(snd_buf) : una < pos[i]
  <2>1. CASE snd_buf = <<>>
    <3>1. una = n /\ 1 .. Len(snd_buf) = {}
      BY <2>1 DEF Flight, Window
    <3>. QED
      BY <3>1
  <2>2. CASE snd_buf # <<>>
    <3>1. una = pos[1] - 1 /\ 1 \in 1 .. Len(snd_buf)
      BY <1>2, <2>2 DEF Flight, Window, LinkInv, LinkTypes
    <3>2. pos[1] \in 1 .. n
      BY <3>1 DEF Flight, InFlight
    <3>3. ASSUME NEW i \in 1 .. Len(snd_buf) PROVE una < pos[i]
      <4>1. CASE i = 1
        BY <3>1, <3>2, <4>1
      <4>2. CASE i # 1
        <5>1. 1 < i
          BY <4>2
        <5>2. pos[1] < pos[i] /\ pos[i] \in Nat /\ pos[1] \in Nat
          BY <3>1, <5>1 DEF Flight, InFlight
        <5>. QED
          BY <3>1, <5>2
      <4>. QED
        BY <4>1, <4>2
    <3>. QED
      BY <3>1, <3>2, <3>3
  <2>. QED
    BY <2>1, <2>2
<1>7. una <= heard + rcv_wnd
  <2>1. CASE una = 0
    BY <1>1, <2>1
  <2>2. CASE una # 0
    <3>1. una \in 1 .. n
      BY <1>6, <2>2
    <3>2. ~ \E i \in 1 .. Len(snd_buf) : pos[i] = una
      BY <1>6
    <3>. QED
      BY <3>1, <3>2 DEF Flight, Kept
  <2>. QED
    BY <2>1, <2>2
<1>. QED
  BY <1>1, <1>3, <1>4, <1>5, <1>6, <1>7

\* A segment is found in the stream by what is in it.
LEMMA PositionFacts ==
    ASSUME Once, NEW p \in 1 .. Len(stream), NEW seg, seg.msg = stream[p].msg, seg.frg = stream[p].frg
    PROVE  Position(seg) = p
<1>1. \E r \in 1 .. Len(stream) : stream[r].msg = seg.msg /\ stream[r].frg = seg.frg
  BY Zenon
<1>2. /\ Position(seg) \in 1 .. Len(stream)
      /\ stream[Position(seg)].msg = seg.msg /\ stream[Position(seg)].frg = seg.frg
  BY <1>1, Zenon DEF Position
<1>. QED
  BY <1>2, Zenon DEF Once
-------------------------------------------------------------------------------
\* ikcp_send numbers its segments as KcpRecv says: they follow those of the stream.
LEMMA SendMsgSends ==
    ASSUME LinkInv, ~cleared, NEW m \in Msgs, SendMsg(m)
    PROVE  Send(m)
<1>1. PICK n \in Nat, una \in Nat, heard \in Nat, pos \in [1 .. Len(snd_buf) -> Nat] :
         Flight(n, una, heard, pos)
  BY DEF LinkInv, FlightInv
<1>2. SnMod \in Nat \ {0} /\ Len(stream) \in Nat /\ Len(snd_queue) \in Nat
  BY LinkFacts DEF LinkInv, LinkTypes
<1>3. n + Len(snd_queue) = Len(stream) /\ snd_nxt = n % SnMod
  BY <1>1 DEF Flight, Queued
<1>4. FragCount(m) \in Nat \ {0}
  BY FragCountType
<1>5. \A k \in 1 .. FragCount(m) :
         (snd_nxt + Len(snd_queue) + k - 1) % SnMod = (Len(stream) + k - 1) % SnMod
  <2>1. TAKE k \in 1 .. FragCount(m)
  <2>2. Len(snd_queue) + k - 1 \in Nat
    BY <1>2, <1>4
  <2>3. ((n % SnMod) + (Len(snd_queue) + k - 1)) % SnMod = (n + (Len(snd_queue) + k - 1)) % SnMod
    BY <1>2, <2>2, ModAdd, Zenon
  <2>4. n % SnMod \in Nat
    BY <1>2
  <2>5. (n % SnMod) + (Len(snd_queue) + k - 1) = snd_nxt + Len(snd_queue) + k - 1
    BY <1>2, <1>3, <1>4, <2>4
  <2>6. n + (Len(snd_queue) + k - 1) = Len(stream) + k - 1
    BY <1>2, <1>3, <1>4
  <2>. QED
    BY <2>3, <2>5, <2>6
<1>6. Fragments(m, Len(sent) + 1, snd_nxt + Len(snd_queue)) = Fragments(m, Len(sent) + 1, Len(stream))
  BY <1>5, Zenon DEF Fragments
<1>. QED
  BY <1>6 DEF SendMsg, SendNumbered, Send

\* A message is sent: its segments are new ones, and wait behind the others.
LEMMA SendMsgKeeps ==
    ASSUME LinkInv, ~cleared, NEW m \in Msgs, SendMsg(m)
    PROVE  [Next]_kvars /\ LinkInv'
<1>1. PICK n \in Nat, una \in Nat, heard \in Nat, pos \in [1 .. Len(snd_buf) -> Nat] :
         Flight(n, una, heard, pos)
  BY DEF LinkInv, FlightInv
<1>2. Send(m)
  BY SendMsgSends
<1>3. Next /\ IInv'
  <2>1. Next
    BY <1>2, Zenon DEF Next
  <2>. QED
    BY <2>1, NextKeeps DEF LinkInv
<1> DEFINE F == FragCount(m)
           parts == [k \in 1 .. F |-> [frg |-> F - k, msg |-> Len(sent) + 1]]
<1>4. /\ F \in Nat \ {0} /\ Len(sent) \in Nat
      /\ stream' \in Seq(Segment) /\ Len(stream') = Len(stream) + F /\ Len(stream) \in Nat
      /\ \A p \in 1 .. Len(stream) : stream'[p] = stream[p]
      /\ \A k \in 1 .. F : /\ stream'[Len(stream) + k].frg = F - k
                           /\ stream'[Len(stream) + k].msg = Len(sent) + 1
  <2>1. TypeOK
    BY DEF LinkInv, IInv
  <2>2. /\ F \in Nat \ {0} /\ stream' \in Seq(Segment) /\ Len(stream') = Len(stream) + F
        /\ \A p \in 1 .. Len(stream) : stream'[p] = stream[p]
        /\ \A k \in 1 .. F : stream'[Len(stream) + k] =
                    [sn |-> (Len(stream) + k - 1) % SnMod, frg |-> F - k, msg |-> Len(sent) + 1]
    BY <1>2, <2>1, SendFacts
  <2>3. \A k \in 1 .. F : /\ stream'[Len(stream) + k].frg = F - k
                          /\ stream'[Len(stream) + k].msg = Len(sent) + 1
    <3>1. TAKE k \in 1 .. F
    <3>2. stream'[Len(stream) + k] =
                    [sn |-> (Len(stream) + k - 1) % SnMod, frg |-> F - k, msg |-> Len(sent) + 1]
      BY <2>2, Zenon
    <3> HIDE DEF F
    <3>. QED
      BY <3>2
  <2>4. Len(sent) \in Nat /\ Len(stream) \in Nat
    BY <2>1 DEF TypeOK
  <2> HIDE DEF F
  <2>. QED
    BY <2>2, <2>3, <2>4, Zenon
<1> HIDE DEF F
<1>5. UNCHANGED <<snd_una, snd_nxt, snd_buf, rmt_wnd, toServer, toClient, acks, arrived, m_eState, finSent, cleared,
                  taken, rcv_buf, snd_wnd, rcv_wnd>>
  BY DEF SendMsg, SendNumbered, receiver, windows
<1>6. /\ snd_queue' \in Seq(Fragment) /\ Len(snd_queue') = Len(snd_queue) + F /\ Len(snd_queue) \in Nat
      /\ \A j \in 1 .. Len(snd_queue) : snd_queue'[j] = snd_queue[j]
      /\ \A k \in 1 .. F : /\ snd_queue'[Len(snd_queue) + k].frg = F - k
                           /\ snd_queue'[Len(snd_queue) + k].msg = Len(sent) + 1
  <2>1. \A k \in 1 .. F : [frg |-> F - k, msg |-> Len(sent) + 1] \in Fragment
    <3>1. TAKE k \in 1 .. F
    <3>2. F - k \in Nat /\ Len(sent) + 1 \in Nat \ {0}
      BY <1>4
    <3>. QED
      BY <3>2 DEF Fragment
  <2>2. parts \in Seq(Fragment) /\ Len(parts) = F
    <3>1. F \in Nat
      BY <1>4
    <3>. QED
      BY <2>1, <3>1
  <2>3. snd_queue \in Seq(Fragment) /\ snd_queue' = snd_queue \o parts
    BY DEF LinkInv, LinkTypes, SendMsg, F
  <2>4. \A k \in 1 .. F : parts[k].frg = F - k /\ parts[k].msg = Len(sent) + 1
    OBVIOUS
  <2> HIDE DEF parts
  <2>5. /\ snd_queue \o parts \in Seq(Fragment) /\ Len(snd_queue \o parts) = Len(snd_queue) + F
        /\ \A i \in 1 .. Len(snd_queue) + F :
              (snd_queue \o parts)[i] = IF i <= Len(snd_queue) THEN snd_queue[i] ELSE parts[i - Len(snd_queue)]
    BY <2>2, <2>3, ConcatProperties
  <2>6. \A k \in 1 .. F : /\ Len(snd_queue) + k \in 1 .. Len(snd_queue) + F
                          /\ ~ (Len(snd_queue) + k <= Len(snd_queue))
                          /\ (Len(snd_queue) + k) - Len(snd_queue) = k
    BY <1>4, <2>3
  <2>7. \A k \in 1 .. F : snd_queue'[Len(snd_queue) + k] = parts[k]
    BY <2>3, <2>5, <2>6
  <2>8. Len(snd_queue) \in Nat
    BY <2>3
  <2>9. \A j \in 1 .. Len(snd_queue) : j \in 1 .. Len(snd_queue) + F /\ j <= Len(snd_queue)
    BY <1>4, <2>8
  <2>10. \A j \in 1 .. Len(snd_queue) : snd_queue'[j] = snd_queue[j]
    BY <2>3, <2>5, <2>9
  <2>11. \A k \in 1 .. F : /\ snd_queue'[Len(snd_queue) + k].frg = F - k
                           /\ snd_queue'[Len(snd_queue) + k].msg = Len(sent) + 1
    BY <2>4, <2>7, Zenon
  <2>12. snd_queue' \in Seq(Fragment) /\ Len(snd_queue') = Len(snd_queue) + F
    BY <2>3, <2>5, Zenon
  <2>. QED
    BY <2>8, <2>10, <2>11, <2>12, Zenon
<1>7. LinkTypes'
  BY <1>5, <1>6 DEF LinkInv, LinkTypes
<1>8. FinInv' /\ LateInv'
  BY <1>5 DEF LinkInv, FinInv, LateInv, SendMsg
<1>9. Once'
  <2>1. \A p \in 1 .. Len(stream) : stream[p].msg \in 1 .. Len(sent)
    BY DEF LinkInv, IInv, StreamInv, Sound
  <2>2. ASSUME NEW p \in 1 .. Len(stream')
        PROVE  p \in 1 .. Len(stream) \/ \E k \in 1 .. F : p = Len(stream) + k
    <3>1. p \in 1 .. Len(stream) \/ (p - Len(stream) \in 1 .. F /\ p = Len(stream) + (p - Len(stream)))
      BY <1>4
    <3>. QED
      BY <3>1, Zenon
  <2>3. SUFFICES ASSUME NEW p \in 1 .. Len(stream'), NEW r \in 1 .. Len(stream'),
                        stream'[p].msg = stream'[r].msg, stream'[p].frg = stream'[r].frg
                 PROVE  p = r
    BY DEF Once
  <2>4. CASE p \in 1 .. Len(stream) /\ r \in 1 .. Len(stream)
    <3>1. stream[p].msg = stream[r].msg /\ stream[p].frg = stream[r].frg
      BY <1>4, <2>3, <2>4
    <3>. QED
      BY <2>4, <3>1 DEF LinkInv, Once
  <2>5. CASE p \in 1 .. Len(stream) /\ \E k \in 1 .. F : r = Len(stream) + k
    <3>1. stream'[r].msg = Len(sent) + 1 /\ stream'[p].msg \in 1 .. Len(sent)
      BY <1>4, <2>1, <2>5
    <3>. QED
      BY <1>4, <2>3, <3>1
  <2>6. CASE r \in 1 .. Len(stream) /\ \E k \in 1 .. F : p = Len(stream) + k
    <3>1. stream'[p].msg = Len(sent) + 1 /\ stream'[r].msg \in 1 .. Len(sent)
      BY <1>4, <2>1, <2>6
    <3>. QED
      BY <1>4, <2>3, <3>1
  <2>7. CASE (\E k \in 1 .. F : p = Len(stream) + k) /\ (\E k \in 1 .. F : r = Len(stream) + k)
    <3>1. PICK k \in 1 .. F, l \in 1 .. F : p = Len(stream) + k /\ r = Len(stream) + l
      BY <2>7
    <3>2. F - k = F - l
      BY <1>4, <2>3, <3>1
    <3>. QED
      BY <1>4, <3>1, <3>2
  <2>. QED
    BY <2>2, <2>4, <2>5, <2>6, <2>7, Zenon
<1>10. n + Len(snd_queue) = Len(stream) /\ n <= Len(stream)
  BY <1>1, <1>4, <1>6 DEF Flight, Queued
<1>11. Queued(n)'
  <2>1. n + Len(snd_queue') = Len(stream')
    <3>1. n \in Nat /\ Len(snd_queue) \in Nat /\ F \in Nat /\ Len(snd_queue') = Len(snd_queue) + F
      BY <1>1, <1>4, <1>6
    <3>2. n + Len(snd_queue) = Len(stream) /\ Len(stream') = Len(stream) + F
      BY <1>4, <1>10
    <3>. QED
      BY <3>1, <3>2
  <2>2. ASSUME NEW j \in 1 .. Len(snd_queue')
        PROVE  snd_queue'[j].frg = stream'[n + j].frg /\ snd_queue'[j].msg = stream'[n + j].msg
    <3>1. CASE j \in 1 .. Len(snd_queue)
      <4>1. n + j \in 1 .. Len(stream)
        BY <1>4, <1>6, <1>10, <3>1, SMTT(30)
      <4>2. snd_queue[j].frg = stream[n + j].frg /\ snd_queue[j].msg = stream[n + j].msg
        BY <1>1, <3>1 DEF Flight, Queued
      <4>. QED
        BY <1>4, <1>6, <3>1, <4>1, <4>2
    <3>2. CASE ~ (j \in 1 .. Len(snd_queue))
      <4>1. j - Len(snd_queue) \in 1 .. F
        BY <1>4, <1>6, <3>2
      <4>2. PICK k \in 1 .. F : k = j - Len(snd_queue)
        BY <4>1
      <4>3. j = Len(snd_queue) + k /\ n + j = Len(stream) + k
        <5>1. n \in Nat /\ Len(snd_queue) \in Nat /\ j \in Int /\ k \in Int
          BY <1>1, <1>4, <1>6
        <5>. QED
          BY <1>10, <4>2, <5>1
      <4>. QED
        BY <1>4, <1>6, <4>3
    <3>. QED
      BY <3>1, <3>2
  <2>3. snd_nxt' = n % SnMod
    BY <1>1, <1>5 DEF Flight, Queued
  <2>. QED
    BY <2>1, <2>2, <2>3 DEF Queued
<1>12. \A p \in 1 .. n : stream'[p] = stream[p]
  BY <1>4, <1>10
<1>13. InFlight(snd_buf, pos, n)'
  BY <1>1, <1>5, <1>12 DEF Flight, InFlight
<1>14. (Window(snd_buf, pos, n, una) /\ snd_una = una % SnMod /\ Kept(snd_buf, pos, n, heard))'
  BY <1>1, <1>5 DEF Flight, Window, Kept
<1>15. Reached(n)'
  BY <1>1, <1>5, <1>12 DEF Flight, Reached, From
<1>16. (Noted(heard) /\ Told(heard) /\ heard <= taken)'
  BY <1>1, <1>5 DEF Flight, Noted, Told, ToldOf
<1>17. Flight(n, una, heard, pos)'
  BY <1>11, <1>13, <1>14, <1>15, <1>16 DEF Flight
<1>18. FlightInv'
  BY <1>5, <1>17, Zenon DEF FlightInv
<1>. QED
  BY <1>3, <1>7, <1>8, <1>9, <1>18 DEF LinkInv
-------------------------------------------------------------------------------
\* ikcp_flush numbers no more segments than the send window has room for.
LEMMA MovedFacts ==
    ASSUME LinkInv, NEW n \in Nat, NEW una \in Nat, NEW heard \in Nat,
           NEW pos \in [1 .. Len(snd_buf) -> Nat], Flight(n, una, heard, pos)
    PROVE  Moved \in 0 .. Len(snd_queue) /\ n + Moved <= una + snd_wnd
<1>1. /\ snd_wnd \in Nat \ {0} /\ rcv_wnd \in Nat \ {0} /\ Lifetime \in Nat \ {0}
      /\ SnMod > 0 /\ SnMod \div 2 \in Nat /\ Lifetime + rcv_wnd + snd_wnd < SnMod \div 2
  BY LinkFacts
<1>2. una <= n /\ n <= una + snd_wnd
  BY Distances
<1>3. rmt_wnd \in Nat /\ Len(snd_queue) \in Nat
  BY DEF LinkInv, LinkTypes
<1>4. snd_nxt = n % SnMod /\ snd_una = una % SnMod
  BY DEF Flight, Queued
<1>5. itimediff(snd_nxt, snd_una) = n - una
  <2>1. -(SnMod \div 2) <= n - una /\ n - una < SnMod \div 2
    BY <1>1, <1>2
  <2>2. itimediff(n % SnMod, una % SnMod) = n - una
    BY <1>1, <2>1, DiffExact, Zenon
  <2>. QED
    BY <1>4, <2>2
<1>6. PICK window \in Int : window = Min({snd_wnd, rmt_wnd}) /\ window \in {snd_wnd, rmt_wnd} /\ window <= snd_wnd
  <2>1. snd_wnd \in Int /\ rmt_wnd \in Int
    BY <1>1, <1>3
  <2>2. Min({snd_wnd, rmt_wnd}) \in {snd_wnd, rmt_wnd} /\ Min({snd_wnd, rmt_wnd}) <= snd_wnd
    BY <2>1, MinMaxTwo, Zenon
  <2>3. Min({snd_wnd, rmt_wnd}) \in Int
    BY <2>1, <2>2, Zenon
  <2>. QED
    BY <2>2, <2>3, Zenon
<1>7. PICK room \in Int : /\ room = Max({0, window - (n - una)})
                          /\ room \in {0, window - (n - una)} /\ room >= 0
  <2>1. 0 \in Int /\ window - (n - una) \in Int
    BY <1>6
  <2>2. /\ Max({0, window - (n - una)}) \in {0, window - (n - una)}
        /\ Max({0, window - (n - una)}) >= 0
    BY <2>1, MinMaxTwo, Zenon
  <2>3. Max({0, window - (n - una)}) \in Int
    BY <2>1, <2>2, Zenon
  <2>. QED
    BY <2>2, <2>3, Zenon
<1>8. room \in Nat /\ n + room <= una + snd_wnd /\ Moved = Min({Len(snd_queue), room})
  <2>1. Moved = Min({Len(snd_queue), room})
    BY <1>5, <1>6, <1>7 DEF Moved
  <2>2. room \in {0, window - (n - una)} /\ room >= 0
    BY <1>7
  <2>. QED
    BY <1>1, <1>2, <1>6, <2>1, <2>2
<1>9. Moved \in {Len(snd_queue), room} /\ Moved <= Len(snd_queue) /\ Moved <= room
  <2>1. room \in Int /\ Len(snd_queue) \in Int
    BY <1>3, <1>8
  <2>. QED
    BY <1>8, <2>1, MinMaxTwo, Zenon
<1>10. Moved \in Nat
  BY <1>3, <1>8, <1>9
<1>. QED
  BY <1>1, <1>3, <1>8, <1>9, <1>10

\* snd_buf with the newly numbered segments.
LEMMA NumberedFacts ==
    ASSUME LinkInv, NEW n \in Nat, NEW una \in Nat, NEW heard \in Nat,
           NEW pos \in [1 .. Len(snd_buf) -> Nat], Flight(n, una, heard, pos)
    PROVE  \E M \in 0 .. Len(snd_queue) : \E at \in [1 .. Len(snd_buf) + M -> Nat] :
              /\ Moved = M
              /\ Numbered \in Seq(Flying) /\ Len(Numbered) = Len(snd_buf) + M
              /\ InFlight(Numbered, at, n + M)
              /\ Window(Numbered, at, n + M, una)
              /\ Kept(Numbered, at, n + M, heard)
<1>1. PICK M \in 0 .. Len(snd_queue) : M = Moved /\ n + M <= una + snd_wnd
  BY MovedFacts, Zenon
<1>2. /\ snd_buf \in Seq(Flying) /\ snd_queue \in Seq(Fragment)
      /\ Len(snd_buf) \in Nat /\ Len(snd_queue) \in Nat
      /\ M \in Nat /\ M <= Len(snd_queue) /\ SnMod \in Nat \ {0}
  <2>1. SnMod \in Nat \ {0}
    BY LinkFacts
  <2>2. snd_buf \in Seq(Flying) /\ snd_queue \in Seq(Fragment)
    BY Zenon DEF LinkInv, LinkTypes
  <2>3. Len(snd_buf) \in Nat /\ Len(snd_queue) \in Nat
    BY <2>2
  <2>4. M \in Nat /\ M <= Len(snd_queue)
    BY <1>1, <2>3
  <2>. QED
    BY <2>1, <2>2, <2>3, <2>4, Zenon
<1>3. PICK B \in Nat : B = Len(snd_buf)
  BY <1>2
<1> DEFINE new(j) == [sn |-> (snd_nxt + j - 1) % SnMod, frg |-> snd_queue[j].frg,
                      msg |-> snd_queue[j].msg, xmit |-> 0]
           news == [j \in 1 .. M |-> new(j)]
           at == [i \in 1 .. B + M |-> IF i <= B THEN pos[i] ELSE n + (i - B)]
<1>4. /\ n + Len(snd_queue) = Len(stream) /\ snd_nxt = n % SnMod
      /\ \A j \in 1 .. M : snd_queue[j].frg = stream[n + j].frg /\ snd_queue[j].msg = stream[n + j].msg
  BY <1>2, SMTT(30) DEF Flight, Queued
<1>5. \A j \in 1 .. M : (snd_nxt + j - 1) % SnMod = (n + j - 1) % SnMod
  <2>1. TAKE j \in 1 .. M
  <2>2. j - 1 \in Nat /\ n % SnMod \in Nat
    BY <1>2
  <2>3. ((n % SnMod) + (j - 1)) % SnMod = (n + (j - 1)) % SnMod
    BY <1>2, <2>2, ModAdd, Zenon
  <2>. QED
    BY <1>2, <1>4, <2>2, <2>3
<1>6. \A j \in 1 .. M : new(j) \in Flying
  <2>1. TAKE j \in 1 .. M
  <2>2. snd_queue[j] \in Fragment
    BY <1>2
  <2>3. snd_queue[j].frg \in Nat /\ snd_queue[j].msg \in Nat \ {0}
    BY <2>2 DEF Fragment
  <2>4. (n + j - 1) % SnMod \in 0 .. SnMod - 1
    BY <1>2
  <2>5. (snd_nxt + j - 1) % SnMod \in 0 .. SnMod - 1 /\ 0 \in Nat
    BY <1>5, <2>4
  <2>. QED
    BY <2>3, <2>5, Zenon DEF Flying
<1>7. Numbered = snd_buf \o news
  BY <1>1, Zenon DEF Numbered
<1> HIDE DEF new
<1>8. news \in Seq(Flying) /\ Len(news) = M /\ \A j \in 1 .. M : news[j] = new(j)
  BY <1>2, <1>6
<1> HIDE DEF news
<1>9. /\ Numbered \in Seq(Flying) /\ Len(Numbered) = B + M
      /\ \A i \in 1 .. B : Numbered[i] = snd_buf[i]
      /\ \A j \in 1 .. M : Numbered[B + j] = new(j)
  <2>1. /\ snd_buf \o news \in Seq(Flying) /\ Len(snd_buf \o news) = B + M
        /\ \A i \in 1 .. B + M : (snd_buf \o news)[i] = IF i <= B THEN snd_buf[i] ELSE news[i - B]
    BY <1>2, <1>3, <1>8, ConcatProperties, ZenonT(40)
  <2>2. \A j \in 1 .. M : B + j \in 1 .. B + M /\ ~ (B + j <= B) /\ (B + j) - B = j
    BY <1>2
  <2>3. \A i \in 1 .. B : i \in 1 .. B + M /\ i <= B
    BY <1>2
  <2>. QED
    BY <1>7, <1>8, <2>1, <2>2, <2>3
<1>10. /\ \A i \in 1 .. B : pos[i] \in 1 .. n /\ at[i] = pos[i]
       /\ \A j \in 1 .. M : B + j \in 1 .. B + M /\ at[B + j] = n + j
  <2>1. \A i \in 1 .. B : pos[i] \in 1 .. n
    BY <1>3 DEF Flight, InFlight
  <2>2. \A i \in 1 .. B : i \in 1 .. B + M /\ i <= B
    BY <1>2
  <2>3. \A j \in 1 .. M : B + j \in 1 .. B + M /\ ~ (B + j <= B) /\ n + ((B + j) - B) = n + j
    BY <1>2
  <2>. QED
    BY <2>1, <2>2, <2>3
<1> HIDE DEF at
<1>11. \A i \in 1 .. B + M : i \in 1 .. B \/ \E j \in 1 .. M : i = B + j
  <2>1. TAKE i \in 1 .. B + M
  <2>2. i \in 1 .. B \/ (i - B \in 1 .. M /\ i = B + (i - B))
    BY <1>2
  <2>. QED
    BY <2>2, Zenon
<1>12. at \in [1 .. Len(snd_buf) + M -> Nat]
  <2>1. \A i \in 1 .. B + M : at[i] \in Nat
    <3>1. TAKE i \in 1 .. B + M
    <3>2. CASE i \in 1 .. B
      BY <1>10, <3>2
    <3>3. CASE \E j \in 1 .. M : i = B + j
      <4>1. PICK j \in 1 .. M : i = B + j /\ at[i] = n + j
        BY <1>10, <3>3
      <4>. QED
        BY <1>2, <4>1
    <3>. QED
      BY <1>11, <3>2, <3>3, Zenon
  <2>. QED
    BY <1>3, <2>1 DEF at
<1>13. InFlight(Numbered, at, n + M)
  <2>1. ASSUME NEW i \in 1 .. Len(Numbered)
        PROVE  /\ at[i] \in 1 .. n + M
               /\ Numbered[i].sn = (at[i] - 1) % SnMod
               /\ Numbered[i].frg = stream[at[i]].frg /\ Numbered[i].msg = stream[at[i]].msg
    <3>1. i \in 1 .. B \/ \E j \in 1 .. M : i = B + j
      BY <1>9, <1>11
    <3>2. CASE i \in 1 .. B
      <4>1. /\ snd_buf[i].sn = (pos[i] - 1) % SnMod
            /\ snd_buf[i].frg = stream[pos[i]].frg /\ snd_buf[i].msg = stream[pos[i]].msg
        BY <1>3, <3>2 DEF Flight, InFlight
      <4>2. pos[i] \in 1 .. n + M
        BY <1>2, <1>10, <3>2
      <4>. QED
        BY <1>9, <1>10, <3>2, <4>1, <4>2
    <3>3. CASE \E j \in 1 .. M : i = B + j
      <4>1. PICK j \in 1 .. M : i = B + j
        BY <3>3
      <4>2. Numbered[i] = new(j) /\ at[i] = n + j
        BY <1>9, <1>10, <4>1
      <4>3. /\ new(j).sn = (n + j - 1) % SnMod
            /\ new(j).frg = stream[n + j].frg /\ new(j).msg = stream[n + j].msg
        BY <1>4, <1>5 DEF new
      <4>4. n + j \in 1 .. n + M
        BY <1>2
      <4>. QED
        BY <4>2, <4>3, <4>4
    <3>. QED
      BY <3>1, <3>2, <3>3, Zenon
  <2>2. ASSUME NEW i \in 1 .. Len(Numbered), NEW k \in 1 .. Len(Numbered), i < k
        PROVE  at[i] < at[k]
    <3>1. i \in 1 .. B + M /\ k \in 1 .. B + M
      BY <1>9
    <3>2. CASE k \in 1 .. B
      <4>1. i \in 1 .. B
        BY <1>2, <2>2, <3>1, <3>2
      <4>2. pos[i] < pos[k]
        BY <1>3, <2>2, <3>2, <4>1 DEF Flight, InFlight
      <4>. QED
        BY <1>10, <3>2, <4>1, <4>2
    <3>3. CASE \E j \in 1 .. M : k = B + j
      <4>1. PICK j \in 1 .. M : k = B + j /\ at[k] = n + j
        BY <1>10, <3>3
      <4>2. CASE i \in 1 .. B
        <5>1. at[i] \in 1 .. n
          BY <1>10, <4>2
        <5>. QED
          BY <4>1, <5>1
      <4>3. CASE \E l \in 1 .. M : i = B + l
        <5>1. PICK l \in 1 .. M : i = B + l /\ at[i] = n + l
          BY <1>10, <4>3
        <5>2. l < j
          BY <1>2, <2>2, <4>1, <5>1
        <5>. QED
          BY <1>2, <4>1, <5>1, <5>2
      <4>. QED
        BY <1>11, <3>1, <4>2, <4>3, Zenon
    <3>. QED
      BY <1>11, <3>1, <3>2, <3>3, Zenon
  <2>. QED
    BY <2>1, <2>2, Zenon DEF InFlight
<1>14. Window(Numbered, at, n + M, una)
  <2>1. CASE B = 0
    <3>1. snd_buf = <<>>
      <4>1. snd_buf \in Seq(Flying) /\ Len(snd_buf) = 0
        BY <1>2, <1>3, <2>1, Zenon
      <4>. QED
        BY <4>1
    <3>2. una = n
      BY <3>1 DEF Flight, Window
    <3>3. CASE M = 0
      <4>1. Len(Numbered) = 0
        BY <1>9, <2>1, <3>3
      <4>2. Numbered = <<>>
        BY <1>9, <4>1
      <4>. QED
        BY <1>1, <3>2, <3>3, <4>2 DEF Window
    <3>4. CASE M # 0
      <4>1. 1 \in 1 .. M
        BY <1>2, <3>4
      <4>2. at[1] = n + 1
        BY <1>10, <2>1, <4>1
      <4>3. Numbered # <<>>
        BY <1>2, <1>9, <2>1, <3>4
      <4>. QED
        BY <1>1, <3>2, <4>2, <4>3 DEF Window
    <3>. QED
      BY <3>3, <3>4
  <2>2. CASE B # 0
    <3>1. snd_buf # <<>> /\ 1 \in 1 .. B
      BY <1>3, <2>2
    <3>2. una = pos[1] - 1 /\ at[1] = pos[1]
      BY <1>10, <3>1 DEF Flight, Window
    <3>3. Numbered # <<>>
      BY <1>2, <1>9, <2>2
    <3>. QED
      BY <1>1, <3>2, <3>3 DEF Window
  <2>. QED
    BY <2>1, <2>2
<1>15. Kept(Numbered, at, n + M, heard)
  <2>1. SUFFICES ASSUME NEW p \in 1 .. n + M
                 PROVE  \/ p \in arrived /\ p <= heard + rcv_wnd
                        \/ \E i \in 1 .. Len(Numbered) : at[i] = p
    BY Zenon DEF Kept
  <2>2. CASE p \in 1 .. n
    <3>1. (p \in arrived /\ p <= heard + rcv_wnd) \/ \E i \in 1 .. B : pos[i] = p
      BY <1>3, <2>2 DEF Flight, Kept
    <3>2. \A i \in 1 .. B : i \in 1 .. Len(Numbered)
      BY <1>2, <1>9
    <3>. QED
      BY <1>10, <3>1, <3>2
  <2>3. CASE ~ (p \in 1 .. n)
    <3>1. p - n \in 1 .. M
      BY <1>2, <2>3
    <3>2. B + (p - n) \in 1 .. Len(Numbered) /\ at[B + (p - n)] = n + (p - n)
      BY <1>9, <1>10, <3>1
    <3>3. n + (p - n) = p
      OBVIOUS
    <3>. QED
      BY <3>2, <3>3
  <2>. QED
    BY <2>2, <2>3
<1>. QED
  BY <1>1, <1>3, <1>9, <1>12, <1>13, <1>14, <1>15, Zenon

\* NetConnect::Proc numbers segments, and sends them and those that are due; the FIN once
\* nothing is waiting.
LEMMA ProcKeeps ==
    ASSUME LinkInv, ~cleared, NEW due \in SUBSET (1 .. Len(snd_buf)), NEW probeDue \in BOOLEAN, Proc(due, probeDue)
    PROVE  [Next]_kvars /\ LinkInv'
<1>1. PICK n \in Nat, una \in Nat, heard \in Nat, pos \in [1 .. Len(snd_buf) -> Nat] :
         Flight(n, una, heard, pos)
  BY DEF LinkInv, FlightInv
<1>0. PICK M \in 0 .. Len(snd_queue) : \E at \in [1 .. Len(snd_buf) + M -> Nat] :
              /\ Moved = M
              /\ Numbered \in Seq(Flying) /\ Len(Numbered) = Len(snd_buf) + M
              /\ InFlight(Numbered, at, n + M)
              /\ Window(Numbered, at, n + M, una)
              /\ Kept(Numbered, at, n + M, heard)
  BY <1>1, NumberedFacts
<1>2. PICK at \in [1 .. Len(snd_buf) + M -> Nat] :
              /\ Moved = M
              /\ Numbered \in Seq(Flying) /\ Len(Numbered) = Len(snd_buf) + M
              /\ InFlight(Numbered, at, n + M)
              /\ Window(Numbered, at, n + M, una)
              /\ Kept(Numbered, at, n + M, heard)
  BY <1>0
<1>3. PICK buf : buf = Numbered
  OBVIOUS
<1>4. UNCHANGED kvars /\ Flush(due, probeDue)
  BY DEF Proc
<1>5. /\ UNCHANGED <<snd_una, rmt_wnd, toServer, acks, arrived, cleared, stream, taken, rcv_buf, snd_wnd, rcv_wnd>>
      /\ finSent' = (finSent \/ Finishes)
      /\ m_eState' = IF m_eState = "ESTABLISHED" /\ state' = "dead" THEN "DISCONNET" ELSE m_eState
  BY <1>4 DEF Proc, Flush, kvars, sender, receiver, windows
<1>6. [Next]_kvars /\ IInv'
  BY <1>4, NextKeeps DEF LinkInv
<1>7. /\ Len(snd_buf) \in Nat /\ Len(snd_queue) \in Nat /\ snd_queue \in Seq(Fragment)
      /\ M \in Nat /\ M <= Len(snd_queue) /\ n \in Nat /\ Len(stream) \in Nat
      /\ SnMod \in Nat \ {0}
  <2>1. SnMod \in Nat \ {0} /\ Len(stream) \in Nat
    BY LinkFacts
  <2>2. snd_queue \in Seq(Fragment) /\ snd_buf \in Seq(Flying)
    BY Zenon DEF LinkInv, LinkTypes
  <2>3. Len(snd_buf) \in Nat /\ Len(snd_queue) \in Nat
    BY <2>2
  <2>4. M \in Nat /\ M <= Len(snd_queue)
    BY <1>0, <2>3
  <2>. QED
    BY <1>1, <2>1, <2>2, <2>3, <2>4, Zenon
<1>8. PICK N \in Nat : N = Len(buf) /\ N = Len(snd_buf) + M
  BY <1>2, <1>3, <1>7
<1>9. /\ buf \in Seq(Flying) /\ at \in [1 .. N -> Nat]
      /\ \A i \in 1 .. N : /\ at[i] \in 1 .. n + M
                           /\ buf[i].sn = (at[i] - 1) % SnMod
                           /\ buf[i].frg = stream[at[i]].frg /\ buf[i].msg = stream[at[i]].msg
      /\ \A i, j \in 1 .. N : i < j => at[i] < at[j]
  BY <1>2, <1>3, <1>8 DEF InFlight
<1>10. /\ snd_buf' \in Seq(Flying) /\ Len(snd_buf') = N
       /\ \A i \in 1 .. N : /\ snd_buf'[i].sn = buf[i].sn
                            /\ snd_buf'[i].frg = buf[i].frg /\ snd_buf'[i].msg = buf[i].msg
  <2> DEFINE now == {i \in 1 .. N : i \in due \/ buf[i].xmit = 0}
             sent1(i) == IF i \in now THEN [buf[i] EXCEPT !.xmit = Min({@ + 1, dead_link})] ELSE buf[i]
  <2>1. snd_buf' = [i \in 1 .. N |-> sent1(i)]
    BY <1>3, <1>4, <1>8 DEF Flush
  <2>2. ASSUME NEW i \in 1 .. N
        PROVE  /\ sent1(i) \in Flying
               /\ sent1(i).sn = buf[i].sn /\ sent1(i).frg = buf[i].frg /\ sent1(i).msg = buf[i].msg
    <3>1. buf[i] \in Flying
      <4>1. buf \in Seq(Flying) /\ i \in 1 .. Len(buf)
        BY <1>8, <1>9
      <4>. QED
        BY <4>1
    <3>2. Min({buf[i].xmit + 1, dead_link}) \in Nat
      <4>1. buf[i].xmit + 1 \in Nat /\ dead_link \in Nat
        BY <3>1, LinkAssumption, SMTT(30) DEF Flying
      <4>2. buf[i].xmit + 1 \in Int /\ dead_link \in Int
        BY <4>1
      <4>3. Min({buf[i].xmit + 1, dead_link}) \in {buf[i].xmit + 1, dead_link}
        BY <4>2, MinMaxTwo, Zenon
      <4>. QED
        BY <4>1, <4>3, Zenon
    <3>3. PICK x \in Nat : x = Min({buf[i].xmit + 1, dead_link})
      BY <3>2
    <3>4. sent1(i) = [buf[i] EXCEPT !.xmit = x] \/ sent1(i) = buf[i]
      BY <3>3
    <3> HIDE DEF sent1
    <3>. QED
      BY <3>1, <3>3, <3>4 DEF Flying
  <2> HIDE DEF sent1
  <2>3. N \in Nat
    BY <1>8
  <2>4. /\ [i \in 1 .. N |-> sent1(i)] \in Seq(Flying) /\ Len([i \in 1 .. N |-> sent1(i)]) = N
        /\ \A i \in 1 .. N : [k \in 1 .. N |-> sent1(k)][i] = sent1(i)
    BY <2>2, <2>3
  <2>. QED
    BY <2>1, <2>2, <2>4
<1>11. /\ snd_queue' \in Seq(Fragment) /\ Len(snd_queue') = Len(snd_queue) - M
       /\ \A j \in 1 .. Len(snd_queue) - M : snd_queue'[j] = snd_queue[M + j]
       /\ snd_nxt' = (snd_nxt + M) % SnMod
  <2>1. snd_queue' = SubSeq(snd_queue, M + 1, Len(snd_queue)) /\ snd_nxt' = (snd_nxt + M) % SnMod
    BY <1>2, <1>4 DEF Flush
  <2>2. /\ SubSeq(snd_queue, M + 1, Len(snd_queue)) \in Seq(Fragment)
        /\ Len(SubSeq(snd_queue, M + 1, Len(snd_queue))) = Len(snd_queue) - M
        /\ \A j \in 1 .. Len(snd_queue) - M : SubSeq(snd_queue, M + 1, Len(snd_queue))[j] = snd_queue[M + j]
    BY <1>7
  <2>. QED
    BY <2>1, <2>2
<1>12. n + Len(snd_queue) = Len(stream) /\ snd_nxt = n % SnMod
  BY <1>1 DEF Flight, Queued
<1>13. Queued(n + M)'
  <2>1. (n + M) + Len(snd_queue') = Len(stream)
    <3>1. Len(snd_queue') = Len(snd_queue) - M /\ Len(snd_queue) \in Nat /\ M \in Nat /\ n \in Nat
      BY <1>7, <1>11, Zenon
    <3>. QED
      BY <1>12, <3>1, SMTT(30)
  <2>2. snd_nxt' = (n + M) % SnMod
    BY <1>7, <1>11, <1>12, ModAdd
  <2>3. ASSUME NEW j \in 1 .. Len(snd_queue')
        PROVE  /\ snd_queue'[j].frg = stream[(n + M) + j].frg
               /\ snd_queue'[j].msg = stream[(n + M) + j].msg
    <3>1. M + j \in 1 .. Len(snd_queue) /\ snd_queue'[j] = snd_queue[M + j] /\ n + (M + j) = (n + M) + j
      BY <1>7, <1>11
    <3>2. /\ snd_queue[M + j].frg = stream[n + (M + j)].frg
          /\ snd_queue[M + j].msg = stream[n + (M + j)].msg
      BY <1>1, <3>1, Zenon DEF Flight, Queued
    <3>. QED
      BY <3>1, <3>2
  <2>. QED
    BY <1>5, <2>1, <2>2, <2>3 DEF Queued
<1>14. InFlight(snd_buf, at, n + M)'
  BY <1>5, <1>9, <1>10 DEF InFlight
<1>15. Window(snd_buf, at, n + M, una)' /\ snd_una' = una % SnMod
  <2>1. snd_buf' = <<>> <=> buf = <<>>
    <3>1. snd_buf' = <<>> <=> Len(snd_buf') = 0
      BY <1>10
    <3>2. buf = <<>> <=> Len(buf) = 0
      BY <1>9
    <3>. QED
      BY <1>8, <1>10, <3>1, <3>2
  <2>2. Window(buf, at, n + M, una)
    BY <1>2, <1>3
  <2>3. snd_una = una % SnMod
    BY <1>1 DEF Flight
  <2>. QED
    BY <1>5, <2>1, <2>2, <2>3 DEF Window
<1>16. Kept(snd_buf, at, n + M, heard)'
  BY <1>2, <1>3, <1>5, <1>8, <1>10 DEF Kept
<1>17. Reached(n + M)'
  <2>1. arrived \subseteq 1 .. n + M
    BY <1>1, <1>7 DEF Flight, Reached
  <2>2. toClient' \subseteq 0 .. n + M
    <3>1. toClient \subseteq 0 .. n + M
      BY <1>1, <1>7 DEF Flight, Reached
    <3>2. \A i \in 1 .. N : Position(buf[i]) \in 0 .. n + M
      <4>1. TAKE i \in 1 .. N
      <4>2. at[i] \in 1 .. n + M /\ buf[i].frg = stream[at[i]].frg /\ buf[i].msg = stream[at[i]].msg
        BY <1>9
      <4>3. at[i] \in 1 .. Len(stream)
        BY <1>7, <1>12, <4>2
      <4>4. Position(buf[i]) = at[i]
        BY <4>2, <4>3, PositionFacts DEF LinkInv
      <4>. QED
        BY <4>2, <4>4
    <3>3. WASK \in 0 .. n + M
      BY <1>7 DEF WASK
    <3>4. toClient' \subseteq toClient \union {Position(buf[i]) : i \in 1 .. N} \union {WASK}
      BY <1>3, <1>4, <1>8 DEF Flush
    <3>. QED
      BY <3>1, <3>2, <3>3, <3>4, Zenon
  <2>. QED
    BY <1>1, <1>5, <2>1, <2>2 DEF Flight, Reached, From
<1>18. (Noted(heard) /\ Told(heard) /\ heard <= taken)'
  BY <1>1, <1>5 DEF Flight, Noted, Told, ToldOf
<1>19. Flight(n + M, una, heard, at)'
  BY <1>13, <1>14, <1>15, <1>16, <1>17, <1>18 DEF Flight
<1>20. FlightInv'
  <2>1. n + M \in Nat
    BY <1>7
  <2>2. at \in [1 .. Len(snd_buf') -> Nat]
    BY <1>9, <1>10, Zenon
  <2>. QED
    BY <1>19, <2>1, <2>2, Zenon DEF FlightInv
<1>21. FinInv'
  <2>1. SUFFICES ASSUME finSent' PROVE m_eState' = "FIN_WAIT1" /\ arrived = 1 .. Len(stream)
    BY <1>5 DEF FinInv
  <2>2. CASE finSent
    BY <1>5, <2>2 DEF LinkInv, FinInv
  <2>3. CASE Finishes
    <3>1. m_eState' = "FIN_WAIT1" /\ snd_queue' = <<>> /\ snd_buf' = <<>>
      BY <1>5, <2>3 DEF Finishes
    <3>2. n + M = Len(stream)
      <4>1. Len(snd_queue) - M = 0
        BY <1>11, <3>1
      <4>2. Len(snd_queue) \in Nat /\ M \in Nat /\ n \in Nat
        BY <1>7, Zenon
      <4>3. Len(snd_queue) = M
        BY <4>1, <4>2
      <4>. QED
        BY <1>12, <4>3, Zenon
    <3>5. 1 .. Len(snd_buf') = {}
      BY <3>1
    <3>3. \A p \in 1 .. Len(stream) : p \in arrived
      BY <1>5, <1>16, <3>2, <3>5 DEF Kept
    <3>4. arrived \subseteq 1 .. Len(stream)
      BY <1>5, <1>17, <3>2 DEF Reached
    <3>. QED
      BY <3>1, <3>3, <3>4
  <2>. QED
    BY <1>5, <2>1, <2>2, <2>3
<1>22. LinkTypes' /\ LateInv' /\ Once'
  BY <1>5, <1>10, <1>11 DEF LinkInv, LinkTypes, LateInv, Once
<1>. QED
  BY <1>6, <1>20, <1>21, <1>22 DEF LinkInv
-------------------------------------------------------------------------------
\* How far a datagram to the server, no later than Lifetime, is from what is in flight.
LEMMA AckDistances ==
    ASSUME LinkInv, NEW n \in Nat, NEW una \in Nat, NEW heard \in Nat,
           NEW pos \in [1 .. Len(snd_buf) -> Nat], Flight(n, una, heard, pos),
           NEW d \in toServer, taken - Lifetime <= d.taken
    PROVE  /\ d.taken \in Nat /\ d.taken <= heard /\ d.taken <= n
           /\ n - d.taken <= Lifetime + rcv_wnd + snd_wnd
           /\ \A i \in 1 .. Len(snd_buf) : una < pos[i] /\ pos[i] <= n /\ pos[i] - 1 \in Nat
<1>1. /\ una <= n /\ n <= una + snd_wnd /\ heard <= taken /\ taken <= n
      /\ n <= taken + rcv_wnd + snd_wnd
  BY Distances
<1>2. /\ taken \in Nat /\ snd_wnd \in Nat /\ rcv_wnd \in Nat /\ Lifetime \in Nat
  BY LinkFacts
<1>3. d.taken \in Nat
  BY DEF LinkInv, LinkTypes
<1>4. d.taken <= heard
  BY DEF Flight, Told
<1>5. ASSUME NEW i \in 1 .. Len(snd_buf)
      PROVE  una < pos[i] /\ pos[i] <= n /\ pos[i] - 1 \in Nat
  <2>1. pos[i] \in 1 .. n
    BY DEF Flight, InFlight
  <2>2. snd_buf \in Seq(Flying)
    BY DEF LinkInv, LinkTypes
  <2>3. 1 \in 1 .. Len(snd_buf) /\ snd_buf # <<>>
    BY <2>2
  <2>4. una = pos[1] - 1
    BY <2>3 DEF Flight, Window
  <2>5. pos[1] \in 1 .. n
    BY <2>3 DEF Flight, InFlight
  <2>6. CASE i = 1
    BY <2>1, <2>4, <2>6
  <2>7. CASE i # 1
    <3>1. 1 < i
      BY <2>2, <2>7
    <3>2. pos[1] < pos[i]
      BY <2>3, <3>1 DEF Flight, InFlight
    <3>. QED
      BY <2>1, <2>4, <2>5, <3>2
  <2>. QED
    BY <2>6, <2>7
<1>. QED
  BY <1>1, <1>2, <1>3, <1>4, <1>5

\* KCP does not find una ahead of all that is numbered.
LEMMA NotBroken ==
    ASSUME LinkInv, ~cleared, NEW d \in toServer, taken - Lifetime <= d.taken
    PROVE  ~ IsSnBroken(d)
<1>1. PICK n \in Nat, una \in Nat, heard \in Nat, pos \in [1 .. Len(snd_buf) -> Nat] :
         Flight(n, una, heard, pos)
  BY DEF LinkInv, FlightInv
<1>2. PICK t \in Nat : t = d.taken /\ t <= n /\ n - t <= Lifetime + rcv_wnd + snd_wnd
  BY <1>1, AckDistances
<1>3. /\ SnMod > 0 /\ SnMod \div 2 \in Nat /\ Lifetime + rcv_wnd + snd_wnd < SnMod \div 2
      /\ snd_wnd \in Nat /\ rcv_wnd \in Nat /\ Lifetime \in Nat
  BY LinkFacts
<1>4. snd_nxt = n % SnMod
  BY <1>1 DEF Flight, Queued
<1>5. -(SnMod \div 2) <= t - n /\ t - n < SnMod \div 2
  BY <1>1, <1>2, <1>3, SMTT(30)
<1>6. itimediff(t % SnMod, n % SnMod) = t - n
  BY <1>1, <1>2, <1>3, <1>5, DiffExact, Zenon
<1>. QED
  BY <1>1, <1>2, <1>4, <1>6 DEF IsSnBroken, Una

\* ikcp_parse_una removes segments at the front that the client has taken.
LEMMA UnaFacts ==
    ASSUME LinkInv, NEW n \in Nat, NEW una \in Nat, NEW heard \in Nat,
           NEW pos \in [1 .. Len(snd_buf) -> Nat], Flight(n, una, heard, pos),
           NEW d \in toServer, taken - Lifetime <= d.taken
    PROVE  \E c \in 0 .. Len(snd_buf) :
              /\ AfterUna(Una(d)) = SubSeq(snd_buf, 1 + c, Len(snd_buf))
              /\ \A i \in 1 .. c : pos[i] <= d.taken
<1>1. PICK t \in Nat : t = d.taken /\ t <= n /\ n - t <= Lifetime + rcv_wnd + snd_wnd
  BY AckDistances
<1>2. /\ SnMod > 0 /\ SnMod \div 2 \in Nat /\ Lifetime + rcv_wnd + snd_wnd < SnMod \div 2
      /\ snd_wnd \in Nat /\ rcv_wnd \in Nat /\ Lifetime \in Nat
  BY LinkFacts
<1>3. Len(snd_buf) \in Nat
  BY DEF LinkInv, LinkTypes
<1>4. ASSUME NEW i \in 1 .. Len(snd_buf), itimediff(Una(d), snd_buf[i].sn) > 0
      PROVE  pos[i] <= t
  <2>1. PICK a \in Nat : a = pos[i] - 1 /\ una <= a /\ a < n /\ pos[i] = a + 1
    <3>1. una < pos[i] /\ pos[i] <= n /\ pos[i] - 1 \in Nat /\ pos[i] \in Nat
      BY AckDistances
    <3>2. una <= pos[i] - 1 /\ pos[i] - 1 < n /\ pos[i] = (pos[i] - 1) + 1
      BY <3>1
    <3>. QED
      BY <3>1, <3>2
  <2>2. snd_buf[i].sn = a % SnMod
    BY <2>1 DEF Flight, InFlight
  <2>3. una <= n /\ n <= una + snd_wnd
    BY Distances
  <2>4. -(SnMod \div 2) <= t - a /\ t - a < SnMod \div 2
    BY <1>1, <1>2, <2>1, <2>3, SMTT(30)
  <2>5. itimediff(t % SnMod, a % SnMod) = t - a
    BY <1>1, <1>2, <2>1, <2>4, DiffExact, Zenon
  <2>. QED
    BY <1>1, <1>4, <2>1, <2>2, <2>5, SMTT(30) DEF Una
<1> DEFINE S == {0} \union {k \in 1 .. Len(snd_buf) : \A i \in 1 .. k : itimediff(Una(d), snd_buf[i].sn) > 0}
<1>5. S \in SUBSET (0 .. Len(snd_buf)) /\ S # {}
  BY <1>3
<1>6. Max(S) \in S
  BY <1>3, <1>5, MaxFacts, Zenon
<1>7. PICK c \in 0 .. Len(snd_buf) : c = Max(S) /\ c \in S
  BY <1>5, <1>6, Zenon
<1>8. AfterUna(Una(d)) = SubSeq(snd_buf, 1 + c, Len(snd_buf))
  BY <1>7, Zenon DEF AfterUna
<1>9. \A i \in 1 .. c : pos[i] <= d.taken
  <2>1. TAKE i \in 1 .. c
  <2>2. i \in 1 .. Len(snd_buf)
    BY <1>3, <1>7
  <2>3. c # 0
    OBVIOUS
  <2>4. \A j \in 1 .. c : itimediff(Una(d), snd_buf[j].sn) > 0
    BY <1>7, <2>3
  <2>. QED
    BY <1>1, <1>4, <2>2, <2>4
<1>. QED
  BY <1>7, <1>8, <1>9

\* An acknowledged number is that of one segment in flight, which has arrived.
LEMMA AckedArrived ==
    ASSUME LinkInv, NEW n \in Nat, NEW una \in Nat, NEW heard \in Nat,
           NEW pos \in [1 .. Len(snd_buf) -> Nat], Flight(n, una, heard, pos),
           NEW d \in toServer, taken - Lifetime <= d.taken,
           NEW i \in 1 .. Len(snd_buf), snd_buf[i].sn \in d.acks
    PROVE  pos[i] \in arrived /\ pos[i] <= heard + rcv_wnd
<1>1. PICK t \in Nat : t = d.taken /\ t <= heard /\ t <= n /\ n - t <= Lifetime + rcv_wnd + snd_wnd
  BY AckDistances
<1>2. /\ SnMod \in Nat \ {0} /\ 2 * Lifetime + 2 * rcv_wnd + 3 * snd_wnd <= SnMod
      /\ snd_wnd \in Nat \ {0} /\ rcv_wnd \in Nat \ {0} /\ Lifetime \in Nat \ {0} /\ taken \in Nat
  BY LinkFacts
<1>3. una < pos[i] /\ pos[i] <= n /\ pos[i] - 1 \in Nat /\ pos[i] \in Nat
  BY AckDistances
<1>4. PICK p \in arrived : /\ snd_buf[i].sn = (p - 1) % SnMod
                           /\ p <= d.taken + rcv_wnd
                           /\ d.taken - Lifetime - 2 * snd_wnd - rcv_wnd < p
  BY DEF Flight, Told, ToldOf
<1>5. p \in 1 .. n
  BY <1>4 DEF Flight, Reached
<1>6. snd_buf[i].sn = (pos[i] - 1) % SnMod
  BY DEF Flight, InFlight
<1>7. p = pos[i]
  <2>1. PICK a \in Nat, b \in Nat : a = p - 1 /\ b = pos[i] - 1 /\ p = a + 1 /\ pos[i] = b + 1
    <3>1. p - 1 \in Nat /\ p = (p - 1) + 1 /\ pos[i] = (pos[i] - 1) + 1
      BY <1>3, <1>5
    <3>. QED
      BY <1>3, <3>1
  <2>2. SUFFICES ASSUME a # b PROVE FALSE
    BY <2>1, Zenon
  <2>3. n <= una + snd_wnd /\ n <= taken + rcv_wnd + snd_wnd
    BY Distances
  <2>4. a - b < SnMod
    BY <1>1, <1>2, <1>3, <1>5, <2>1, <2>3, SMTT(30)
  <2>5. b - a < SnMod
    <3>1. b < n
      BY <1>3, <2>1
    <3>2. t - Lifetime - 2 * snd_wnd - rcv_wnd <= a
      <4>1. t - Lifetime - 2 * snd_wnd - rcv_wnd < a + 1
        BY <1>1, <1>4, <2>1, Zenon
      <4>2. t \in Int /\ a \in Int /\ Lifetime \in Int /\ snd_wnd \in Int /\ rcv_wnd \in Int
        BY <1>1, <1>2, <2>1
      <4>. QED
        BY <4>1, <4>2
    <3>3. taken - Lifetime <= t
      BY <1>1, Zenon
    <3>4. /\ t \in Int /\ a \in Int /\ b \in Int /\ n \in Int /\ Lifetime \in Int /\ snd_wnd \in Nat
          /\ rcv_wnd \in Int /\ taken \in Int /\ SnMod \in Int
          /\ n <= taken + rcv_wnd + snd_wnd /\ 2 * Lifetime + 2 * rcv_wnd + 3 * snd_wnd <= SnMod
      BY <1>1, <1>2, <2>1, <2>3
    <3>. QED
      BY <3>1, <3>2, <3>3, <3>4
  <2>6. a % SnMod # b % SnMod
    BY <1>2, <2>1, <2>2, <2>4, <2>5, ModDistinct, Zenon
  <2>. QED
    BY <1>4, <1>6, <2>1, <2>6
<1>8. p <= heard + rcv_wnd
  <2>1. p <= t + rcv_wnd
    BY <1>1, <1>4, Zenon
  <2>2. t <= heard /\ t \in Nat /\ heard \in Nat /\ p \in Int /\ rcv_wnd \in Int
    BY <1>1, <1>2, <1>5
  <2>. QED
    BY <2>1, <2>2
<1>. QED
  BY <1>4, <1>7, <1>8

\* The acknowledgements of d leave the K segments of snd_buf that G lists; the others have
\* arrived.
Leaves(d, pos, heard, G, K) ==
    /\ AfterAcks(AfterUna(Una(d)), d.acks) = Picked(snd_buf, G, K)
    /\ \A j, k \in 1 .. K : j < k => G[j] < G[k]
    /\ \A i \in 1 .. Len(snd_buf) : \/ pos[i] \in arrived /\ pos[i] <= heard + rcv_wnd
                                    \/ \E k \in 1 .. K : G[k] = i

\* What una and the acknowledgements leave of snd_buf: some of its segments, in their order;
\* the others have arrived.
LEMMA LeftFacts ==
    ASSUME LinkInv, NEW n \in Nat, NEW una \in Nat, NEW heard \in Nat,
           NEW pos \in [1 .. Len(snd_buf) -> Nat], Flight(n, una, heard, pos),
           NEW d \in toServer, taken - Lifetime <= d.taken
    PROVE  \E K \in Nat : \E G \in [1 .. K -> 1 .. Len(snd_buf)] : Leaves(d, pos, heard, G, K)
<1>1. PICK c \in 0 .. Len(snd_buf) :
              /\ AfterUna(Una(d)) = SubSeq(snd_buf, 1 + c, Len(snd_buf))
              /\ \A i \in 1 .. c : pos[i] <= d.taken
  BY UnaFacts
<1>2. snd_buf \in Seq(Flying)
  BY DEF LinkInv, LinkTypes
<1>3. PICK N \in Nat : N = Len(snd_buf) /\ c \in Nat /\ c <= N /\ N - c \in Nat
  BY <1>2
<1>4. PICK buf : buf = AfterUna(Una(d))
  OBVIOUS
<1>5. buf \in Seq(Flying) /\ Len(buf) = N - c /\ \A i \in 1 .. N - c : buf[i] = snd_buf[c + i]
  <2>1. buf = SubSeq(snd_buf, 1 + c, N)
    BY <1>1, <1>3, <1>4, Zenon
  <2>2. /\ SubSeq(snd_buf, 1 + c, N) \in Seq(Flying) /\ Len(SubSeq(snd_buf, 1 + c, N)) = N - c
        /\ \A i \in 1 .. N - c : SubSeq(snd_buf, 1 + c, N)[i] = snd_buf[(1 + c) + i - 1]
    BY <1>2, <1>3, SubSeqProperties
  <2>3. \A i \in 1 .. N - c : (1 + c) + i - 1 = c + i
    BY <1>3
  <2>. QED
    BY <2>1, <2>2, <2>3
<1>15. PICK S \in SUBSET (1 .. N - c) : S = {i \in 1 .. N - c : buf[i].sn \notin d.acks}
  <2>1. {i \in 1 .. N - c : buf[i].sn \notin d.acks} \in SUBSET (1 .. N - c)
    OBVIOUS
  <2>. QED
    BY <2>1, Zenon
<1>6. PICK K \in Nat : \E g \in [1 .. K -> S] : Lists(buf, S, g, K)
  <2>1. N - c \in Nat
    BY <1>3
  <2>. QED
    BY <1>15, <2>1, AtFacts, Zenon
<1>7. PICK g \in [1 .. K -> S] : Lists(buf, S, g, K)
  BY <1>6
<1>8. AfterAcks(buf, d.acks) = Picked(buf, g, K)
  BY <1>5, <1>7, <1>15 DEF AfterAcks, Lists
<1>9. \A k \in 1 .. K : g[k] \in 1 .. N - c
  BY <1>7, <1>15
<1> DEFINE G == [k \in 1 .. K |-> c + g[k]]
<1>10. \A k \in 1 .. K : G[k] = c + g[k] /\ G[k] \in 1 .. N
  <2>1. TAKE k \in 1 .. K
  <2>2. c + g[k] \in 1 .. N
    BY <1>3, <1>9
  <2>. QED
    BY <2>2
<1>11. G \in [1 .. K -> 1 .. Len(snd_buf)]
  BY <1>3, <1>10
<1> HIDE DEF G
<1>12. AfterAcks(AfterUna(Una(d)), d.acks) = Picked(snd_buf, G, K)
  <2>1. \A k \in 1 .. K : buf[g[k]] = snd_buf[G[k]]
    BY <1>5, <1>9, <1>10
  <2>. QED
    BY <1>4, <1>8, <2>1 DEF Picked
<1>13. \A j, k \in 1 .. K : j < k => G[j] < G[k]
  <2>1. TAKE j, k \in 1 .. K
  <2>2. HAVE j < k
  <2>3. g[j] < g[k] /\ g[j] \in Int /\ g[k] \in Int
    BY <1>7, <1>9, <2>2 DEF Lists
  <2>. QED
    BY <1>3, <1>10, <2>3
<1>14. ASSUME NEW i \in 1 .. Len(snd_buf)
       PROVE  \/ pos[i] \in arrived /\ pos[i] <= heard + rcv_wnd
              \/ \E k \in 1 .. K : G[k] = i
  <2>1. CASE i <= c
    <3>1. pos[i] <= d.taken
      <4>1. i \in 1 .. c
        BY <1>3, <2>1
      <4>. QED
        BY <1>1, <4>1, Zenon
    <3>2. d.taken \in Nat /\ d.taken <= heard /\ heard <= taken /\ una < pos[i] /\ pos[i] \in Nat
      BY AckDistances, Distances
    <3>3. taken \in Nat /\ rcv_wnd \in Nat
      BY LinkFacts
    <3>4. pos[i] \in 1 .. taken /\ pos[i] <= heard + rcv_wnd
      BY <3>1, <3>2, <3>3
    <3>. QED
      BY <3>4 DEF Flight, Reached
  <2>2. CASE ~ (i <= c)
    <3>1. PICK j \in 1 .. N - c : c + j = i
      <4>1. i - c \in 1 .. N - c /\ c + (i - c) = i
        BY <1>3, <2>2
      <4>. QED
        BY <4>1, Zenon
    <3>2. CASE j \in S
      <4>1. PICK k \in 1 .. K : g[k] = j
        BY <1>7, <3>2 DEF Lists
      <4>2. G[k] = i
        BY <1>10, <3>1, <4>1
      <4>. QED
        BY <4>2
    <3>3. CASE j \notin S
      <4>1. snd_buf[i].sn \in d.acks
        BY <1>5, <1>15, <3>1, <3>3
      <4>. QED
        BY <4>1, AckedArrived
    <3>. QED
      BY <3>2, <3>3
  <2>. QED
    BY <2>1, <2>2
<1>16. PICK H : H = G
  OBVIOUS
<1>17. H \in [1 .. K -> 1 .. Len(snd_buf)] /\ Leaves(d, pos, heard, H, K)
  <2>1. \A i \in 1 .. Len(snd_buf) : \/ pos[i] \in arrived /\ pos[i] <= heard + rcv_wnd
                                     \/ \E k \in 1 .. K : G[k] = i
    BY <1>14
  <2>. QED
    BY <1>11, <1>12, <1>13, <1>16, <2>1 DEF Leaves
<1>18. K \in Nat
  BY <1>6
<1>. QED
  BY <1>17, <1>18, Zenon

\* The server learns what has arrived.
LEMMA RecvReliableKeeps ==
    ASSUME LinkInv, ~cleared, NEW d \in toServer, RecvReliable(d)
    PROVE  [Next]_kvars /\ LinkInv'
<1>1. PICK n \in Nat, una \in Nat, heard \in Nat, pos \in [1 .. Len(snd_buf) -> Nat] :
         Flight(n, una, heard, pos)
  BY DEF LinkInv, FlightInv
<1>2. taken - Lifetime <= d.taken /\ toServer' \subseteq toServer
  BY DEF RecvReliable
<1>3. ~ IsSnBroken(d)
  BY <1>2, NotBroken
<1>4. UNCHANGED kvars /\ InputAcks(d)
  BY <1>3 DEF RecvReliable
<1>5. /\ UNCHANGED <<acks, arrived, cleared, stream, taken, rcv_buf, snd_wnd, rcv_wnd, snd_nxt, snd_queue,
                     m_eState, finSent, toClient>>
  BY <1>3, <1>4 DEF RecvReliable, InputAcks, kvars, sender, receiver, windows
<1>6. [Next]_kvars /\ IInv'
  BY <1>4, NextKeeps DEF LinkInv
<1>7. PICK K \in Nat : \E G \in [1 .. K -> 1 .. Len(snd_buf)] : Leaves(d, pos, heard, G, K)
  BY <1>1, <1>2, LeftFacts
<1>0. PICK G \in [1 .. K -> 1 .. Len(snd_buf)] : Leaves(d, pos, heard, G, K)
  BY <1>7
<1>8. /\ AfterAcks(AfterUna(Una(d)), d.acks) = Picked(snd_buf, G, K)
      /\ \A j, k \in 1 .. K : j < k => G[j] < G[k]
      /\ \A i \in 1 .. Len(snd_buf) : \/ pos[i] \in arrived /\ pos[i] <= heard + rcv_wnd
                                      \/ \E k \in 1 .. K : G[k] = i
  BY <1>0 DEF Leaves
<1>9. /\ snd_buf' = [k \in 1 .. K |-> snd_buf[G[k]]]
      /\ snd_una' = IF snd_buf' = <<>> THEN snd_nxt ELSE snd_buf'[1].sn
      /\ rmt_wnd' = d.wnd
  BY <1>4, <1>8 DEF InputAcks, Picked
<1>10. \A k \in 1 .. K : G[k] \in 1 .. Len(snd_buf) /\ pos[G[k]] \in 1 .. n /\ una < pos[G[k]]
  <2>1. \A i \in 1 .. Len(snd_buf) : pos[i] \in 1 .. n
    BY <1>1 DEF Flight, InFlight
  <2>2. \A i \in 1 .. Len(snd_buf) : una < pos[i]
    BY <1>1, <1>2, AckDistances
  <2>. QED
    BY <2>1, <2>2
<1>11. /\ snd_buf' \in Seq(Flying) /\ Len(snd_buf') = K
       /\ \A k \in 1 .. K : snd_buf'[k] = snd_buf[G[k]]
  <2>1. \A k \in 1 .. K : snd_buf[G[k]] \in Flying
    <3>1. snd_buf \in Seq(Flying)
      BY DEF LinkInv, LinkTypes
    <3>. QED
      BY <1>10, <3>1
  <2>2. K \in Nat
    BY <1>7
  <2>3. /\ [k \in 1 .. K |-> snd_buf[G[k]]] \in Seq(Flying) /\ Len([k \in 1 .. K |-> snd_buf[G[k]]]) = K
        /\ \A k \in 1 .. K : [j \in 1 .. K |-> snd_buf[G[j]]][k] = snd_buf[G[k]]
    BY <2>1, <2>2
  <2>. QED
    BY <1>9, <2>3, Zenon
<1> DEFINE pos2 == [k \in 1 .. K |-> pos[G[k]]]
           una2 == IF K = 0 THEN n ELSE pos2[1] - 1
<1>12. pos2 \in [1 .. Len(snd_buf') -> Nat] /\ \A k \in 1 .. K : pos2[k] = pos[G[k]]
  BY <1>10, <1>11
<1>13. una <= n /\ n <= una + snd_wnd /\ snd_wnd \in Nat
  BY <1>1, Distances, LinkFacts
<1> HIDE DEF pos2
<1>14. /\ una2 \in Nat /\ n <= una2 + snd_wnd
       /\ K = 0 => una2 = n
       /\ K # 0 => 1 \in 1 .. K /\ una2 = pos2[1] - 1
  <2>1. CASE K = 0
    BY <1>1, <1>13, <2>1
  <2>2. CASE K # 0
    <3>1. 1 \in 1 .. K
      BY <1>7, <2>2
    <3>2. pos2[1] \in 1 .. n /\ una < pos2[1]
      BY <1>10, <1>12, <3>1
    <3>. QED
      BY <1>1, <1>13, <2>2, <3>1, <3>2, SMTT(30)
  <2>. QED
    BY <2>1, <2>2
<1> HIDE DEF una2
<1>15. snd_buf' = <<>> <=> K = 0
  BY <1>7, <1>11
<1>16. Queued(n)'
  BY <1>1, <1>5 DEF Flight, Queued
<1>17. InFlight(snd_buf, pos2, n)'
  <2>1. \A k \in 1 .. K : /\ snd_buf[G[k]].sn = (pos[G[k]] - 1) % SnMod
                          /\ snd_buf[G[k]].frg = stream[pos[G[k]]].frg
                          /\ snd_buf[G[k]].msg = stream[pos[G[k]]].msg
    BY <1>1, <1>10 DEF Flight, InFlight
  <2>2. ASSUME NEW j \in 1 .. K, NEW k \in 1 .. K, j < k PROVE pos2[j] < pos2[k]
    <3>1. G[j] < G[k]
      BY <1>8, <2>2
    <3>2. pos[G[j]] < pos[G[k]]
      BY <1>1, <1>10, <3>1 DEF Flight, InFlight
    <3>. QED
      BY <1>12, <3>2
  <2>3. \A k \in 1 .. K : /\ pos2[k] \in 1 .. n
                          /\ snd_buf'[k].sn = (pos2[k] - 1) % SnMod
                          /\ snd_buf'[k].frg = stream[pos2[k]].frg
                          /\ snd_buf'[k].msg = stream[pos2[k]].msg
    <3>1. TAKE k \in 1 .. K
    <3>2. snd_buf'[k] = snd_buf[G[k]] /\ pos2[k] = pos[G[k]] /\ pos[G[k]] \in 1 .. n
      BY <1>10, <1>11, <1>12, Zenon
    <3>. QED
      BY <2>1, <3>2, Zenon
  <2>. QED
    BY <1>5, <1>11, <2>2, <2>3, Zenon DEF InFlight
<1>18. Window(snd_buf, pos2, n, una2)'
  BY <1>5, <1>14, <1>15 DEF Window
<1>19. snd_una' = una2 % SnMod
  <2>1. CASE K = 0
    <3>1. snd_nxt = n % SnMod
      BY <1>1 DEF Flight, Queued
    <3>. QED
      BY <1>9, <1>14, <1>15, <2>1, <3>1
  <2>2. CASE K # 0
    <3>1. snd_buf'[1].sn = (pos2[1] - 1) % SnMod
      BY <1>11, <1>14, <1>17, <2>2 DEF InFlight
    <3>. QED
      BY <1>9, <1>14, <1>15, <2>2, <3>1
  <2>. QED
    BY <2>1, <2>2
<1>20. Kept(snd_buf, pos2, n, heard)'
  <2>1. SUFFICES ASSUME NEW p \in 1 .. n
                 PROVE  \/ p \in arrived /\ p <= heard + rcv_wnd
                        \/ \E k \in 1 .. K : pos2[k] = p
    BY <1>5, <1>11 DEF Kept
  <2>2. (p \in arrived /\ p <= heard + rcv_wnd) \/ \E i \in 1 .. Len(snd_buf) : pos[i] = p
    BY <1>1 DEF Flight, Kept
  <2>. QED
    BY <1>8, <1>12, <2>2
<1>21. (Reached(n) /\ Noted(heard) /\ Told(heard) /\ heard <= taken)'
  <2>1. Reached(n)' /\ Noted(heard)' /\ (heard <= taken)'
    BY <1>1, <1>5 DEF Flight, Reached, From, Noted
  <2>2. Told(heard)'
    BY <1>1, <1>2, <1>5 DEF Flight, Told, ToldOf
  <2>. QED
    BY <2>1, <2>2
<1>22. Flight(n, una2, heard, pos2)'
  BY <1>16, <1>17, <1>18, <1>19, <1>20, <1>21 DEF Flight
<1>23. FlightInv'
  BY <1>12, <1>14, <1>22, Zenon DEF FlightInv
<1>24. FinInv' /\ LateInv' /\ Once'
  BY <1>5 DEF LinkInv, FinInv, LateInv, Once
<1>25. LinkTypes'
  <2>1. d \in [taken : Nat, wnd : Nat, acks : SUBSET Nat]
    BY DEF LinkInv, LinkTypes
  <2>2. d.wnd \in Nat
    BY <2>1
  <2>. QED
    BY <1>2, <1>5, <1>9, <1>11, <2>2 DEF LinkInv, LinkTypes
<1>. QED
  BY <1>6, <1>23, <1>24, <1>25 DEF LinkInv
-------------------------------------------------------------------------------
\* What has arrived is moved to rcv_queue.
LEMMA MoveReached ==
    ASSUME IInv, IInv', stream' = stream, Once, NEW arr \in SUBSET (1 .. Len(stream)), 1 .. taken \subseteq arr,
           NEW buf \in Seq(Segment), NEW queue \in Seq(Segment), MoveAvailable(buf, queue),
           From(buf, arr)
    PROVE  /\ taken <= taken' /\ taken' \in Nat /\ 1 .. taken' \subseteq arr
           /\ From(rcv_buf', arr)
<1>1. taken \in Nat /\ rcv_nxt \in Nat /\ SnMod > 0 /\ Len(stream) \in Nat
  <2>1. taken \in Nat /\ rcv_nxt \in 0 .. SnMod - 1 /\ Len(stream) \in Nat
    BY DEF IInv, TypeOK
  <2>2. SnMod > 0 /\ SnMod \in Nat
    BY WindowFacts DEF IInv, TypeOK
  <2>. QED
    BY <2>1, <2>2
<1>2. PICK n \in 0 .. Len(buf) :
              /\ \A j \in 1 .. n : buf[j].sn = (rcv_nxt + j - 1) % SnMod
              /\ rcv_queue' \in Seq(Segment) /\ Len(rcv_queue') = Len(queue) + n
              /\ \A k \in 1 .. Len(queue) : rcv_queue'[k] = queue[k]
              /\ \A k \in 1 .. n : rcv_queue'[Len(queue) + k] = buf[k]
              /\ rcv_buf' \in Seq(Segment) /\ Len(rcv_buf') = Len(buf) - n
              /\ \A i \in 1 .. Len(buf) - n : rcv_buf'[i] = buf[i + n]
              /\ rcv_nxt' = (rcv_nxt + n) % SnMod /\ rcv_nxt' \in 0 .. SnMod - 1
              /\ taken' = taken + n /\ taken' \in Nat
  BY <1>1, MoveFacts
<1>3. Len(buf) \in Nat /\ Len(queue) \in Nat /\ n \in Nat /\ n <= Len(buf)
  BY <1>2
<1>4. /\ taken' <= Len(stream)
      /\ \A k \in 1 .. Len(rcv_queue') : rcv_queue'[k] = stream[taken' - Len(rcv_queue') + k]
  BY DEF IInv, QueueInv, LastTaken
<1>5. ASSUME NEW k \in 1 .. n PROVE taken + k \in arr
  <2>1. /\ Len(queue) + k \in 1 .. Len(rcv_queue') /\ k \in 1 .. Len(buf)
        /\ taken' - Len(rcv_queue') + (Len(queue) + k) = taken + k
        /\ taken + k \in 1 .. Len(stream)
    <3>1. /\ Len(rcv_queue') = Len(queue) + n /\ taken' = taken + n /\ taken' <= Len(stream)
          /\ Len(buf) \in Nat /\ Len(queue) \in Nat /\ n \in Nat /\ n <= Len(buf)
          /\ taken \in Nat /\ Len(stream) \in Nat
      BY <1>1, <1>2, <1>3, <1>4, Zenon
    <3>. QED
      BY <3>1
  <2>2. buf[k] = stream[taken + k]
    BY <1>2, <1>4, <2>1
  <2>3. PICK p \in arr : buf[k] = stream[p]
    BY <2>1 DEF From
  <2>4. p = taken + k
    BY <2>1, <2>2, <2>3 DEF Once
  <2>. QED
    BY <2>3, <2>4
<1>6. ASSUME NEW p \in 1 .. taken' PROVE p \in arr
  <2>1. CASE p \in 1 .. taken
    BY <2>1
  <2>2. CASE ~ (p \in 1 .. taken)
    <3>1. p - taken \in 1 .. n /\ taken + (p - taken) = p
      <4>1. taken' = taken + n /\ taken \in Nat /\ n \in Nat
        BY <1>1, <1>2, <1>3, Zenon
      <4>. QED
        BY <2>2, <4>1
    <3>. QED
      BY <1>5, <3>1
  <2>. QED
    BY <2>1, <2>2
<1>7. ASSUME NEW i \in 1 .. Len(rcv_buf') PROVE \E p \in arr : rcv_buf'[i] = stream[p]
  <2>1. i + n \in 1 .. Len(buf) /\ rcv_buf'[i] = buf[i + n]
    BY <1>2, <1>3
  <2>. QED
    BY <2>1 DEF From
<1>8. taken <= taken' /\ taken' \in Nat
  BY <1>1, <1>2, <1>3, SMTT(30)
<1>. QED
  BY <1>6, <1>7, <1>8 DEF From

\* A segment put in its place joins those that wait.
LEMMA InsertedFrom ==
    ASSUME IInv, NEW p \in 1 .. Len(stream), p \in Ahead, NEW arr, From(rcv_buf, arr)
    PROVE  From(Inserted(stream[p]), arr \union {p})
<1>1. TypeOK /\ StreamInv /\ rcv_buf \in Seq(Segment) /\ stream[p] \in Segment
  BY DEF IInv, TypeOK
<1>2. PICK pos \in [1 .. Len(rcv_buf) -> Ahead] : HeldAt(rcv_buf, pos)
  BY DEF IInv, BufInv
<1>3. PICK b \in 0 .. Len(rcv_buf) : b = Place(stream[p].sn)
  <2>1. Place(stream[p].sn) \in 0 .. Len(rcv_buf)
    BY <1>1, <1>2, PlaceFacts, Zenon
  <2>. QED
    BY <2>1, Zenon
<1>7. PICK e \in Segment : e = stream[p]
  BY <1>1, SMTT(30)
<1>4. Inserted(stream[p]) = rcv_buf \/ Inserted(stream[p]) = Behind(rcv_buf, b, e)
  BY <1>3, <1>7 DEF Inserted, Behind
<1>5. CASE Inserted(stream[p]) = rcv_buf
  BY <1>5 DEF From
<1>6. CASE Inserted(stream[p]) = Behind(rcv_buf, b, e)
  <2>1. /\ Len(Behind(rcv_buf, b, e)) = Len(rcv_buf) + 1
        /\ \A k \in 1 .. b : Behind(rcv_buf, b, e)[k] = rcv_buf[k]
        /\ Behind(rcv_buf, b, e)[b + 1] = e
        /\ \A k \in b + 2 .. Len(rcv_buf) + 1 : Behind(rcv_buf, b, e)[k] = rcv_buf[k - 1]
    <3>1. rcv_buf \in Seq(Segment) /\ e \in Segment /\ b \in 0 .. Len(rcv_buf)
      BY <1>1, <1>3, <1>7, Zenon
    <3>2. Len(Behind(rcv_buf, b, e)) = Len(rcv_buf) + 1
      BY <3>1, BehindFacts, SMTT(30)
    <3>3. \A k \in 1 .. b : Behind(rcv_buf, b, e)[k] = rcv_buf[k]
      BY <3>1, BehindFacts, SMT
    <3>4. Behind(rcv_buf, b, e)[b + 1] = e
      BY <3>1, BehindFacts, SMT
    <3>5. \A k \in b + 2 .. Len(rcv_buf) + 1 : Behind(rcv_buf, b, e)[k] = rcv_buf[k - 1]
      BY <3>1, BehindFacts, SMT
    <3>. QED
      BY <3>2, <3>3, <3>4, <3>5, Zenon
  <2>2. Len(rcv_buf) \in Nat /\ b \in Nat /\ b <= Len(rcv_buf)
    BY <1>1
  <2>3. ASSUME NEW i \in 1 .. Len(rcv_buf) + 1
        PROVE  \E q \in arr \union {p} : Behind(rcv_buf, b, e)[i] = stream[q]
    <3>1. CASE i = b + 1
      BY <1>7, <2>1, <3>1
    <3>2. CASE i \in 1 .. b
      <4>1. i \in 1 .. Len(rcv_buf)
        BY <2>2, <3>2
      <4>. QED
        BY <2>1, <3>2, <4>1 DEF From
    <3>3. CASE i \in b + 2 .. Len(rcv_buf) + 1
      <4>1. i - 1 \in 1 .. Len(rcv_buf)
        BY <2>2, <3>3
      <4>. QED
        BY <2>1, <3>3, <4>1 DEF From
    <3>4. i = b + 1 \/ i \in 1 .. b \/ i \in b + 2 .. Len(rcv_buf) + 1
      BY <2>2
    <3>. QED
      BY <3>1, <3>2, <3>3, <3>4, Zenon
  <2>. QED
    BY <1>6, <2>1, <2>3 DEF From
<1>. QED
  BY <1>4, <1>5, <1>6

\* A segment that the network delivers is one that KcpRecv expects.
LEMMA RecvPushInputs ==
    ASSUME LinkInv, ~cleared, NEW p \in 1 .. Len(stream), RecvPush(p)
    PROVE  Input(p)
<1>1. PICK n \in Nat, una \in Nat, heard \in Nat, pos \in [1 .. Len(snd_buf) -> Nat] :
         Flight(n, una, heard, pos)
  BY DEF LinkInv, FlightInv
<1>2. p <= n
  <2>1. p \in toClient \union arrived
    BY DEF RecvPush
  <2>2. toClient \subseteq 0 .. n /\ arrived \subseteq 1 .. n
    BY <1>1 DEF Flight, Reached
  <2>3. p \in 0 .. n
    BY <1>1, <2>1, <2>2
  <2>. QED
    BY <2>3
<1>3. n <= taken + rcv_wnd + snd_wnd
  BY <1>1, Distances
<1>4. taken - Lifetime - snd_wnd < p
  BY DEF RecvPush
<1>5. /\ taken \in Nat /\ snd_wnd \in Nat /\ rcv_wnd \in Nat /\ Lifetime \in Nat
      /\ SnMod \div 2 \in Nat /\ Lifetime + rcv_wnd + snd_wnd < SnMod \div 2
  BY LinkFacts
<1>6. taken - (SnMod \div 2) < p
  BY <1>4, <1>5
<1>7. p <= taken + rcv_wnd + snd_wnd
  BY <1>1, <1>2, <1>3, <1>5
<1>. QED
  BY <1>6, <1>7 DEF Input, RecvPush

\* What is acknowledged has arrived.
LEMMA AckedHere ==
    ASSUME LinkInv, ~cleared, NEW n \in Nat, NEW una \in Nat, NEW heard \in Nat,
           NEW pos \in [1 .. Len(snd_buf) -> Nat], Flight(n, una, heard, pos),
           NEW p \in 1 .. Len(stream), RecvPush(p), Acked(stream[p].sn), ~WritesNull(stream[p].sn)
    PROVE  p \in arrived'
<1>1. Input(p)
  BY RecvPushInputs
<1>2. /\ taken \in Nat /\ snd_wnd \in Nat \ {0} /\ rcv_wnd \in Nat \ {0} /\ Lifetime \in Nat \ {0}
      /\ SnMod > 0 /\ SnMod \in Nat \ {0}
      /\ SnMod \div 2 \in Nat /\ Lifetime + rcv_wnd + snd_wnd < SnMod \div 2
      /\ rcv_nxt = taken % SnMod
  BY LinkFacts
<1>3. taken - Lifetime - snd_wnd < p /\ p <= taken + rcv_wnd + snd_wnd
  BY <1>1 DEF RecvPush, Input
<1>4. PICK a \in Nat : a = p - 1 /\ p = a + 1
  <2>1. p - 1 \in Nat /\ p = (p - 1) + 1
    OBVIOUS
  <2>. QED
    BY <2>1, Zenon
<1>5. stream[p].sn = a % SnMod
  BY <1>4 DEF LinkInv, IInv, StreamInv, Sound
<1>6. CASE p <= taken
  <2>1. p \in 1 .. taken
    BY <1>2, <1>6
  <2>2. p \in arrived
    BY <2>1 DEF Flight, Reached
  <2>. QED
    BY <2>2 DEF RecvPush
<1>7. CASE ~ (p <= taken)
  <2>1. /\ -(SnMod \div 2) <= a - taken /\ a - taken < SnMod \div 2 /\ a - taken >= 0
    BY <1>2, <1>3, <1>4, <1>7
  <2>2. itimediff(a % SnMod, taken % SnMod) = a - taken
    BY <1>2, <1>4, <2>1, DiffExact, Zenon
  <2>3. itimediff(stream[p].sn, rcv_nxt) >= 0
    BY <1>2, <1>5, <2>1, <2>2
  <2>4. InWindow(stream[p].sn)
    BY <2>3 DEF InWindow, Acked
  <2>. QED
    BY <2>4 DEF RecvPush
<1>. QED
  BY <1>6, <1>7

\* What is within a window stays within it as the window moves on.
LEMMA StillWithin ==
    ASSUME NEW q \in Nat, NEW t \in Nat, NEW u \in Nat, NEW w \in Nat, q <= t + w, t <= u
    PROVE  q <= u + w
  OBVIOUS

\* The client accepts a segment, or drops it.
LEMMA RecvPushKeeps ==
    ASSUME LinkInv, ~cleared, NEW p \in 1 .. Len(stream), RecvPush(p)
    PROVE  [Next]_kvars /\ LinkInv'
<1>1. PICK n \in Nat, una \in Nat, heard \in Nat, pos \in [1 .. Len(snd_buf) -> Nat] :
         Flight(n, una, heard, pos)
  BY DEF LinkInv, FlightInv
<1>2. Input(p) /\ InputSegment(stream[p])
  BY RecvPushInputs DEF Input
<1>3. Next /\ IInv'
  <2>1. Next
    BY <1>2, Zenon DEF Next
  <2>. QED
    BY <2>1, NextKeeps DEF LinkInv
<1>4. /\ UNCHANGED <<cleared, stream, snd_wnd, rcv_wnd, snd_nxt, snd_una, snd_buf, snd_queue, rmt_wnd,
                     m_eState, finSent, toServer>>
      /\ toClient' = toClient \ {p}
      /\ arrived' = arrived \union
                      (IF InWindow(stream[p].sn) /\ ~WritesNull(stream[p].sn) THEN {p} ELSE {})
  BY <1>2 DEF RecvPush, InputSegment, sender, windows, server, kcb
<1>5. /\ taken \in Nat /\ rcv_wnd \in Nat \ {0} /\ snd_wnd \in Nat /\ Len(stream) \in Nat /\ Lifetime \in Nat
  BY LinkFacts
<1>6. una <= n /\ n <= Len(stream) /\ heard <= taken
  BY <1>1, Distances
<1>7. arrived \subseteq 1 .. n /\ toClient \subseteq 0 .. n /\ 1 .. taken \subseteq arrived
  BY <1>1 DEF Flight, Reached
<1>8. p \in 1 .. n
  <2>1. p \in toClient \union arrived
    BY DEF RecvPush
  <2>2. p \in 0 .. n
    BY <1>1, <1>7, <2>1
  <2>. QED
    BY <2>2
<1>9. arrived' \subseteq 1 .. n /\ arrived \subseteq arrived'
  BY <1>4, <1>7, <1>8
<1>10. /\ taken <= taken' /\ taken' \in Nat /\ 1 .. taken' \subseteq arrived'
       /\ From(rcv_buf', arrived')
       /\ \A q \in arrived' : q <= taken' + rcv_wnd
  <2>1. \A q \in arrived : q <= taken + rcv_wnd
    BY <1>1 DEF Flight, Reached
  <2>2. From(rcv_buf, arrived)
    BY <1>1 DEF Flight, Reached
  <2>3. CASE ~ (InWindow(stream[p].sn) /\ ~WritesNull(stream[p].sn))
    <3>1. rcv_buf' = rcv_buf /\ taken' = taken /\ arrived' = arrived
      BY <1>2, <1>4, <2>3 DEF InputSegment, receiver
    <3>. QED
      BY <1>5, <1>7, <2>1, <2>2, <3>1
  <2>4. CASE InWindow(stream[p].sn) /\ ~WritesNull(stream[p].sn)
    <3>1. MoveAvailable(Inserted(stream[p]), rcv_queue) /\ arrived' = arrived \union {p}
      BY <1>2, <1>4, <2>4, Zenon DEF InputSegment
    <3>2. p \in Ahead
      <4>1. TypeOK /\ StreamInv /\ QueueInv
        BY DEF LinkInv, IInv
      <4>. QED
        BY <1>2, <2>4, <4>1, InWindowAhead DEF Input
    <3>3. IInv /\ rcv_queue \in Seq(Segment)
      BY DEF LinkInv, IInv, TypeOK
    <3>4. PICK buf \in Seq(Segment) : buf = Inserted(stream[p])
      <4>1. Inserted(stream[p]) \in Seq(Segment)
        BY <3>2, <3>3, InsertKeeps
      <4>. QED
        BY <4>1, Zenon
    <3>5. PICK arr \in SUBSET (1 .. Len(stream)) : arr = arrived \union {p}
      <4>1. arrived \union {p} \in SUBSET (1 .. Len(stream))
        BY <1>5, <1>6, <1>7
      <4>. QED
        BY <4>1, Zenon
    <3>6. From(buf, arr)
      <4>1. From(Inserted(stream[p]), arrived \union {p})
        BY <2>2, <3>2, <3>3, InsertedFrom
      <4>. QED
        BY <3>4, <3>5, <4>1, Zenon
    <3>7. 1 .. taken \subseteq arr
      BY <1>7, <3>5
    <3>8. Once
      BY DEF LinkInv
    <3>9. MoveAvailable(buf, rcv_queue)
      BY <3>1, <3>4
    <3>10. /\ taken <= taken' /\ taken' \in Nat /\ 1 .. taken' \subseteq arr
           /\ From(rcv_buf', arr)
      BY <1>3, <1>4, <3>3, <3>4, <3>5, <3>6, <3>7, <3>8, <3>9, MoveReached
    <3>11. \A q \in arrived' : q <= taken' + rcv_wnd
      <4>1. PICK t \in Nat : t = taken' /\ taken <= t
        BY <3>10, Zenon
      <4>2. SUFFICES ASSUME NEW q \in arrived' PROVE q <= t + rcv_wnd
        BY <4>1, Zenon
      <4>3. q \in Nat
        BY <1>1, <1>9
      <4>4. q <= taken + rcv_wnd
        <5>1. CASE q \in arrived
          BY <2>1, <5>1
        <5>2. CASE q = p
          BY <3>2, <5>2 DEF Ahead
        <5>. QED
          BY <3>1, <4>2, <5>1, <5>2
      <4>5. rcv_wnd \in Nat /\ taken \in Nat
        BY <1>5
      <4>. QED
        BY <4>1, <4>3, <4>4, <4>5, StillWithin, Zenon
    <3>. QED
      BY <3>1, <3>5, <3>10, <3>11
  <2>. QED
    BY <2>3, <2>4
<1>11. (Queued(n) /\ InFlight(snd_buf, pos, n) /\ Window(snd_buf, pos, n, una) /\ snd_una = una % SnMod)'
  BY <1>1, <1>4 DEF Flight, Queued, InFlight, Window
<1>12. Kept(snd_buf, pos, n, heard)'
  BY <1>1, <1>4, <1>9 DEF Flight, Kept
<1>13. Reached(n)'
  <2>1. From(rcv_buf, arrived)'
    BY <1>4, <1>10 DEF From
  <2>. QED
    BY <1>4, <1>7, <1>9, <1>10, <2>1 DEF Reached
<1>14. Noted(heard)'
  <2>1. SUFFICES ASSUME NEW a \in acks'
                 PROVE  \E q \in arrived' : a = (q - 1) % SnMod /\ heard - Lifetime - snd_wnd < q
    BY <1>4 DEF Noted
  <2>2. CASE a \in acks
    BY <1>1, <1>9, <2>2 DEF Flight, Noted
  <2>3. CASE a \notin acks
    <3>1. a = stream[p].sn /\ Acked(stream[p].sn) /\ ~WritesNull(stream[p].sn)
      BY <2>3 DEF RecvPush, AckPush
    <3>2. p \in arrived'
      BY <1>1, <3>1, AckedHere
    <3>3. stream[p].sn = (p - 1) % SnMod
      BY DEF LinkInv, IInv, StreamInv, Sound
    <3>4. taken - Lifetime - snd_wnd < p
      BY DEF RecvPush
    <3>5. heard - Lifetime - snd_wnd < p
      BY <1>1, <1>5, <1>6, <1>8, <3>4
    <3>. QED
      BY <3>1, <3>2, <3>3, <3>5
  <2>. QED
    BY <2>2, <2>3
<1>15. Told(heard)'
  BY <1>1, <1>4, <1>9 DEF Flight, Told, ToldOf
<1>16. (heard <= taken)'
  BY <1>1, <1>5, <1>6, <1>10
<1>17. Flight(n, una, heard, pos)'
  BY <1>11, <1>12, <1>13, <1>14, <1>15, <1>16 DEF Flight
<1>18. FlightInv'
  BY <1>4, <1>17, Zenon DEF FlightInv
<1>19. FinInv'
  BY <1>4 DEF LinkInv, FinInv
<1>20. LinkTypes' /\ LateInv' /\ Once'
  BY <1>4 DEF LinkInv, LinkTypes, LateInv, Once
<1>. QED
  BY <1>3, <1>18, <1>19, <1>20 DEF LinkInv

\* ikcp_recv takes a message, and moves what waits.
LEMMA ClientRecvKeeps ==
    ASSUME LinkInv, ~cleared, ClientRecv
    PROVE  [Next]_kvars /\ LinkInv'
<1>1. PICK n \in Nat, una \in Nat, heard \in Nat, pos \in [1 .. Len(snd_buf) -> Nat] :
         Flight(n, una, heard, pos)
  BY DEF LinkInv, FlightInv
<1>2. Recv /\ Next /\ IInv'
  <2>1. Recv /\ Next
    BY DEF ClientRecv, Next
  <2>. QED
    BY <2>1, NextKeeps DEF LinkInv
<1>3. UNCHANGED <<cleared, stream, snd_wnd, rcv_wnd, snd_nxt, snd_una, snd_buf, snd_queue, rmt_wnd,
                  m_eState, finSent, toServer, toClient, arrived, acks>>
  BY DEF ClientRecv, Recv, sender, windows, server, kcb
<1>4. /\ taken \in Nat /\ rcv_wnd \in Nat \ {0} /\ Len(stream) \in Nat /\ heard <= taken
      /\ n <= Len(stream)
  BY <1>1, LinkFacts, Distances
<1>5. PICK rest \in Seq(Segment) : rest = SubSeq(rcv_queue, Merged + 1, Len(rcv_queue))
  <2>1. IInv /\ Whole /\ rcv_queue \in Seq(Segment)
    BY <1>2 DEF LinkInv, IInv, TypeOK, Recv
  <2>2. rcv_queue # <<>>
    BY <2>1 DEF Whole
  <2>3. PICK N \in Nat : N = Len(delivered) + 1
    <3>1. Len(delivered) + 1 \in Nat
      BY <2>1 DEF IInv, TypeOK
    <3>. QED
      BY <3>1, Zenon
  <2>4. PICK F \in Nat : F = FragCount(sent[N])
    BY <2>1, <2>2, <2>3, FrontFacts
  <2>5. Merged = F /\ F \in 1 .. Len(rcv_queue)
    BY <2>1, <2>3, <2>4, MergedFacts
  <2>6. SubSeq(rcv_queue, F + 1, Len(rcv_queue)) \in Seq(Segment)
    BY <2>1, <2>5
  <2>. QED
    BY <2>5, <2>6
<1>6. MoveAvailable(rcv_buf, rest) /\ rcv_buf \in Seq(Segment)
  BY <1>2, <1>5 DEF Recv, LinkInv, IInv, TypeOK
<1>7. PICK arr \in SUBSET (1 .. Len(stream)) : arr = arrived
  <2>1. arrived \in SUBSET (1 .. Len(stream))
    <3>1. arrived \subseteq 1 .. n
      BY <1>1 DEF Flight, Reached
    <3>. QED
      BY <1>1, <1>4, <3>1
  <2>. QED
    BY <2>1, Zenon
<1>8. /\ taken <= taken' /\ taken' \in Nat /\ 1 .. taken' \subseteq arr
      /\ From(rcv_buf', arr)
  <2>1. 1 .. taken \subseteq arr /\ From(rcv_buf, arr)
    BY <1>1, <1>7 DEF Flight, Reached
  <2>2. IInv /\ Once
    BY DEF LinkInv
  <2>. QED
    BY <1>2, <1>3, <1>5, <1>6, <1>7, <2>1, <2>2, MoveReached
<1>9. (Queued(n) /\ InFlight(snd_buf, pos, n) /\ Window(snd_buf, pos, n, una) /\ snd_una = una % SnMod)'
  BY <1>1, <1>3 DEF Flight, Queued, InFlight, Window
<1>10. (Kept(snd_buf, pos, n, heard) /\ Noted(heard) /\ Told(heard))'
  BY <1>1, <1>3 DEF Flight, Kept, Noted, Told, ToldOf
<1>11. Reached(n)'
  <2>1. arrived \subseteq 1 .. n /\ toClient \subseteq 0 .. n /\ \A q \in arrived : q <= taken + rcv_wnd
    BY <1>1 DEF Flight, Reached
  <2>2. \A q \in arrived : q <= taken' + rcv_wnd
    <3>1. TAKE q \in arrived
    <3>2. q \in Nat /\ q <= taken + rcv_wnd
      BY <1>1, <2>1
    <3>3. rcv_wnd \in Nat /\ taken \in Nat /\ taken' \in Nat /\ taken <= taken'
      BY <1>4, <1>8
    <3>. QED
      BY <3>2, <3>3, StillWithin, Zenon
  <2>3. From(rcv_buf, arrived)'
    BY <1>3, <1>7, <1>8 DEF From
  <2>. QED
    BY <1>3, <1>7, <1>8, <2>1, <2>2, <2>3 DEF Reached
<1>12. (heard <= taken)'
  BY <1>1, <1>4, <1>8
<1>13. Flight(n, una, heard, pos)'
  BY <1>9, <1>10, <1>11, <1>12 DEF Flight
<1>14. FlightInv'
  BY <1>3, <1>13, Zenon DEF FlightInv
<1>15. FinInv' /\ LinkTypes' /\ LateInv' /\ Once'
  BY <1>3 DEF LinkInv, FinInv, LinkTypes, LateInv, Once
<1>. QED
  BY <1>2, <1>14, <1>15 DEF LinkInv
-------------------------------------------------------------------------------
\* The client writes to the server: it tells what it has taken and what has arrived.
LEMMA AckFlushKeeps ==
    ASSUME LinkInv, ~cleared, AckFlush
    PROVE  [Next]_kvars /\ LinkInv'
<1>1. PICK n \in Nat, una \in Nat, heard \in Nat, pos \in [1 .. Len(snd_buf) -> Nat] :
         Flight(n, una, heard, pos)
  BY DEF LinkInv, FlightInv
<1>2. /\ UNCHANGED kvars
      /\ UNCHANGED <<cleared, stream, taken, rcv_buf, snd_wnd, rcv_wnd, snd_nxt, snd_una, snd_buf, snd_queue,
                     rmt_wnd, m_eState, finSent, toClient, arrived>>
      /\ acks' = {}
  BY DEF AckFlush, kvars, sender, receiver, windows, server, kcb
<1>3. [Next]_kvars /\ IInv'
  BY <1>2, NextKeeps DEF LinkInv
<1>4. PICK d \in [taken : Nat, wnd : Nat, acks : SUBSET Nat] :
         d.taken = taken /\ d.acks = acks /\ toServer' \subseteq toServer \union {d}
  <2>1. taken \in Nat /\ rcv_wnd \in Nat
    BY LinkFacts
  <2>2. Unused \in Nat
    <3>1. Len(rcv_queue) \in Nat
      BY DEF LinkInv, IInv, TypeOK
    <3>2. rcv_wnd - Len(rcv_queue) \in Int /\ 0 \in Int
      BY <2>1, <3>1
    <3>3. /\ Max({0, rcv_wnd - Len(rcv_queue)}) \in {0, rcv_wnd - Len(rcv_queue)}
          /\ Max({0, rcv_wnd - Len(rcv_queue)}) >= 0
      BY <3>2, MinMaxTwo, Zenon
    <3>. QED
      BY <3>2, <3>3 DEF Unused
  <2>3. acks \in SUBSET Nat
    <3>1. SUFFICES ASSUME NEW a \in acks PROVE a \in Nat
      OBVIOUS
    <3>2. PICK p \in arrived : a = (p - 1) % SnMod
      BY <1>1 DEF Flight, Noted
    <3>3. p \in 1 .. n
      BY <1>1 DEF Flight, Reached
    <3>4. p - 1 \in Nat /\ SnMod \in Nat /\ SnMod > 0
      BY <3>3, LinkFacts
    <3>. QED
      BY <3>2, <3>4
  <2>4. [taken |-> taken, wnd |-> Unused, acks |-> acks] \in [taken : Nat, wnd : Nat, acks : SUBSET Nat]
    BY <2>1, <2>2, <2>3
  <2>5. PICK kept \in SUBSET toServer :
          toServer' = kept \union {[taken |-> taken, wnd |-> Unused, acks |-> acks]}
    BY Zenon DEF AckFlush, Takes
  <2>6. toServer' \subseteq toServer \union {[taken |-> taken, wnd |-> Unused, acks |-> acks]}
    BY <2>5
  <2>. QED
    BY <2>4, <2>6
<1>5. ToldOf(d)
  <2>1. SUFFICES ASSUME NEW a \in acks
                 PROVE  \E p \in arrived : /\ a = (p - 1) % SnMod
                                           /\ p <= taken + rcv_wnd
                                           /\ taken - Lifetime - 2 * snd_wnd - rcv_wnd < p
    BY <1>4 DEF ToldOf
  <2>2. PICK p \in arrived : a = (p - 1) % SnMod /\ heard - Lifetime - snd_wnd < p
    BY <1>1 DEF Flight, Noted
  <2>3. p \in Nat /\ p <= taken + rcv_wnd
    <3>1. p \in 1 .. n
      BY <1>1 DEF Flight, Reached
    <3>. QED
      BY <1>1, <3>1 DEF Flight, Reached
  <2>4. /\ taken \in Nat /\ rcv_wnd \in Nat /\ snd_wnd \in Nat /\ Lifetime \in Nat
        /\ taken <= n /\ n <= una + snd_wnd /\ una <= heard + rcv_wnd
    BY <1>1, LinkFacts, Distances
  <2>5. taken - Lifetime - 2 * snd_wnd - rcv_wnd < p
    BY <1>1, <2>2, <2>3, <2>4
  <2>. QED
    BY <2>2, <2>3, <2>5
<1>6. Told(taken)'
  <2>1. SUFFICES ASSUME NEW e \in toServer' PROVE e.taken <= taken /\ ToldOf(e)
    BY <1>2 DEF Told, ToldOf
  <2>2. CASE e \in toServer
    <3>1. e.taken <= heard /\ ToldOf(e) /\ heard <= taken
      BY <1>1, <2>2 DEF Flight, Told
    <3>2. e.taken \in Nat /\ taken \in Nat
      BY <2>2, LinkFacts DEF LinkInv, LinkTypes
    <3>. QED
      BY <1>1, <3>1, <3>2
  <2>3. CASE e = d
    BY <1>4, <1>5, <2>3, LinkFacts
  <2>. QED
    BY <1>4, <2>2, <2>3
<1>7. (Queued(n) /\ InFlight(snd_buf, pos, n) /\ Window(snd_buf, pos, n, una) /\ snd_una = una % SnMod)'
  BY <1>1, <1>2 DEF Flight, Queued, InFlight, Window
<1>8. Kept(snd_buf, pos, n, taken)'
  <2>1. SUFFICES ASSUME NEW p \in 1 .. n
                 PROVE  \/ p \in arrived /\ p <= taken + rcv_wnd
                        \/ \E i \in 1 .. Len(snd_buf) : pos[i] = p
    BY <1>2 DEF Kept
  <2>2. CASE p \in arrived
    BY <1>1, <2>2 DEF Flight, Reached
  <2>. QED
    BY <1>1, <2>2 DEF Flight, Kept
<1>9. (Reached(n) /\ Noted(taken))'
  BY <1>1, <1>2 DEF Flight, Reached, From, Noted
<1>10. (taken <= taken)'
  BY <1>2, LinkFacts
<1>11. Flight(n, una, taken, pos)'
  BY <1>6, <1>7, <1>8, <1>9, <1>10 DEF Flight
<1>12. FlightInv'
  <2>1. taken' \in Nat /\ pos \in [1 .. Len(snd_buf') -> Nat]
    BY <1>2, LinkFacts
  <2>. QED
    BY <1>1, <1>11, <2>1, Zenon DEF FlightInv
<1>13. FinInv' /\ LateInv' /\ Once'
  BY <1>2 DEF LinkInv, FinInv, LateInv, Once
<1>14. LinkTypes'
  BY <1>2, <1>4 DEF LinkInv, LinkTypes
<1>. QED
  BY <1>3, <1>12, <1>13, <1>14 DEF LinkInv

\* A datagram is lost, a probe arrives, the connection is reconnected or about to
\* finish: nothing but the counts of transmissions changes in what is in flight.
LEMMA FrameKeeps ==
    ASSUME LinkInv, ~cleared, LinkTypes',
           UNCHANGED <<kvars, cleared, snd_una, snd_nxt, snd_queue, acks, arrived, finSent>>,
           toClient' \subseteq toClient, toServer' \subseteq toServer,
           Len(snd_buf') = Len(snd_buf),
           \A i \in 1 .. Len(snd_buf) : /\ snd_buf'[i].sn = snd_buf[i].sn
                                        /\ snd_buf'[i].frg = snd_buf[i].frg
                                        /\ snd_buf'[i].msg = snd_buf[i].msg,
           m_eState = "FIN_WAIT1" => m_eState' = "FIN_WAIT1"
    PROVE  [Next]_kvars /\ LinkInv'
<1>1. PICK n \in Nat, una \in Nat, heard \in Nat, pos \in [1 .. Len(snd_buf) -> Nat] :
         Flight(n, una, heard, pos)
  BY DEF LinkInv, FlightInv
<1>2. UNCHANGED <<stream, taken, rcv_buf, snd_wnd, rcv_wnd>>
  BY DEF kvars, sender, receiver, windows
<1>3. [Next]_kvars /\ IInv'
  BY NextKeeps DEF LinkInv
<1>4. snd_buf = <<>> <=> snd_buf' = <<>>
  <2>1. snd_buf \in Seq(Flying) /\ snd_buf' \in Seq(Flying)
    BY DEF LinkInv, LinkTypes
  <2>. QED
    BY <2>1
<1>5. (Queued(n) /\ snd_una = una % SnMod)'
  BY <1>1, <1>2 DEF Flight, Queued
<1>6. InFlight(snd_buf, pos, n)'
  BY <1>1, <1>2 DEF Flight, InFlight
<1>7. Window(snd_buf, pos, n, una)'
  BY <1>1, <1>2, <1>4 DEF Flight, Window
<1>8. Kept(snd_buf, pos, n, heard)'
  BY <1>1, <1>2 DEF Flight, Kept
<1>9. (Reached(n) /\ Noted(heard) /\ heard <= taken)'
  BY <1>1, <1>2 DEF Flight, Reached, From, Noted
<1>10. Told(heard)'
  BY <1>1, <1>2 DEF Flight, Told, ToldOf
<1>11. Flight(n, una, heard, pos)'
  BY <1>5, <1>6, <1>7, <1>8, <1>9, <1>10 DEF Flight
<1>12. FlightInv'
  BY <1>1, <1>11, Zenon DEF FlightInv
<1>13. FinInv' /\ LateInv' /\ Once'
  BY <1>2 DEF LinkInv, FinInv, LateInv, Once
<1>. QED
  BY <1>3, <1>12, <1>13 DEF LinkInv

\* The steps of that kind.
LEMMA FrameSteps ==
    ASSUME LinkInv, ~cleared,
           \/ FinConnect
           \/ Reconnect
           \/ RecvAsk
           \/ \E x \in toClient : Lose(x)
           \/ \E d \in toServer : LoseReply(d)
    PROVE  [Next]_kvars /\ LinkInv'
<1>1. LinkTypes
  BY DEF LinkInv
<1>2. CASE Reconnect
  <2>1. /\ UNCHANGED <<kvars, cleared, snd_una, snd_nxt, snd_queue, acks, arrived, finSent, rmt_wnd,
                       toClient, toServer>>
        /\ m_eState = "DISCONNET" /\ m_eState' = "ESTABLISHED"
        /\ snd_buf' = [i \in 1 .. Len(snd_buf) |-> [snd_buf[i] EXCEPT !.xmit = 0]]
    BY <1>2 DEF Reconnect
  <2>2. snd_buf \in Seq(Flying) /\ Len(snd_buf) \in Nat
    BY <1>1 DEF LinkTypes
  <2>3. \A i \in 1 .. Len(snd_buf) : /\ snd_buf'[i] \in Flying
                                     /\ snd_buf'[i].sn = snd_buf[i].sn
                                     /\ snd_buf'[i].frg = snd_buf[i].frg
                                     /\ snd_buf'[i].msg = snd_buf[i].msg
    <3>1. TAKE i \in 1 .. Len(snd_buf)
    <3>2. snd_buf[i] \in Flying /\ snd_buf'[i] = [snd_buf[i] EXCEPT !.xmit = 0]
      BY <2>1, <2>2
    <3>. QED
      BY <3>2 DEF Flying
  <2>4. snd_buf' \in Seq(Flying) /\ Len(snd_buf') = Len(snd_buf)
    <3>1. \A i \in 1 .. Len(snd_buf) : [snd_buf[i] EXCEPT !.xmit = 0] \in Flying
      BY <2>1, <2>3
    <3>. QED
      BY <2>1, <2>2, <3>1
  <2>5. LinkTypes'
    BY <1>1, <2>1, <2>4 DEF LinkTypes
  <2>. QED
    BY <2>1, <2>3, <2>4, <2>5, FrameKeeps
<1>3. CASE ~ Reconnect
  <2>1. /\ UNCHANGED <<kvars, cleared, snd_una, snd_nxt, snd_queue, snd_buf, acks, arrived, finSent, rmt_wnd>>
        /\ toClient' \subseteq toClient /\ toServer' \subseteq toServer
        /\ m_eState' \in {m_eState, "FIN_WAIT1"}
    BY <1>3 DEF FinConnect, RecvAsk, Lose, LoseReply, server, kcb
  <2>2. LinkTypes'
    BY <1>1, <2>1 DEF LinkTypes
  <2>. QED
    BY <2>1, <2>2, FrameKeeps
<1>. QED
  BY <1>2, <1>3

\* A datagram for a connection that is down: the server throws its data away.
LEMMA RecvWhileDisconnectedKeeps ==
    ASSUME LinkInv, ~cleared, NEW d \in toServer, RecvWhileDisconnected(d)
    PROVE  [Next]_kvars /\ LinkInv'
<1>1. /\ UNCHANGED kvars /\ UNCHANGED <<stream, snd_wnd, rcv_wnd, m_eState, finSent, arrived>>
      /\ cleared' = TRUE /\ toServer' \subseteq toServer
      /\ snd_queue' = <<>> /\ snd_buf' = <<>> /\ rmt_wnd' = IKCP_WND_RCV
  BY DEF RecvWhileDisconnected, ResetKcp, kvars, sender, windows
<1>2. [Next]_kvars /\ IInv'
  BY <1>1, NextKeeps DEF LinkInv
<1>3. FinInv' /\ LateInv'
  BY <1>1 DEF LinkInv, FinInv, LateInv
<1>4. LinkTypes'
  <2>1. <<>> \in Seq(Fragment) /\ <<>> \in Seq(Flying)
    OBVIOUS
  <2>2. IKCP_WND_RCV \in Nat
    BY KcpAssumption
  <2>. QED
    BY <1>1, <2>1, <2>2 DEF LinkInv, LinkTypes
<1>. QED
  BY <1>1, <1>2, <1>3, <1>4 DEF LinkInv

\* It holds at the start: nothing is sent.
LEMMA LinkInitInv == LinkInit => LinkInv
<1> SUFFICES ASSUME LinkInit PROVE LinkInv
  OBVIOUS
<1>1. /\ Init
      /\ m_eState = "ESTABLISHED" /\ finSent = FALSE /\ cleared = FALSE
      /\ snd_una = 0 /\ snd_nxt = 0 /\ snd_queue = <<>> /\ snd_buf = <<>>
      /\ rmt_wnd = IKCP_WND_RCV
      /\ acks = {} /\ toClient = {} /\ toServer = {} /\ arrived = {}
      /\ LateInv
  BY DEF LinkInit, LinkStart, LateInv
<1>2. stream = <<>> /\ rcv_buf = <<>> /\ taken = 0
  BY <1>1 DEF Init
<1>3. IInv
  BY <1>1, InitInv
<1>4. LinkTypes
  <2>1. <<>> \in Seq(Fragment) /\ <<>> \in Seq(Flying)
    OBVIOUS
  <2>2. IKCP_WND_RCV \in Nat
    BY KcpAssumption
  <2>. QED
    BY <1>1, <2>1, <2>2 DEF LinkTypes
<1>5. Len(stream) = 0 /\ Len(snd_queue) = 0 /\ Len(snd_buf) = 0 /\ Len(rcv_buf) = 0
  BY <1>1, <1>2
<1>6. 1 .. 0 = {} /\ 0 .. 0 = {0}
  OBVIOUS
<1>7. Once
  BY <1>5, <1>6, Zenon DEF Once
<1>8. PICK pos \in [1 .. Len(snd_buf) -> Nat] : TRUE
  <2>1. [i \in 1 .. Len(snd_buf) |-> 0] \in [1 .. Len(snd_buf) -> Nat]
    OBVIOUS
  <2>. QED
    BY <2>1, Zenon
<1>9. snd_wnd \in Nat /\ rcv_wnd \in Nat /\ SnMod \in Nat /\ SnMod > 0
  BY <1>3, WindowFacts DEF IInv, TypeOK
<1>10. 0 % SnMod = 0
  BY <1>9
<1>11. Queued(0)
  <2>1. 0 + Len(snd_queue) = Len(stream)
    BY <1>5
  <2>2. \A j \in 1 .. Len(snd_queue) :
          snd_queue[j].frg = stream[0 + j].frg /\ snd_queue[j].msg = stream[0 + j].msg
    BY <1>5, <1>6, Zenon
  <2>3. snd_nxt = 0 % SnMod
    BY <1>1, <1>10
  <2>. QED
    BY <2>1, <2>2, <2>3, Zenon DEF Queued
<1>12. InFlight(snd_buf, pos, 0) /\ Kept(snd_buf, pos, 0, 0)
  BY <1>5, <1>6, Zenon DEF InFlight, Kept
<1>13. Window(snd_buf, pos, 0, 0)
  BY <1>1, <1>9 DEF Window
<1>14. Reached(0)
  <2>1. \A p \in arrived : p <= taken + rcv_wnd
    BY <1>1
  <2>2. From(rcv_buf, arrived)
    BY <1>5, <1>6, Zenon DEF From
  <2>3. arrived \subseteq 1 .. 0 /\ 1 .. taken \subseteq arrived /\ toClient \subseteq 0 .. 0
    BY <1>1, <1>2, <1>6
  <2>. QED
    BY <2>1, <2>2, <2>3, Zenon DEF Reached
<1>15. Noted(0) /\ Told(0) /\ 0 <= taken
  BY <1>1, <1>2 DEF Noted, Told
<1>16. Flight(0, 0, 0, pos)
  BY <1>1, <1>10, <1>11, <1>12, <1>13, <1>14, <1>15 DEF Flight
<1>17. FlightInv
  <2>1. 0 \in Nat
    OBVIOUS
  <2>. QED
    BY <1>8, <1>16, <2>1, Zenon DEF FlightInv
<1>18. FinInv
  BY <1>1 DEF FinInv
<1>. QED
  BY <1>1, <1>3, <1>4, <1>7, <1>17, <1>18 DEF LinkInv

\* Every step is one of the receiving half with such a peer, or leaves it alone, and
\* keeps the invariant.
LEMMA LinkNextKeeps == LinkInv /\ [LinkNext]_linkVars => [Next]_kvars /\ LinkInv'
<1> SUFFICES ASSUME LinkInv, [LinkNext]_linkVars PROVE [Next]_kvars /\ LinkInv'
  OBVIOUS
<1>1. CASE UNCHANGED linkVars
  <2>1. UNCHANGED kvars
    BY <1>1 DEF linkVars
  <2>2. [Next]_kvars /\ IInv'
    BY <2>1, NextKeeps DEF LinkInv
  <2>3. /\ UNCHANGED <<stream, taken, rcv_buf, snd_wnd, rcv_wnd>>
        /\ UNCHANGED <<m_eState, finSent, cleared, snd_una, snd_nxt, snd_queue, snd_buf, rmt_wnd,
                       acks, arrived, toClient, toServer>>
    BY <1>1, <2>1 DEF linkVars, link, server, kcb, kvars, sender, receiver, windows
  <2>4. (LinkTypes /\ FinInv /\ LateInv)'
    BY <2>3 DEF LinkInv, LinkTypes, FinInv, LateInv
  <2>5. CASE cleared
    BY <2>2, <2>3, <2>4, <2>5 DEF LinkInv
  <2>6. CASE ~ cleared
    BY <2>1, <2>3, <2>4, <2>6, FrameKeeps
  <2>. QED
    BY <2>5, <2>6
<1>2. CASE LinkNext /\ ~ cleared
  <2>1. CASE \E m \in Msgs : SendMsg(m)
    BY <1>2, <2>1, SendMsgKeeps
  <2>2. CASE \E due \in SUBSET (1 .. Len(snd_buf)), probeDue \in BOOLEAN : Proc(due, probeDue)
    BY <1>2, <2>2, ProcKeeps
  <2>3. CASE FinConnect \/ Reconnect \/ RecvAsk \/ (\E x \in toClient : Lose(x))
             \/ (\E d \in toServer : LoseReply(d))
    BY <1>2, <2>3, FrameSteps
  <2>4. CASE \E d \in toServer : RecvReliable(d)
    BY <1>2, <2>4, RecvReliableKeeps
  <2>5. CASE \E d \in toServer : RecvWhileDisconnected(d)
    BY <1>2, <2>5, RecvWhileDisconnectedKeeps
  <2>6. CASE \E p \in 1 .. Len(stream) : RecvPush(p)
    BY <1>2, <2>6, RecvPushKeeps
  <2>7. CASE AckFlush
    BY <1>2, <2>7, AckFlushKeeps
  <2>8. CASE ClientRecv
    BY <1>2, <2>8, ClientRecvKeeps
  <2>. QED
    BY <1>1, <1>2, <2>1, <2>2, <2>3, <2>4, <2>5, <2>6, <2>7, <2>8, Zenon DEF LinkNext
<1>. QED
  BY <1>1, <1>2, Zenon DEF LinkNext
-------------------------------------------------------------------------------
\* The inductive invariant.
THEOREM LinkInvariance == LinkSpec => []LinkInv
<1>. QED
  BY LinkInitInv, LinkNextKeeps, PTL DEF LinkSpec

\* What arrives at the client keeps to KcpRecv's account of a peer and its network
\* (KeepsToRecv).
THEOREM PeerKeepsToRecv == LinkSpec => KeepsToRecv
<1>1. LinkInit => Init
  BY DEF LinkInit, LinkStart
<1>. QED
  BY <1>1, LinkInvariance, LinkNextKeeps, PTL DEF LinkSpec, KeepsToRecv, Spec

\* So the two halves of KCP with the network between them are the queue of messages
\* that MsgQueue promises (ImplementsQueue).
THEOREM LinkImplementsQueue == LinkSpec => ImplementsQueue
<1>. QED
  BY PeerKeepsToRecv, KcpImplementsQueue, PTL DEF KeepsToRecv

\* What is sent is not forgotten before it has arrived, and KCP does not take a link
\* for broken that is not (KeptUntilArrived).
THEOREM SegmentsKept == LinkSpec => []KeptUntilArrived
<1>1. LinkInv => KeptUntilArrived
  <2>1. SUFFICES ASSUME LinkInv, ~cleared
                 PROVE  /\ \A p \in 1 .. Len(stream) - Len(snd_queue) :
                              p \in arrived \/ \E i \in 1 .. Len(snd_buf) : Position(snd_buf[i]) = p
                        /\ \A d \in toServer : taken - Lifetime <= d.taken => ~IsSnBroken(d)
    BY DEF KeptUntilArrived
  <2>2. PICK n \in Nat, una \in Nat, heard \in Nat, pos \in [1 .. Len(snd_buf) -> Nat] :
           Flight(n, una, heard, pos)
    BY <2>1 DEF LinkInv, FlightInv
  <2>3. Len(stream) - Len(snd_queue) = n /\ n <= Len(stream) /\ Len(stream) \in Nat
    <3>1. Len(stream) \in Nat /\ Len(snd_queue) \in Nat
      BY <2>1, LinkFacts DEF LinkInv, LinkTypes
    <3>. QED
      BY <2>2, <3>1 DEF Flight, Queued
  <2>4. ASSUME NEW p \in 1 .. n, p \notin arrived
        PROVE  \E i \in 1 .. Len(snd_buf) : Position(snd_buf[i]) = p
    <3>1. PICK i \in 1 .. Len(snd_buf) : pos[i] = p
      BY <2>2, <2>4 DEF Flight, Kept
    <3>2. snd_buf[i].frg = stream[p].frg /\ snd_buf[i].msg = stream[p].msg
      BY <2>2, <3>1 DEF Flight, InFlight
    <3>3. p \in 1 .. Len(stream)
      BY <2>2, <2>3
    <3>4. Position(snd_buf[i]) = p
      BY <2>1, <3>2, <3>3, PositionFacts DEF LinkInv
    <3>. QED
      BY <3>4
  <2>. QED
    BY <2>1, <2>3, <2>4, NotBroken
<1>. QED
  BY <1>1, LinkInvariance, PTL

\* The FIN is not sent before all reliable messages have got through (FinAfterAll).
THEOREM FinComesLast == LinkSpec => []FinAfterAll
<1>1. LinkInv => FinAfterAll
  BY DEF LinkInv, FinInv, FinAfterAll
<1>. QED
  BY <1>1, LinkInvariance, PTL
-------------------------------------------------------------------------------
\* What waits and what is in flight is bounded.

\* A sequence of K places in order, all of them from a to b, is no longer than that.
LEMMA InOrderFits ==
    ASSUME NEW K \in Nat, NEW a \in Int, NEW b \in Int, a <= b + 1,
           NEW g \in [1 .. K -> a .. b], \A j, k \in 1 .. K : j < k => g[j] < g[k]
    PROVE  K <= b - a + 1
<1>1. IsFiniteSet(1 .. K) /\ Cardinality(1 .. K) = K
  <2>1. Cardinality(1 .. K) = IF 1 > K THEN 0 ELSE K - 1 + 1
    BY FS_Interval
  <2>. QED
    BY <2>1, FS_Interval
<1>2. IsFiniteSet(a .. b) /\ Cardinality(a .. b) = b - a + 1
  <2>1. Cardinality(a .. b) = IF a > b THEN 0 ELSE b - a + 1
    BY FS_Interval
  <2>. QED
    BY <2>1, FS_Interval
<1>3. g \in Injection(1 .. K, a .. b)
  <2>1. ASSUME NEW j \in 1 .. K, NEW k \in 1 .. K, g[j] = g[k] PROVE j = k
    <3>1. g[j] \in Int /\ g[k] \in Int /\ ~ (g[j] < g[k]) /\ ~ (g[k] < g[j])
      BY <2>1
    <3>2. ~ (j < k) /\ ~ (k < j)
      BY <3>1
    <3>. QED
      BY <3>2
  <2>. QED
    BY <2>1 DEF Injection, IsInjective
<1>. QED
  BY <1>1, <1>2, <1>3, FS_Injection

\* What waits at the server: a message is accepted before it is counted.
WaitInv ==
    /\ Waiting <= KCP_CONF_MAX_WAITSND + IKCP_WND_RCV - 2
    /\ cleared => Waiting = 0

\* Only a message that is sent adds to it.
LEMMA WaitKeeps == LinkInv /\ WaitInv /\ [LinkNext]_linkVars => WaitInv'
<1> SUFFICES ASSUME LinkInv, WaitInv, [LinkNext]_linkVars PROVE WaitInv'
  OBVIOUS
<1>1. /\ snd_queue \in Seq(Fragment) /\ snd_buf \in Seq(Flying)
      /\ Len(snd_queue) \in Nat /\ Len(snd_buf) \in Nat
      /\ KCP_CONF_MAX_WAITSND \in Nat \ {0} /\ IKCP_WND_RCV \in Nat \ {0}
  BY KcpAssumption, LinkAssumption DEF LinkInv, LinkTypes
<1>2. ASSUME Waiting' \in Nat, Waiting' <= Waiting, cleared' = cleared PROVE WaitInv'
  BY <1>1, <1>2 DEF WaitInv, Waiting
<1>3. ASSUME ResetKcp PROVE WaitInv'
  <2>1. Len(snd_queue') = 0 /\ Len(snd_buf') = 0
    BY <1>3 DEF ResetKcp
  <2>. QED
    BY <1>1, <2>1 DEF WaitInv, Waiting
<1>4. ASSUME UNCHANGED <<snd_queue, snd_buf, cleared>> PROVE WaitInv'
  BY <1>4 DEF WaitInv, Waiting
<1>5. ASSUME ~cleared, NEW m \in Msgs, SendMsg(m) PROVE WaitInv'
  <2>1. PICK F \in Nat : F = FragCount(m) /\ F < IKCP_WND_RCV
    <3>1. FragCount(m) \in Nat /\ FragCount(m) < IKCP_WND_RCV
      BY <1>5, FragCountType DEF SendMsg, SendNumbered
    <3>. QED
      BY <3>1
  <2> DEFINE parts == [k \in 1 .. F |-> [frg |-> F - k, msg |-> Len(sent) + 1]]
  <2>2. /\ snd_queue' = snd_queue \o parts /\ snd_buf' = snd_buf /\ cleared' = cleared
        /\ Waiting < KCP_CONF_MAX_WAITSND
    BY <1>5, <2>1 DEF SendMsg
  <2>3. parts \in Seq(Fragment) /\ Len(parts) = F
    <3>1. Len(sent) \in Nat
      BY DEF LinkInv, IInv, TypeOK
    <3>2. \A k \in 1 .. F : F - k \in Nat /\ Len(sent) + 1 \in Nat \ {0}
      BY <3>1
    <3>. QED
      BY <3>2 DEF Fragment
  <2> HIDE DEF parts
  <2>4. Len(snd_queue') = Len(snd_queue) + F
    BY <1>1, <2>2, <2>3, ConcatProperties
  <2>. QED
    BY <1>1, <1>5, <2>1, <2>2, <2>4 DEF WaitInv, Waiting
<1>6. ASSUME ~cleared, NEW due \in SUBSET (1 .. Len(snd_buf)), NEW probeDue \in BOOLEAN, Proc(due, probeDue)
      PROVE  WaitInv'
  <2>1. PICK n \in Nat, una \in Nat, heard \in Nat, pos \in [1 .. Len(snd_buf) -> Nat] :
           Flight(n, una, heard, pos)
    BY <1>6 DEF LinkInv, FlightInv
  <2>2. PICK M \in 0 .. Len(snd_queue) : Moved = M /\ Len(Numbered) = Len(snd_buf) + M
    BY <2>1, NumberedFacts
  <2>3. cleared' = cleared /\ Flush(due, probeDue)
    BY <1>6 DEF Proc
  <2>4. Len(snd_buf') = Len(snd_buf) + M
    <3>1. PICK N \in Nat : N = Len(Numbered) /\ N = Len(snd_buf) + M
      BY <1>1, <2>2
    <3>2. PICK f : snd_buf' = [i \in 1 .. N |-> f[i]]
      <4>1. snd_buf' = [i \in 1 .. N |-> snd_buf'[i]]
        BY <2>3, <3>1 DEF Flush
      <4>. QED
        BY <4>1
    <3>. QED
      BY <3>1, <3>2
  <2>5. Len(snd_queue') = Len(snd_queue) - M
    BY <1>1, <2>2, <2>3 DEF Flush
  <2>. QED
    BY <1>1, <1>2, <2>2, <2>3, <2>4, <2>5 DEF Waiting
<1>7. ASSUME ~cleared, NEW d \in toServer, RecvReliable(d) PROVE WaitInv'
  <2>1. PICK n \in Nat, una \in Nat, heard \in Nat, pos \in [1 .. Len(snd_buf) -> Nat] :
           Flight(n, una, heard, pos)
    BY <1>7 DEF LinkInv, FlightInv
  <2>2. taken - Lifetime <= d.taken
    BY <1>7 DEF RecvReliable
  <2>3. InputAcks(d) /\ cleared' = cleared
    BY <1>7, <2>2, NotBroken DEF RecvReliable
  <2>4. PICK K \in Nat : \E G \in [1 .. K -> 1 .. Len(snd_buf)] : Leaves(d, pos, heard, G, K)
    BY <2>1, <2>2, LeftFacts
  <2>5. PICK G \in [1 .. K -> 1 .. Len(snd_buf)] : Leaves(d, pos, heard, G, K)
    BY <2>4
  <2>6. snd_buf' = [k \in 1 .. K |-> snd_buf[G[k]]] /\ snd_queue' = snd_queue
    BY <2>3, <2>5 DEF InputAcks, Leaves, Picked
  <2>7. K <= Len(snd_buf)
    <3>1. PICK N \in Nat : N = Len(snd_buf)
      BY <1>1
    <3>2. G \in [1 .. K -> 1 .. N] /\ 1 <= N + 1 /\ N \in Int /\ 1 \in Int
      BY <3>1
    <3>3. \A j, k \in 1 .. K : j < k => G[j] < G[k]
      BY <2>5 DEF Leaves
    <3>4. K <= N - 1 + 1
      BY <3>2, <3>3, InOrderFits
    <3>. QED
      BY <3>1, <3>4
  <2>8. Len(snd_buf') = K
    BY <2>6
  <2>. QED
    BY <1>1, <1>2, <2>3, <2>6, <2>7, <2>8 DEF Waiting
<1>8. ASSUME NEW d \in toServer, RecvWhileDisconnected(d) PROVE WaitInv'
  BY <1>3, <1>8 DEF RecvWhileDisconnected
<1>9. ASSUME Reconnect PROVE WaitInv'
  <2>1. snd_buf' = [i \in 1 .. Len(snd_buf) |-> [snd_buf[i] EXCEPT !.xmit = 0]]
        /\ UNCHANGED <<snd_queue, cleared>>
    BY <1>9 DEF Reconnect
  <2>2. Len(snd_buf') = Len(snd_buf)
    BY <1>1, <2>1
  <2>. QED
    BY <2>1, <2>2 DEF WaitInv, Waiting
<1>10. ASSUME \/ FinConnect \/ RecvAsk \/ AckFlush \/ ClientRecv
              \/ \E p \in 1 .. Len(stream) : RecvPush(p)
              \/ \E x \in toClient : Lose(x)
              \/ \E d \in toServer : LoseReply(d)
       PROVE  WaitInv'
  <2>1. UNCHANGED <<snd_queue, snd_buf, cleared>>
    BY <1>10, Zenon DEF FinConnect, RecvAsk, AckFlush, ClientRecv, RecvPush, Lose, LoseReply, server, kcb
  <2>. QED
    BY <1>4, <2>1
<1>11. ASSUME UNCHANGED linkVars PROVE WaitInv'
  BY <1>4, <1>11 DEF linkVars, link, server, kcb
<1>. QED
  BY <1>5, <1>6, <1>7, <1>8, <1>9, <1>10, <1>11, Zenon DEF LinkNext

\* The bounds hold at the start, of the receiving half too.
LEMMA LinkRoomInv == LinkSpec => [](WaitInv /\ RoomInv)
<1>1. LinkInit => WaitInv
  <2>1. SUFFICES ASSUME LinkInit PROVE WaitInv
    OBVIOUS
  <2>2. Len(snd_queue) = 0 /\ Len(snd_buf) = 0
    BY <2>1 DEF LinkInit, LinkStart
  <2>3. Waiting = 0
    BY <2>2 DEF Waiting
  <2>4. KCP_CONF_MAX_WAITSND \in Nat \ {0} /\ IKCP_WND_RCV \in Nat \ {0}
    BY KcpAssumption, LinkAssumption
  <2>. QED
    BY <2>3, <2>4 DEF WaitInv
<1>. QED
  BY <1>1, WaitKeeps, LinkInvariance, PeerKeepsToRecv, RoomInvariance, PTL DEF LinkSpec, KeepsToRecv

\* What is in flight is within the window, what waits at the server is at most one message above
\* KCP_CONF_MAX_WAITSND, and what waits at the client fits its window (Bounded).
THEOREM BoundedLists == LinkSpec => []Bounded
<1>1. LinkInv /\ WaitInv /\ RoomInv => Bounded
  <2> SUFFICES ASSUME LinkInv, WaitInv, RoomInv PROVE Bounded
    OBVIOUS
  <2>1. /\ Len(snd_buf) \in Nat /\ Len(snd_queue) \in Nat /\ Len(rcv_buf) \in Nat
        /\ snd_wnd \in Nat \ {0} /\ rcv_wnd \in Nat \ {0} /\ taken \in Nat
    <3>1. snd_buf \in Seq(Flying) /\ snd_queue \in Seq(Fragment) /\ rcv_buf \in Seq(Segment)
      BY Zenon DEF LinkInv, LinkTypes, IInv, TypeOK
    <3>2. snd_wnd \in Nat \ {0} /\ rcv_wnd \in Nat \ {0} /\ taken \in Nat
      BY LinkFacts, Zenon
    <3>3. Len(snd_buf) \in Nat /\ Len(snd_queue) \in Nat /\ Len(rcv_buf) \in Nat
      BY <3>1
    <3>. QED
      BY <3>2, <3>3, Zenon
  <2>2. Len(snd_buf) <= snd_wnd
    <3>1. CASE cleared
      BY <2>1, <3>1 DEF WaitInv, Waiting
    <3>2. CASE ~cleared
      <4>1. PICK n \in Nat, una \in Nat, heard \in Nat, pos \in [1 .. Len(snd_buf) -> Nat] :
               Flight(n, una, heard, pos)
        BY <3>2 DEF LinkInv, FlightInv
      <4>2. una <= n /\ n <= una + snd_wnd
        BY <4>1, Distances
      <4>3. \A i \in 1 .. Len(snd_buf) : pos[i] \in 1 .. n
        BY <4>1 DEF Flight, InFlight
      <4>4. \A i, j \in 1 .. Len(snd_buf) : i < j => pos[i] < pos[j]
        BY <4>1 DEF Flight, InFlight
      <4>5. \A i \in 1 .. Len(snd_buf) : pos[i] \in una + 1 .. n
        <5>1. TAKE i \in 1 .. Len(snd_buf)
        <5>2. una = pos[1] - 1 /\ 1 \in 1 .. Len(snd_buf)
          <6>1. snd_buf # <<>>
            OBVIOUS
          <6>. QED
            BY <2>1, <4>1, <6>1 DEF Flight, Window
        <5>3. i = 1 \/ 1 < i
          OBVIOUS
        <5>4. pos[1] \in Nat /\ pos[i] \in 1 .. n /\ (i = 1 \/ pos[1] < pos[i])
          BY <4>3, <4>4, <5>2, <5>3
        <5>. QED
          BY <5>2, <5>4
      <4>6. pos \in [1 .. Len(snd_buf) -> una + 1 .. n]
        BY <4>5
      <4>7. Len(snd_buf) <= n - (una + 1) + 1
        <5>1. una + 1 \in Int /\ n \in Int /\ una + 1 <= n + 1
          BY <4>2
        <5>. QED
          BY <2>1, <4>4, <4>6, <5>1, InOrderFits
      <4>. QED
        BY <2>1, <4>2, <4>7
    <3>. QED
      BY <3>1, <3>2
  <2>3. Len(rcv_buf) <= rcv_wnd
    <3>1. PICK pos \in [1 .. Len(rcv_buf) -> Ahead] : HeldAt(rcv_buf, pos)
      BY DEF LinkInv, IInv, BufInv
    <3>2. pos \in [1 .. Len(rcv_buf) -> taken + 1 .. taken + rcv_wnd]
      BY <3>1 DEF Ahead
    <3>3. ASSUME NEW i \in 1 .. Len(rcv_buf), NEW j \in 1 .. Len(rcv_buf), i < j PROVE pos[i] < pos[j]
      <4>1. j - i <= pos[j] - pos[i]
        BY <3>1, <3>3 DEF HeldAt
      <4>2. pos[i] \in Int /\ pos[j] \in Int
        BY <2>1, <3>2
      <4>. QED
        BY <3>3, <4>1, <4>2
    <3>4. Len(rcv_buf) <= (taken + rcv_wnd) - (taken + 1) + 1
      <4>1. taken + 1 \in Int /\ taken + rcv_wnd \in Int /\ taken + 1 <= taken + rcv_wnd + 1
        BY <2>1
      <4>. QED
        BY <2>1, <3>2, <3>3, <4>1, InOrderFits
    <3>. QED
      BY <2>1, <3>4
  <2>. QED
    BY <2>2, <2>3 DEF Bounded, WaitInv, RoomInv
<1>. QED
  BY <1>1, LinkInvariance, LinkRoomInv, PTL
-------------------------------------------------------------------------------
\* A behaviour of MCKcp that is of the loop is one of RecvLoop, and stays one.
LEMMA LoopPartKeeps ==
    (part = "loop" => IInv /\ LoopInv) /\ [MCNext]_vars => (part = "loop" => IInv /\ LoopInv)'
<1>1. [MCNext]_vars => part' = part
  BY DEF MCNext, vars
<1>2. SUFFICES ASSUME part = "loop", IInv, LoopInv, [MCNext]_vars PROVE (IInv /\ LoopInv)'
  BY <1>1
<1>3. [LoopNext]_lvars
  <2>1. CASE LoopNext
    BY <2>1
  <2>2. CASE UNCHANGED vars
    BY <2>2 DEF vars, lvars
  <2>. QED
    BY <1>2, <2>1, <2>2 DEF MCNext
<1>. QED
  BY <1>2, <1>3, NextKeeps, LoopIsKcp, LoopKeeps

\* In the instance that is run, too, the main thread's queue gets each message of a good length that
\* the loop takes out of KCP and RecvOneMsg does not lose, and no other (LoopHandsGoodOnes).
THEOREM LoopPartHandsGoodOnes == MCSpec => []LoopHandsGoodOnes
<1>1. MCInit => (part = "loop" => IInv /\ LoopInv)
  BY LoopInitInv DEF MCInit
<1>2. (part = "loop" => IInv /\ LoopInv) => LoopHandsGoodOnes
  <2>1. SUFFICES ASSUME LoopInv PROVE GoodOnesHanded
    BY DEF LoopHandsGoodOnes
  <2>. QED
    BY <2>1, OnlyGood, Zenon
<1>. QED
  BY <1>1, <1>2, LoopPartKeeps, PTL DEF MCSpec
===============================================================================
