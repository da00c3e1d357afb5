---------------------------- MODULE SendPath_proofs ----------------------------
(* Proofs about SendPath, for all connections, packets, addresses, lengths of    *)
(* messages and sizes of packets: TypeOK, with the queue and its packets' room,    *)
(* PointersSound and QueuedAsTaken.                                                *)
(*                                                                               *)
(* What a callback reaches is a matter of the order inside one pass of             *)
(* NetMgr::Proc.  FreshInv says it: once the packets of the pass before are sent,    *)
(* those queued are of connections that this pass cannot have freed yet, and       *)
(* merge packets have their client's address of now.                               *)
(*                                                                               *)
(* That messages leave in their order hangs on where the merge packet is: OwedInv   *)
(* says that behind it a connection has no packet with messages, and that what a    *)
(* connection is owed is what its packets hold, cut at their borders.               *)
EXTENDS SendPath, SequenceTheorems, WellFoundedInduction, TLAPS

Sending == {"ESTABLISHED", "FIN_WAIT"}

\* A connection that is there has an address.
AddrInv == \A c \in Conns : m_eState[c] # None => m_stClientAddr[c] \in Addrs

\* PointersSound's first part: a merge packet is one of its connection, in the queue.
MergeInv == failed # "error" => \A c \in Conns : m_poMergePacket[c] # None => MergeGood(c)

\* PointersSound's second part: no packet's connection is freed, and its messages are
\* for the address it has.
SoundInv ==
    failed = "no" => /\ orphans = {} /\ ~wild
                     /\ \A p \in Range(m_oSendQueue) : \A i \in 1 .. Len(packet[p].data) :
                           packet[p].data[i].addr = packet[p].addr

\* Between the sending and ProcClosedConn of one pass, queued packets belong to
\* connections that are not closed, as FinConnect closes only those that ...
Belongs ==
    /\ phase = "m2n" /\ due =>
           \A p \in Range(m_oSendQueue) :
               packet[p].poConn # None => m_eState[packet[p].poConn] \in Sending
    /\ phase = "conns" =>
           \A p \in Range(m_oSendQueue) :
               packet[p].poConn # None => m_eState[packet[p].poConn] \in Sending \union {"DISCONNET"}

\* ... and after the sending merge packets have the address of their client.
SameAddr ==
    phase \notin {"read", "write"} =>
        \A c \in Conns :
            m_poMergePacket[c] # None => packet[m_poMergePacket[c]].addr = m_stClientAddr[c]

FreshInv ==
    /\ failed = "no" => Belongs /\ SameAddr
    /\ phase \in {"read", "write", "conns"} => due

IInv == TypeOK /\ AddrInv /\ MergeInv /\ SoundInv /\ FreshInv
-------------------------------------------------------------------------------
\* What a step does to the queue: a packet is appended, ...
LEMMA Appended ==
    ASSUME TypeOK, NEW p \in Packets, NEW content \in Contents, NewPacket(p, content)
    PROVE  /\ p \notin Range(m_oSendQueue)
           /\ Range(m_oSendQueue') = Range(m_oSendQueue) \union {p}
           /\ packet' \in [Packets -> {None} \union Contents]
           /\ packet'[p] = content
           /\ \A q \in Packets : q # p => packet'[q] = packet[q]
           /\ m_oSendQueue' \in Seq(Packets)
           /\ IsInjective(m_oSendQueue')
           /\ Range(m_oSendQueue') = {q \in Packets : packet'[q] # None}
<1> DEFINE s == m_oSendQueue
<1>1. /\ s \in Seq(Packets) /\ IsInjective(s) /\ Range(s) = {q \in Packets : packet[q] # None}
      /\ packet \in [Packets -> {None} \union Contents]
  BY DEF TypeOK, QueueOK
<1>2. packet[p] = None /\ packet' = [packet EXCEPT ![p] = content] /\ s' = Append(s, p)
  BY DEF NewPacket
<1>3. p \notin Range(s)
  BY <1>1, <1>2
<1>4. /\ s' \in Seq(Packets) /\ Len(s') = Len(s) + 1
      /\ \A i \in 1 .. Len(s) : s'[i] = s[i]
      /\ s'[Len(s) + 1] = p
  BY <1>1, <1>2
<1>5. Range(s') = Range(s) \union {p}
  <2>1. DOMAIN s = 1 .. Len(s) /\ DOMAIN s' = 1 .. (Len(s) + 1) /\ Len(s) \in Nat
    BY <1>1, <1>4
  <2>2. \A q : q \in Range(s') <=> \E i \in 1 .. (Len(s) + 1) : q = s'[i]
    BY <2>1 DEF Range
  <2>3. \A q : q \in Range(s) <=> \E i \in 1 .. Len(s) : q = s[i]
    BY <2>1 DEF Range
  <2>4. \A i \in 1 .. (Len(s) + 1) : i \in 1 .. Len(s) \/ i = Len(s) + 1
    BY <2>1
  <2>5. \A i \in 1 .. Len(s) : i \in 1 .. (Len(s) + 1)
    BY <2>1
  <2>6. Len(s) + 1 \in 1 .. (Len(s) + 1)
    BY <2>1
  <2>7. ASSUME NEW q \in Range(s')
        PROVE  q \in Range(s) \/ q = p
    <3>1. PICK i \in 1 .. (Len(s) + 1) : q = s'[i]
      BY <2>2, <2>7, Zenon
    <3>2. CASE i \in 1 .. Len(s)
      BY <1>4, <2>3, <3>1, <3>2, Zenon
    <3>3. CASE i = Len(s) + 1
      BY <1>4, <3>1, <3>3, Zenon
    <3> QED BY <2>4, <3>1, <3>2, <3>3, Zenon
  <2>8. ASSUME NEW q \in Range(s)
        PROVE  q \in Range(s')
    <3>1. PICK i \in 1 .. Len(s) : q = s[i]
      BY <2>3, <2>8, Zenon
    <3> QED BY <1>4, <2>2, <2>5, <3>1, Zenon
  <2>9. p \in Range(s')
    BY <1>4, <2>2, <2>6, Zenon
  <2> QED BY <2>7, <2>8, <2>9, Zenon
<1>6. IsInjective(s')
  <2>1. DOMAIN s = 1 .. Len(s) /\ DOMAIN s' = 1 .. (Len(s) + 1) /\ Len(s) \in Nat
    BY <1>1, <1>4
  <2>2. \A i \in 1 .. Len(s) : s[i] # p
    BY <1>3, <2>1 DEF Range
  <2>3. SUFFICES ASSUME NEW i \in 1 .. (Len(s) + 1), NEW j \in 1 .. (Len(s) + 1), s'[i] = s'[j]
                 PROVE  i = j
    BY <2>1 DEF IsInjective
  <2>4. CASE i \in 1 .. Len(s) /\ j \in 1 .. Len(s)
    BY <1>1, <1>4, <2>1, <2>3, <2>4 DEF IsInjective
  <2>5. CASE i = Len(s) + 1 \/ j = Len(s) + 1
    BY <1>4, <2>1, <2>2, <2>3, <2>5
  <2> QED BY <2>1, <2>4, <2>5
<1>7. /\ packet' \in [Packets -> {None} \union Contents] /\ packet'[p] = content
      /\ \A q \in Packets : q # p => packet'[q] = packet[q]
  BY <1>1, <1>2
<1>8. content # None
  BY <1>2, SendAssumption DEF Contents
<1> QED BY <1>1, <1>3, <1>4, <1>5, <1>6, <1>7, <1>8

\* ... or the first is taken off.
LEMMA Popped ==
    ASSUME TypeOK, m_oSendQueue # <<>>, PopAndFree
    PROVE  /\ First \in Range(m_oSendQueue)
           /\ First \in Packets
           /\ packet[First] \in Contents
           /\ Range(m_oSendQueue') = Range(m_oSendQueue) \ {First}
           /\ \A q \in Packets : q # First => packet'[q] = packet[q]
           /\ QueueOK'
<1> DEFINE s == m_oSendQueue
<1>1. /\ s \in Seq(Packets) /\ IsInjective(s) /\ Range(s) = {q \in Packets : packet[q] # None}
      /\ packet \in [Packets -> {None} \union Contents]
      /\ orphans \subseteq Range(s)
  BY DEF TypeOK, QueueOK
<1>2. packet' = [packet EXCEPT ![First] = None] /\ s' = Tail(s) /\ orphans' = orphans \ {First}
  BY DEF PopAndFree
<1>3. /\ Len(s) \in Nat \ {0} /\ DOMAIN s = 1 .. Len(s)
      /\ s' \in Seq(Packets) /\ Len(s') = Len(s) - 1 /\ DOMAIN s' = 1 .. (Len(s) - 1)
      /\ \A i \in 1 .. (Len(s) - 1) : s'[i] = s[i + 1]
      /\ First = s[1]
  BY <1>1, <1>2 DEF First
<1>4. First \in Range(s) /\ First \in Packets
  BY <1>1, <1>3 DEF Range
<1>5. packet[First] \in Contents
  BY <1>1, <1>4
<1>6. \A i, j \in 1 .. Len(s) : s[i] = s[j] => i = j
  BY <1>1, <1>3 DEF IsInjective
<1>7. Range(s') = Range(s) \ {First}
  <2>1. ASSUME NEW q \in Range(s')
        PROVE  q \in Range(s) /\ q # First
    <3>1. PICK i \in 1 .. (Len(s) - 1) : q = s'[i]
      BY <1>3, <2>1 DEF Range
    <3>2. q = s[i + 1] /\ i + 1 \in 1 .. Len(s) /\ 1 \in 1 .. Len(s) /\ i + 1 # 1
      BY <1>3, <3>1
    <3> QED BY <1>3, <1>6, <3>2 DEF Range
  <2>2. ASSUME NEW q \in Range(s), q # First
        PROVE  q \in Range(s')
    <3>1. PICK i \in 1 .. Len(s) : q = s[i]
      BY <1>3, <2>2 DEF Range
    <3>2. i - 1 \in 1 .. (Len(s) - 1) /\ s'[i - 1] = s[i]
      BY <1>3, <2>2, <3>1
    <3> QED BY <1>3, <3>1, <3>2 DEF Range
  <2> QED BY <2>1, <2>2, <1>4
<1>8. IsInjective(s')
  BY <1>3, <1>6 DEF IsInjective
<1>9. /\ packet' \in [Packets -> {None} \union Contents] /\ packet'[First] = None
      /\ \A q \in Packets : q # First => packet'[q] = packet[q]
  BY <1>1, <1>2, <1>4
<1>10. Range(s') = {q \in Packets : packet'[q] # None}
  BY <1>1, <1>7, <1>9
<1>11. orphans' \subseteq Range(s')
  BY <1>1, <1>2, <1>7
<1> QED BY <1>3, <1>4, <1>5, <1>7, <1>8, <1>9, <1>10, <1>11 DEF QueueOK

-------------------------------------------------------------------------------
\* A step that touches neither the queue nor the connections keeps the invariant, if it
\* keeps what is said of phases.
LEMMA PhaseKeeps ==
    ASSUME IInv, UNCHANGED <<queue, conn, orphans, owed>>,
           phase' \in {"begin", "read", "write", "m2n", "conns", "tick"},
           due' \in BOOLEAN, failed' \in {"no", "again", "error"}, wild' \in BOOLEAN,
           failed' # "error" => failed # "error",
           failed' = "no" => failed = "no" /\ wild' = wild,
           FreshInv'
    PROVE  IInv'
<1>1. TypeOK'
  BY DEF IInv, TypeOK, QueueOK, queue, conn
<1>2. AddrInv' /\ MergeInv' /\ SoundInv'
  BY DEF IInv, AddrInv, MergeInv, MergeGood, SoundInv, queue, conn
<1> QED BY <1>1, <1>2 DEF IInv

\* Nor is anything lost by a step of one connection, if it keeps its merge packet or
\* forgets it.
LEMMA ConnKeeps ==
    ASSUME IInv, UNCHANGED <<phase, due, queue, failed, orphans, wild>>,
           m_eState' \in [Conns -> {None} \union States],
           m_stClientAddr' \in [Conns -> Addrs \union {None}],
           m_poMergePacket' \in [Conns -> Packets \union {None}],
           \A c \in Conns : m_poMergePacket'[c] \in {m_poMergePacket[c], None},
           owed' \in [Conns -> Seq(Messages)],
           AddrInv', FreshInv'
    PROVE  IInv'
<1>1. TypeOK'
  BY DEF IInv, TypeOK, QueueOK, queue
<1>2. MergeInv'
  BY DEF IInv, MergeInv, MergeGood, queue
<1>3. SoundInv'
  BY DEF IInv, SoundInv, queue
<1> QED BY <1>1, <1>2, <1>3 DEF IInv

\* A packet of a connection that is sending, or of nobody, comes.
LEMMA NewPacketKeeps ==
    ASSUME IInv, NEW p \in Packets, NEW content \in Contents, NewPacket(p, content),
           content.data = <<>>,
           content.poConn # None => m_eState[content.poConn] \in Sending,
           UNCHANGED <<phase, due, conn, failed, orphans, owed, wild>>
    PROVE  IInv'
<1>1. TypeOK
  BY DEF IInv
<1>2. /\ p \notin Range(m_oSendQueue)
      /\ Range(m_oSendQueue') = Range(m_oSendQueue) \union {p}
      /\ packet'[p] = content
      /\ \A q \in Packets : q # p => packet'[q] = packet[q]
  BY <1>1, Appended
<1>3. QueueOK'
  BY <1>1, Appended DEF QueueOK, TypeOK
<1>4. TypeOK'
  BY <1>1, <1>3 DEF TypeOK, conn
<1>5. \A q \in Range(m_oSendQueue) : q \in Packets /\ packet'[q] = packet[q]
  BY <1>1, <1>2 DEF TypeOK, QueueOK
<1>6. MergeInv'
  <2>1. ASSUME NEW c \in Conns, MergeGood(c)
        PROVE  MergeGood(c)'
    BY <1>2, <1>5, <2>1 DEF MergeGood, conn
  <2> QED BY <2>1 DEF IInv, MergeInv, conn
<1>7. SoundInv'
  <2>1. Len(packet'[p].data) = 0
    BY <1>2
  <2> QED BY <1>2, <1>5, <2>1 DEF IInv, SoundInv
<1>8. Belongs => Belongs'
  BY <1>2, <1>5 DEF Belongs, conn, Sending
<1>9. failed = "no" /\ SameAddr => SameAddr'
  <2>1. ASSUME NEW c \in Conns, failed = "no", m_poMergePacket[c] # None
        PROVE  m_poMergePacket[c] \in Range(m_oSendQueue)
    BY <2>1 DEF IInv, MergeInv, MergeGood
  <2> QED BY <1>5, <2>1 DEF SameAddr, conn
<1> QED BY <1>4, <1>6, <1>7, <1>8, <1>9 DEF IInv, AddrInv, FreshInv, conn

\* The merge packets are in the queue, as long as no error occurred.
LEMMA MergeQueued ==
    ASSUME IInv, failed # "error", NEW c \in Conns, m_poMergePacket[c] # None
    PROVE  /\ MergeGood(c)
           /\ m_poMergePacket[c] \in Packets
           /\ m_poMergePacket[c] \in Range(m_oSendQueue) \ orphans
BY DEF IInv, TypeOK, QueueOK, MergeInv, MergeGood
-------------------------------------------------------------------------------
\* Init, and the actions that only go on to another phase.
LEMMA InitInv == Init => IInv
<1> SUFFICES ASSUME Init PROVE IInv
  OBVIOUS
<1>1. Range(m_oSendQueue) = {} /\ m_oSendQueue \in Seq(Packets) /\ IsInjective(m_oSendQueue)
  BY DEF Init, Range, IsInjective
<1>2. TypeOK
  <2>1. packet \in [Packets -> {None} \union Contents]
    BY DEF Init
  <2>2. Range(m_oSendQueue) = {p \in Packets : packet[p] # None}
    BY <1>1 DEF Init
  <2>3. QueueOK
    BY <1>1, <2>1, <2>2 DEF Init, QueueOK
  <2>4. owed \in [Conns -> Seq(Messages)]
    BY DEF Init
  <2> QED BY <2>3, <2>4 DEF Init, TypeOK
<1> QED BY <1>1, <1>2 DEF Init, IInv, AddrInv, MergeInv, SoundInv, FreshInv, Belongs, SameAddr

LEMMA BeginKeeps == IInv /\ Begin => IInv'
<1> SUFFICES ASSUME IInv, Begin PROVE IInv'
  OBVIOUS
<1>1. FreshInv'
  BY DEF IInv, FreshInv, Belongs, SameAddr, Begin, queue, conn
<1> QED BY <1>1, PhaseKeeps DEF Begin, IInv, TypeOK

LEMMA ReadEndKeeps == IInv /\ ReadEnd => IInv'
<1> SUFFICES ASSUME IInv, ReadEnd PROVE IInv'
  OBVIOUS
<1>1. FreshInv'
  BY DEF IInv, FreshInv, Belongs, SameAddr, ReadEnd, queue, conn
<1> QED BY <1>1, PhaseKeeps DEF ReadEnd, IInv, TypeOK

LEMMA WriteAgainKeeps == IInv /\ WriteAgain => IInv'
<1> SUFFICES ASSUME IInv, WriteAgain PROVE IInv'
  OBVIOUS
<1>1. FreshInv'
  BY DEF IInv, FreshInv, WriteAgain
<1> QED BY <1>1, PhaseKeeps DEF WriteAgain, IInv, TypeOK

\* All is sent: there is no packet that could belong to a closed connection, and no
\* merge packet.
LEMMA WriteEndKeeps == IInv /\ WriteEnd => IInv'
<1> SUFFICES ASSUME IInv, WriteEnd PROVE IInv'
  OBVIOUS
<1>1. Range(m_oSendQueue) = {}
  BY DEF WriteEnd, Range
<1>2. failed = "no" => \A c \in Conns : m_poMergePacket[c] = None
  BY <1>1, MergeQueued
<1>3. FreshInv'
  BY <1>1, <1>2 DEF IInv, FreshInv, Belongs, SameAddr, WriteEnd, queue, conn
<1> QED BY <1>3, PhaseKeeps DEF WriteEnd, IInv, TypeOK

LEMMA M2NEndKeeps == IInv /\ M2NEnd => IInv'
<1> SUFFICES ASSUME IInv, M2NEnd PROVE IInv'
  OBVIOUS
<1>1. FreshInv'
  BY DEF IInv, FreshInv, Belongs, SameAddr, M2NEnd, queue, conn, Sending
<1> QED BY <1>1, PhaseKeeps DEF M2NEnd, IInv, TypeOK

LEMMA TickEndKeeps == IInv /\ TickEnd => IInv'
<1> SUFFICES ASSUME IInv, TickEnd PROVE IInv'
  OBVIOUS
<1>1. FreshInv'
  BY DEF IInv, FreshInv, Belongs, SameAddr, TickEnd, queue, conn
<1> QED BY <1>1, PhaseKeeps DEF TickEnd, IInv, TypeOK

\* Freed memory is used only after a sendto has failed.
LEMMA WildKeeps ==
    ASSUME IInv,
           \/ WriteWild
           \/ \E c \in Conns, len \in Lengths : SendWild(c, len)
           \/ UNCHANGED vars
    PROVE  IInv'
<1>1. CASE WriteWild
  <2>1. First \in orphans
    BY <1>1 DEF WriteWild
  <2>2. failed # "no"
    BY <2>1 DEF IInv, SoundInv
  <2>3. FreshInv'
    BY <1>1, <2>2 DEF IInv, FreshInv, WriteWild
  <2> QED BY <1>1, <2>2, <2>3, PhaseKeeps DEF WriteWild, IInv, TypeOK
<1>2. ASSUME NEW c \in Conns, NEW len \in Lengths, SendWild(c, len)
      PROVE  IInv'
  <2>1. failed = "error"
    BY <1>2, MergeQueued DEF SendWild
  <2>2. FreshInv'
    BY <1>2, <2>1 DEF IInv, FreshInv, SendWild
  <2> QED BY <1>2, <2>1, <2>2, PhaseKeeps DEF SendWild, IInv, TypeOK
<1>3. CASE UNCHANGED vars
  <2>1. FreshInv'
    BY <1>3 DEF IInv, FreshInv, Belongs, SameAddr, vars, queue, conn
  <2> QED BY <1>3, <2>1, PhaseKeeps DEF vars, IInv, TypeOK
<1> QED BY <1>1, <1>2, <1>3
-------------------------------------------------------------------------------
\* The actions that put a packet without messages into the queue.
LEMMA PlainPacket ==
    ASSUME IInv, NEW c \in Conns, m_eState[c] # None
    PROVE  PacketOf(c, FALSE) \in Contents /\ Reply(m_stClientAddr[c]) \in Contents
<1>1. m_stClientAddr[c] \in Addrs
  BY DEF IInv, AddrInv
<1>2. <<>> \in Seq(Messages)
  OBVIOUS
<1>3. HeadLen \in HeadLen .. MAX_PACKET_SIZE
  BY SendAssumption
<1> QED BY <1>1, <1>2, <1>3 DEF PacketOf, Reply, Contents

LEMMA ReadReplyKeeps ==
    ASSUME IInv, NEW p \in Packets, NEW a \in Addrs, ReadReply(p, a)
    PROVE  IInv'
<1>1. Reply(a) \in Contents
  <2>1. HeadLen \in HeadLen .. MAX_PACKET_SIZE
    BY SendAssumption
  <2> QED BY <2>1 DEF Reply, Contents
<1>2. Reply(a).data = <<>> /\ Reply(a).poConn = None
  BY DEF Reply
<1> QED BY <1>1, <1>2, NewPacketKeeps DEF ReadReply

LEMMA ReadHeartBeatKeeps ==
    ASSUME IInv, NEW c \in Conns, NEW p \in Packets, ReadHeartBeat(c, p)
    PROVE  IInv'
<1>1. m_eState[c] \in Sending /\ m_eState[c] # None
  BY SendAssumption DEF ReadHeartBeat, Sending, States
<1>2. PacketOf(c, FALSE) \in Contents
  BY <1>1, PlainPacket
<1>3. PacketOf(c, FALSE).data = <<>> /\ PacketOf(c, FALSE).poConn = c
  BY DEF PacketOf
<1> QED BY <1>1, <1>2, <1>3, NewPacketKeeps DEF ReadHeartBeat

LEMMA KcpOutPutKeeps ==
    ASSUME IInv, NEW c \in Conns, NEW p \in Packets, KcpOutPut(c, p)
    PROVE  IInv'
<1>1. m_eState[c] \in Sending /\ m_eState[c] # None
  BY SendAssumption DEF KcpOutPut, Sending, States
<1>2. PacketOf(c, FALSE) \in Contents
  BY <1>1, PlainPacket
<1>3. PacketOf(c, FALSE).data = <<>> /\ PacketOf(c, FALSE).poConn = c
  BY DEF PacketOf
<1> QED BY <1>1, <1>2, <1>3, NewPacketKeeps DEF KcpOutPut

LEMMA SendFinMsgKeeps ==
    ASSUME IInv, NEW c \in Conns, NEW p \in Packets, SendFinMsg(c, p)
    PROVE  IInv'
<1>1. m_eState[c] # None
  BY SendAssumption DEF SendFinMsg, States
<1>2. Reply(m_stClientAddr[c]) \in Contents
  BY <1>1, PlainPacket
<1>3. Reply(m_stClientAddr[c]).data = <<>> /\ Reply(m_stClientAddr[c]).poConn = None
  BY DEF Reply
<1> QED BY <1>1, <1>2, <1>3, NewPacketKeeps DEF SendFinMsg
-------------------------------------------------------------------------------
\* The actions of one connection while packets arrive; the phases that promise something
\* come later.
LEMMA ReadConnKeeps ==
    ASSUME IInv, NEW c \in Conns,
           \/ \E a \in Addrs : ReadHandShake2(c, a) \/ ReadReconnect(c, a)
           \/ ReadBroken(c)
           \/ ReadClose(c)
    PROVE  IInv'
<1> USE DEF Become, Cleared
<1>1. phase = "read" /\ UNCHANGED <<phase, due, queue, failed, orphans, wild>>
  BY DEF ReadHandShake2, ReadReconnect, ReadBroken, ReadClose, CloseConnect
<1>2. FreshInv'
  BY <1>1 DEF IInv, FreshInv, Belongs, SameAddr
<1>3. /\ m_eState \in [Conns -> {None} \union States]
      /\ m_stClientAddr \in [Conns -> Addrs \union {None}]
      /\ m_poMergePacket \in [Conns -> Packets \union {None}]
      /\ owed \in [Conns -> Seq(Messages)]
      /\ AddrInv
  BY DEF IInv, TypeOK
<1>5. ASSUME NEW a \in Addrs, ReadHandShake2(c, a) \/ ReadReconnect(c, a)
      PROVE  IInv'
  <2>1. /\ m_eState' = [m_eState EXCEPT ![c] = "ESTABLISHED"]
        /\ m_stClientAddr' = [m_stClientAddr EXCEPT ![c] = a]
        /\ UNCHANGED m_poMergePacket
        /\ owed' = [owed EXCEPT ![c] = <<>>] \/ owed' = owed
    BY <1>5 DEF ReadHandShake2, ReadReconnect
  <2>2. <<>> \in Seq(Messages)
    OBVIOUS
  <2>3. owed' \in [Conns -> Seq(Messages)]
    BY <1>3, <2>1, <2>2
  <2>4. AddrInv'
    BY <1>3, <2>1 DEF AddrInv
  <2> QED BY <1>1, <1>2, <1>3, <2>1, <2>3, <2>4, ConnKeeps DEF States
<1>6. CASE ReadBroken(c) \/ ReadClose(c)
  <2>1. /\ \/ m_eState' = [m_eState EXCEPT ![c] = "DISCONNET"] /\ m_eState[c] = "ESTABLISHED"
           \/ m_eState' = [m_eState EXCEPT ![c] = "CLOSE"] /\ m_eState[c] # None
           \/ m_eState' = m_eState
        /\ m_poMergePacket' = [m_poMergePacket EXCEPT ![c] = None]
        /\ UNCHANGED <<m_stClientAddr, owed>>
    BY <1>6 DEF ReadBroken, ReadClose, CloseConnect, DisConnect
  <2>2. AddrInv'
    BY <1>3, <2>1, SendAssumption DEF AddrInv, States
  <2> QED BY <1>1, <1>2, <1>3, <2>1, <2>2, ConnKeeps DEF States
<1> QED BY <1>5, <1>6

\* The actions of one connection while the main thread's requests are looked at.  One
\* that is closed here has no packet among those that go on to ProcClosedConn.
LEMMA M2NConnKeeps ==
    ASSUME IInv, NEW c \in Conns,
           \/ \E len \in Lengths : SendRefused(c, len)
           \/ FinConnect(c)
           \/ FinClose(c)
    PROVE  IInv'
<1> USE DEF Become, Cleared
<1>1. /\ m_eState \in [Conns -> {None} \union States]
      /\ m_stClientAddr \in [Conns -> Addrs \union {None}]
      /\ m_poMergePacket \in [Conns -> Packets \union {None}]
      /\ owed \in [Conns -> Seq(Messages)]
      /\ AddrInv
  BY DEF IInv, TypeOK
<1>2. /\ phase = "m2n" /\ UNCHANGED <<phase, due, queue, failed, orphans, wild>>
      /\ \/ m_eState' = m_eState
         \/ m_eState' = [m_eState EXCEPT ![c] = "FIN_WAIT"] /\ m_eState[c] = "ESTABLISHED"
         \/ m_eState' = [m_eState EXCEPT ![c] = "CLOSE"] /\ m_eState[c] = "DISCONNET"
      /\ \/ m_poMergePacket' = m_poMergePacket
         \/ m_poMergePacket' = [m_poMergePacket EXCEPT ![c] = None]
      /\ UNCHANGED <<m_stClientAddr, owed>>
  <2>1. ASSUME NEW len \in Lengths, SendRefused(c, len)
        PROVE  <1>2!:
    BY <2>1 DEF SendRefused, MaySend
  <2>2. CASE FinConnect(c)
    BY <2>2 DEF FinConnect
  <2>3. CASE FinClose(c)
    BY <2>3 DEF FinClose, CloseConnect
  <2> QED BY <2>1, <2>2, <2>3
<1>3. AddrInv'
  BY <1>1, <1>2, SendAssumption DEF AddrInv, States
<1>4. /\ m_eState' \in [Conns -> {None} \union States]
      /\ m_poMergePacket' \in [Conns -> Packets \union {None}]
      /\ \A d \in Conns : m_poMergePacket'[d] \in {m_poMergePacket[d], None}
  BY <1>1, <1>2 DEF States
<1>5. ASSUME failed = "no", due, NEW p \in Range(m_oSendQueue), packet[p].poConn # None
      PROVE  m_eState'[packet[p].poConn] \in Sending
  <2>1. m_eState[packet[p].poConn] \in Sending
    BY <1>2, <1>5 DEF IInv, FreshInv, Belongs
  <2>2. packet[p].poConn \in Conns
    BY <1>5 DEF IInv, TypeOK, QueueOK, Contents
  <2> QED BY <1>1, <1>2, <2>1, <2>2 DEF Sending
<1>6. failed = "no" => SameAddr'
  BY <1>2, <1>4 DEF IInv, FreshInv, SameAddr, queue
<1>7. FreshInv'
  BY <1>2, <1>5, <1>6 DEF FreshInv, Belongs, queue
<1> QED BY <1>1, <1>2, <1>3, <1>4, <1>7, ConnKeeps

\* ... and at KCP's updates, and on Tick1S.
LEMMA DeadLinkKeeps ==
    ASSUME IInv, NEW c \in Conns, DeadLink(c)
    PROVE  IInv'
<1>1. /\ m_eState \in [Conns -> {None} \union States]
      /\ m_stClientAddr \in [Conns -> Addrs \union {None}]
      /\ m_poMergePacket \in [Conns -> Packets \union {None}]
      /\ owed \in [Conns -> Seq(Messages)]
      /\ AddrInv
  BY DEF IInv, TypeOK
<1>2. /\ phase = "conns" /\ UNCHANGED <<phase, due, queue, failed, orphans, wild>>
      /\ m_eState' = [m_eState EXCEPT ![c] = "DISCONNET"] /\ m_eState[c] = "ESTABLISHED"
      /\ UNCHANGED <<m_stClientAddr, m_poMergePacket, owed>>
  BY DEF DeadLink, DisConnect, Become
<1>3. AddrInv'
  BY <1>1, <1>2, SendAssumption DEF AddrInv, States
<1>4. m_eState' \in [Conns -> {None} \union States]
  BY <1>1, <1>2 DEF States
<1>5. ASSUME failed = "no", NEW p \in Range(m_oSendQueue), packet[p].poConn # None
      PROVE  m_eState'[packet[p].poConn] \in Sending \union {"DISCONNET"}
  <2>1. m_eState[packet[p].poConn] \in Sending \union {"DISCONNET"}
    BY <1>2, <1>5 DEF IInv, FreshInv, Belongs
  <2>2. packet[p].poConn \in Conns
    BY <1>5 DEF IInv, TypeOK, QueueOK, Contents
  <2> QED BY <1>1, <1>2, <2>1, <2>2 DEF Sending
<1>6. FreshInv'
  BY <1>2, <1>5 DEF IInv, FreshInv, Belongs, SameAddr, queue
<1> QED BY <1>1, <1>2, <1>3, <1>4, <1>6, ConnKeeps

LEMMA TickConnKeeps ==
    ASSUME IInv, NEW c \in Conns, TickClose(c) \/ TickDisConnect(c)
    PROVE  IInv'
<1>1. /\ m_eState \in [Conns -> {None} \union States]
      /\ m_stClientAddr \in [Conns -> Addrs \union {None}]
      /\ m_poMergePacket \in [Conns -> Packets \union {None}]
      /\ owed \in [Conns -> Seq(Messages)]
      /\ AddrInv
  BY DEF IInv, TypeOK
<1>2. /\ phase = "tick" /\ UNCHANGED <<phase, due, queue, failed, orphans, wild>>
      /\ m_eState[c] # None
      /\ \E s \in States : m_eState' = [m_eState EXCEPT ![c] = s]
      /\ \/ m_poMergePacket' = m_poMergePacket
         \/ m_poMergePacket' = [m_poMergePacket EXCEPT ![c] = None]
      /\ UNCHANGED <<m_stClientAddr, owed>>
  BY SendAssumption DEF TickClose, TickDisConnect, CloseConnect, DisConnect, Become, Cleared, States
<1>3. AddrInv'
  BY <1>1, <1>2 DEF AddrInv
<1>4. /\ m_eState' \in [Conns -> {None} \union States]
      /\ m_poMergePacket' \in [Conns -> Packets \union {None}]
      /\ \A d \in Conns : m_poMergePacket'[d] \in {m_poMergePacket[d], None}
  BY <1>1, <1>2
<1>5. FreshInv'
  BY <1>2, <1>4 DEF IInv, FreshInv, Belongs, SameAddr, queue
<1> QED BY <1>1, <1>2, <1>3, <1>4, <1>5, ConnKeeps
-------------------------------------------------------------------------------
\* The actions that take a packet off the queue.
LEMMA OwedAfterPop ==
    ASSUME TypeOK, m_oSendQueue # <<>>, PopAndFree
    PROVE  owed' \in [Conns -> Seq(Messages)]
<1> DEFINE c == packet[First].poConn
           n == Len(packet[First].data)
<1>1. packet[First] \in Contents
  BY Popped
<1>2. c \in Conns \union {None} /\ n \in Nat
  BY <1>1 DEF Contents
<1>3. owed \in [Conns -> Seq(Messages)]
  BY DEF TypeOK
<1>4. CASE owed' = owed
  BY <1>3, <1>4
<1>5. CASE owed' # owed
  <2>1. c \in Conns /\ owed' = [owed EXCEPT ![c] = SubSeq(@, n + 1, Len(@))]
    BY <1>2, <1>5 DEF PopAndFree
  <2>2. owed[c] \in Seq(Messages)
    BY <1>3, <2>1
  <2>3. SubSeq(owed[c], n + 1, Len(owed[c])) \in Seq(Messages)
    BY <1>2, <2>2, SubSeqProperties
  <2> QED BY <1>3, <2>1, <2>3
<1> QED BY <1>4, <1>5

\* Sending a packet: only the connection it belongs to can have it as its merge packet,
\* and OnIOWrite makes that one forget it.
LEMMA WriteSentKeeps == IInv /\ WriteSent => IInv'
<1> SUFFICES ASSUME IInv, WriteSent PROVE IInv'
  OBVIOUS
<1> DEFINE b == packet[First].poConn
<1>1. /\ TypeOK /\ phase = "write" /\ m_oSendQueue # <<>> /\ First \notin orphans /\ PopAndFree
      /\ IF b = None THEN UNCHANGED m_poMergePacket ELSE OnIOWrite(b)
      /\ UNCHANGED <<phase, due, m_eState, m_stClientAddr, failed, wild>>
  BY DEF IInv, WriteSent
<1>2. /\ First \in Packets /\ packet[First] \in Contents
      /\ Range(m_oSendQueue') = Range(m_oSendQueue) \ {First}
      /\ \A q \in Packets : q # First => packet'[q] = packet[q]
      /\ QueueOK'
  BY <1>1, Popped
<1>3. owed' \in [Conns -> Seq(Messages)]
  BY <1>1, OwedAfterPop
<1>4. orphans' = orphans \ {First}
  BY <1>1 DEF PopAndFree
<1>5. /\ m_poMergePacket' \in [Conns -> Packets \union {None}]
      /\ \A c \in Conns : m_poMergePacket'[c] \in {m_poMergePacket[c], None}
      /\ \A c \in Conns : b = c /\ m_poMergePacket[c] = First => m_poMergePacket'[c] = None
  <2>1. m_poMergePacket \in [Conns -> Packets \union {None}] /\ b \in Conns \union {None}
    BY <1>2 DEF IInv, TypeOK, Contents
  <2>2. CASE b = None
    BY <1>1, <2>1, <2>2, SendAssumption
  <2>3. CASE b # None
    BY <1>1, <2>1, <2>3 DEF OnIOWrite
  <2> QED BY <2>2, <2>3
<1>6. TypeOK'
  BY <1>1, <1>2, <1>3, <1>5 DEF TypeOK
<1>7. MergeInv'
  <2>1. SUFFICES ASSUME failed # "error", NEW c \in Conns, m_poMergePacket'[c] # None
                 PROVE  MergeGood(c)'
    BY <1>1 DEF MergeInv
  <2>2. m_poMergePacket'[c] = m_poMergePacket[c] /\ m_poMergePacket[c] # None
    BY <1>5, <2>1
  <2>3. MergeGood(c) /\ m_poMergePacket[c] \in Packets
    BY <2>1, <2>2, MergeQueued
  <2>4. m_poMergePacket[c] # First
    <3>1. m_poMergePacket[c] = First => b = c
      BY <2>3 DEF MergeGood
    <3> QED BY <1>5, <2>1, <3>1
  <2> QED BY <1>2, <1>4, <2>2, <2>3, <2>4 DEF MergeGood
<1>8. SoundInv'
  <2>1. \A q \in Range(m_oSendQueue') : q \in Range(m_oSendQueue) /\ packet'[q] = packet[q]
    BY <1>2, <1>1 DEF TypeOK, QueueOK
  <2> QED BY <1>1, <1>4, <2>1 DEF IInv, SoundInv
<1>9. AddrInv' /\ FreshInv'
  BY <1>1 DEF IInv, AddrInv, FreshInv, Belongs, SameAddr
<1> QED BY <1>6, <1>7, <1>8, <1>9 DEF IInv

LEMMA WriteErrorKeeps == IInv /\ WriteError => IInv'
<1> SUFFICES ASSUME IInv, WriteError PROVE IInv'
  OBVIOUS
<1>1. /\ TypeOK /\ m_oSendQueue # <<>> /\ PopAndFree
      /\ phase' = "m2n" /\ failed' = "error" /\ UNCHANGED <<due, conn, wild>>
  BY DEF IInv, WriteError
<1>2. QueueOK' /\ owed' \in [Conns -> Seq(Messages)]
  BY <1>1, Popped, OwedAfterPop
<1>3. TypeOK'
  BY <1>1, <1>2 DEF TypeOK, conn
<1> QED BY <1>1, <1>3 DEF IInv, AddrInv, MergeInv, SoundInv, FreshInv, conn
-------------------------------------------------------------------------------
\* The actions that take a message.
LEMMA Writing ==
    ASSUME NEW content \in Contents, NEW m \in Messages
    PROVE  /\ Written(content, m) \in Contents
           /\ Written(content, m).poConn = content.poConn
           /\ Written(content, m).addr = content.addr
           /\ Written(content, m).merge = content.merge
           /\ Written(content, m).data \in {content.data, Append(content.data, m)}
<1> DEFINE size == content.ulDataLen + LenLen + m.len
<1>1. /\ content.ulDataLen \in HeadLen .. MAX_PACKET_SIZE /\ content.data \in Seq(Messages)
      /\ HeadLen \in Nat /\ LenLen \in Nat /\ MAX_PACKET_SIZE \in Nat /\ m.len \in Nat
  BY SendAssumption DEF Contents, Messages
<1>2. Append(content.data, m) \in Seq(Messages)
  BY <1>1
<1>3. CASE size <= MAX_PACKET_SIZE
  <2>1. size \in HeadLen .. MAX_PACKET_SIZE
    BY <1>1, <1>3
  <2>2. Written(content, m) = [content EXCEPT !.data = Append(@, m), !.ulDataLen = size]
    BY <1>3 DEF Written
  <2> HIDE DEF size
  <2> QED BY <1>2, <2>1, <2>2 DEF Contents
<1>4. CASE ~(size <= MAX_PACKET_SIZE)
  BY <1>4 DEF Written
<1> QED BY <1>3, <1>4

\* Where there is room the message is written.
LEMMA WrittenData ==
    ASSUME NEW content \in Contents, NEW m, content.ulDataLen + LenLen + m.len <= MAX_PACKET_SIZE
    PROVE  Written(content, m).data = Append(content.data, m)
<1> DEFINE size == content.ulDataLen + LenLen + m.len
<1>1. Written(content, m) = [content EXCEPT !.data = Append(@, m), !.ulDataLen = size]
  BY DEF Written
<1> HIDE DEF size
<1> QED BY <1>1 DEF Contents

LEMMA Taking ==
    ASSUME IInv, NEW c \in Conns, NEW len \in Lengths, MaySend(c, len)
    PROVE  /\ Message(c, len) \in Messages /\ Message(c, len).addr = m_stClientAddr[c]
           /\ phase = "m2n" /\ m_eState[c] \in Sending
           /\ Owes(c, len) => owed' \in [Conns -> Seq(Messages)]
<1>1. m_stClientAddr[c] \in Addrs /\ owed \in [Conns -> Seq(Messages)]
  BY SendAssumption DEF IInv, TypeOK, AddrInv, MaySend, States
<1>2. Message(c, len) \in Messages /\ Message(c, len).addr = m_stClientAddr[c]
  BY <1>1 DEF Message, Messages
<1>3. Append(owed[c], Message(c, len)) \in Seq(Messages)
  BY <1>1, <1>2
<1> QED BY <1>1, <1>2, <1>3 DEF MaySend, Sending, Owes

\* A message written into a packet that has none but those of its address.
LEMMA AddressedAlike ==
    ASSUME NEW content \in Contents, NEW m \in Messages, m.addr = content.addr,
           \A i \in 1 .. Len(content.data) : content.data[i].addr = content.addr
    PROVE  \A i \in 1 .. Len(Written(content, m).data) :
               Written(content, m).data[i].addr = Written(content, m).addr
<1>1. content.data \in Seq(Messages) /\ Written(content, m).addr = content.addr
  BY Writing DEF Contents
<1>2. CASE Written(content, m).data = content.data
  BY <1>1, <1>2
<1>3. CASE Written(content, m).data = Append(content.data, m)
  BY <1>1, <1>3
<1> QED BY <1>2, <1>3, Writing

LEMMA SendMergedKeeps ==
    ASSUME IInv, NEW c \in Conns, NEW len \in Lengths, SendMerged(c, len)
    PROVE  IInv'
<1> DEFINE p == m_poMergePacket[c]
           m == Message(c, len)
           content == Written(packet[p], m)
<1>1. /\ MaySend(c, len) /\ MergeGood(c) /\ Owes(c, len)
      /\ packet' = [packet EXCEPT ![p] = content]
      /\ UNCHANGED <<phase, due, m_oSendQueue, conn, failed, orphans, wild>>
  BY DEF SendMerged, Merges
<1>2. m \in Messages /\ m.addr = m_stClientAddr[c] /\ phase = "m2n" /\ owed' \in [Conns -> Seq(Messages)]
  BY <1>1, Taking
<1>3. /\ QueueOK /\ p \in Range(m_oSendQueue) /\ p \in Packets /\ packet[p] \in Contents
      /\ p # None
  BY <1>1, SendAssumption DEF IInv, TypeOK, QueueOK, MergeGood
<1>4. /\ content \in Contents /\ content.poConn = packet[p].poConn
      /\ content.addr = packet[p].addr /\ content.merge = packet[p].merge
  BY <1>2, <1>3, Writing
<1> HIDE DEF p, m, content
<1>5. /\ packet' \in [Packets -> {None} \union Contents] /\ packet'[p] = content
      /\ \A q \in Packets : q # p => packet'[q] = packet[q]
  BY <1>1, <1>3, <1>4 DEF QueueOK
<1>6. content # None
  BY <1>4, SendAssumption
<1>7. QueueOK'
  BY <1>1, <1>3, <1>5, <1>6 DEF QueueOK
<1>8. TypeOK'
  BY <1>1, <1>2, <1>7 DEF IInv, TypeOK, conn
<1>9. \A q \in Range(m_oSendQueue) :
          /\ q \in Packets
          /\ packet'[q].poConn = packet[q].poConn
          /\ packet'[q].addr = packet[q].addr
          /\ packet'[q].merge = packet[q].merge
  BY <1>3, <1>4, <1>5 DEF QueueOK
<1>10. MergeInv'
  <2>1. ASSUME NEW d \in Conns, MergeGood(d)
        PROVE  MergeGood(d)'
    BY <1>1, <1>9, <2>1 DEF MergeGood, conn
  <2> QED BY <1>1, <2>1 DEF IInv, MergeInv, conn
<1>11. SoundInv'
  <2>1. SUFFICES ASSUME failed = "no"
                 PROVE  \A q \in Range(m_oSendQueue) : \A i \in 1 .. Len(packet'[q].data) :
                            packet'[q].data[i].addr = packet'[q].addr
    BY <1>1 DEF IInv, SoundInv
  <2>2. packet[p].addr = m_stClientAddr[c]
    BY <1>2, <1>3, <2>1 DEF IInv, FreshInv, SameAddr, p
  <2>3. \A i \in 1 .. Len(packet[p].data) : packet[p].data[i].addr = packet[p].addr
    BY <1>3, <2>1 DEF IInv, SoundInv
  <2>4. \A i \in 1 .. Len(content.data) : content.data[i].addr = content.addr
    BY <1>2, <1>3, <2>2, <2>3, AddressedAlike DEF content
  <2>5. ASSUME NEW q \in Range(m_oSendQueue), q # p
        PROVE  \A i \in 1 .. Len(packet'[q].data) : packet'[q].data[i].addr = packet'[q].addr
    BY <1>5, <1>9, <2>1, <2>5 DEF IInv, SoundInv
  <2> QED BY <1>5, <2>4, <2>5
<1>12. FreshInv'
  <2>1. Belongs => Belongs'
    BY <1>1, <1>9 DEF Belongs, conn
  <2>2. ASSUME failed = "no", SameAddr
        PROVE  SameAddr'
    <3>1. ASSUME NEW d \in Conns, m_poMergePacket[d] # None
          PROVE  m_poMergePacket[d] \in Range(m_oSendQueue)
      BY <2>2, <3>1, MergeQueued
    <3> QED BY <1>1, <1>9, <2>2, <3>1 DEF SameAddr, conn
  <2> QED BY <1>1, <2>1, <2>2 DEF IInv, FreshInv
<1>13. AddrInv'
  BY <1>1 DEF IInv, AddrInv, conn
<1> QED BY <1>8, <1>10, <1>11, <1>12, <1>13 DEF IInv

LEMMA SendNewKeeps ==
    ASSUME IInv, NEW c \in Conns, NEW len \in Lengths, NEW p \in Packets, SendNew(c, len, p)
    PROVE  IInv'
<1> DEFINE m == Message(c, len)
           content == Written(PacketOf(c, TRUE), m)
<1>1. /\ MaySend(c, len) /\ NewPacket(p, content) /\ Owes(c, len)
      /\ m_poMergePacket' = [m_poMergePacket EXCEPT ![c] = p]
      /\ UNCHANGED <<phase, due, m_eState, m_stClientAddr, failed, orphans, wild>>
  BY DEF SendNew
<1>2. /\ m \in Messages /\ m.addr = m_stClientAddr[c] /\ phase = "m2n" /\ m_eState[c] \in Sending
      /\ owed' \in [Conns -> Seq(Messages)]
  BY <1>1, Taking
<1>3. PacketOf(c, TRUE) \in Contents
  <2>1. m_stClientAddr[c] \in Addrs
    BY <1>2, SendAssumption DEF IInv, AddrInv, Sending, States
  <2>2. HeadLen \in HeadLen .. MAX_PACKET_SIZE /\ <<>> \in Seq(Messages)
    BY SendAssumption
  <2> QED BY <2>1, <2>2 DEF PacketOf, Contents
<1>4. /\ PacketOf(c, TRUE).poConn = c /\ PacketOf(c, TRUE).merge
      /\ PacketOf(c, TRUE).addr = m_stClientAddr[c]
      /\ Len(PacketOf(c, TRUE).data) = 0
  BY DEF PacketOf
<1>5. /\ content \in Contents /\ content.poConn = c /\ content.merge
      /\ content.addr = m_stClientAddr[c]
  BY <1>2, <1>3, <1>4, Writing
<1>6. \A i \in 1 .. Len(content.data) : content.data[i].addr = content.addr
  <2>1. m.addr = PacketOf(c, TRUE).addr
    BY <1>2, <1>4
  <2>2. \A i \in 1 .. Len(PacketOf(c, TRUE).data) :
            PacketOf(c, TRUE).data[i].addr = PacketOf(c, TRUE).addr
    <3>1. PacketOf(c, TRUE).data = <<>>
      BY DEF PacketOf
    <3>2. 1 .. Len(<<>>) = {}
      OBVIOUS
    <3> QED BY <3>1, <3>2, Zenon
  <2> HIDE DEF m
  <2> QED BY <1>2, <1>3, <2>1, <2>2, AddressedAlike, Zenon
<1> HIDE DEF m, content
<1>7. TypeOK
  BY DEF IInv
<1>8. /\ p \notin Range(m_oSendQueue)
      /\ Range(m_oSendQueue') = Range(m_oSendQueue) \union {p}
      /\ packet'[p] = content
      /\ \A q \in Packets : q # p => packet'[q] = packet[q]
  BY <1>1, <1>5, <1>7, Appended
<1>9. QueueOK'
  BY <1>1, <1>5, <1>7, Appended DEF QueueOK, TypeOK
<1>10. /\ m_poMergePacket' \in [Conns -> Packets \union {None}] /\ m_poMergePacket'[c] = p
       /\ \A d \in Conns : d # c => m_poMergePacket'[d] = m_poMergePacket[d]
  BY <1>1, <1>7 DEF TypeOK
<1>11. TypeOK'
  BY <1>1, <1>2, <1>7, <1>9, <1>10 DEF TypeOK
<1>12. \A q \in Range(m_oSendQueue) : q \in Packets /\ packet'[q] = packet[q]
  BY <1>7, <1>8 DEF TypeOK, QueueOK
<1>13. MergeInv'
  <2>1. MergeGood(c)'
    BY <1>1, <1>5, <1>7, <1>8, <1>10 DEF MergeGood, TypeOK, QueueOK
  <2>2. ASSUME NEW d \in Conns, d # c, MergeGood(d)
        PROVE  MergeGood(d)'
    BY <1>1, <1>8, <1>10, <1>12, <2>2 DEF MergeGood
  <2> QED BY <1>1, <1>10, <2>1, <2>2 DEF IInv, MergeInv
<1>14. SoundInv'
  <2>1. SUFFICES ASSUME failed = "no"
                 PROVE  \A q \in Range(m_oSendQueue') : \A i \in 1 .. Len(packet'[q].data) :
                            packet'[q].data[i].addr = packet'[q].addr
    BY <1>1 DEF IInv, SoundInv
  <2>2. ASSUME NEW q \in Range(m_oSendQueue)
        PROVE  \A i \in 1 .. Len(packet'[q].data) : packet'[q].data[i].addr = packet'[q].addr
    BY <1>12, <2>1 DEF IInv, SoundInv
  <2> QED BY <1>6, <1>8, <2>2
<1>15. FreshInv'
  <2>1. Belongs => Belongs'
    BY <1>1, <1>2, <1>5, <1>8, <1>12 DEF Belongs
  <2>2. ASSUME failed = "no", SameAddr
        PROVE  SameAddr'
    <3>1. ASSUME NEW d \in Conns, m_poMergePacket[d] # None
          PROVE  m_poMergePacket[d] \in Range(m_oSendQueue)
      BY <2>2, <3>1, MergeQueued
    <3> QED BY <1>1, <1>5, <1>8, <1>10, <1>12, <2>2, <3>1 DEF SameAddr
  <2> QED BY <1>1, <2>1, <2>2 DEF IInv, FreshInv
<1>16. AddrInv'
  BY <1>1 DEF IInv, AddrInv
<1> QED BY <1>11, <1>13, <1>14, <1>15, <1>16 DEF IInv
-------------------------------------------------------------------------------
\* Freeing the closed connections: as long as every pass sends all there is, none of
\* them has a packet left.
LEMMA ProcClosedConnKeeps == IInv /\ ProcClosedConn => IInv'
<1> SUFFICES ASSUME IInv, ProcClosedConn PROVE IInv'
  OBVIOUS
<1> DEFINE freed == {c \in Conns : m_eState[c] = "CLOSE"}
<1>1. /\ phase = "conns" /\ phase' = "tick"
      /\ m_eState' = [c \in Conns |-> IF c \in freed THEN None ELSE m_eState[c]]
      /\ m_poMergePacket' = [c \in Conns |-> IF c \in freed THEN None ELSE m_poMergePacket[c]]
      /\ m_stClientAddr' = [c \in Conns |-> IF c \in freed THEN None ELSE m_stClientAddr[c]]
      /\ orphans' = orphans \union {p \in Range(m_oSendQueue) : packet[p].poConn \in freed}
      /\ owed' = [c \in Conns |-> IF c \in freed THEN <<>> ELSE owed[c]]
      /\ UNCHANGED <<due, queue, failed, wild>>
  BY DEF ProcClosedConn
<1>2. TypeOK
  BY DEF IInv
<1>3. QueueOK'
  BY <1>1, <1>2 DEF TypeOK, QueueOK, queue
<1>4. owed' \in [Conns -> Seq(Messages)]
  BY <1>1, <1>2 DEF TypeOK
<1>5. /\ m_eState' \in [Conns -> {None} \union States]
      /\ m_stClientAddr' \in [Conns -> Addrs \union {None}]
      /\ m_poMergePacket' \in [Conns -> Packets \union {None}]
  BY <1>1, <1>2 DEF TypeOK
<1>6. TypeOK'
  BY <1>1, <1>2, <1>3, <1>4, <1>5 DEF TypeOK
<1>7. AddrInv'
  BY <1>1 DEF IInv, AddrInv
<1>8. MergeInv'
  <2>1. SUFFICES ASSUME failed # "error", NEW c \in Conns, m_poMergePacket'[c] # None
                 PROVE  MergeGood(c)'
    BY <1>1 DEF MergeInv
  <2>2. c \notin freed /\ m_poMergePacket'[c] = m_poMergePacket[c] /\ m_poMergePacket[c] # None
    BY <1>1, <2>1
  <2>3. MergeGood(c)
    BY <2>1, <2>2, MergeQueued
  <2> QED BY <1>1, <2>2, <2>3 DEF MergeGood, queue
<1>9. SoundInv'
  <2>1. ASSUME failed = "no", NEW p \in Range(m_oSendQueue)
        PROVE  packet[p].poConn \notin freed
    <3>1. packet[p].poConn # None => m_eState[packet[p].poConn] \in Sending \union {"DISCONNET"}
      BY <1>1, <2>1 DEF IInv, FreshInv, Belongs
    <3> QED BY <3>1, SendAssumption DEF Sending
  <2> QED BY <1>1, <2>1 DEF IInv, SoundInv, queue
<1>10. FreshInv'
  BY <1>1 DEF IInv, FreshInv, Belongs, SameAddr, queue
<1> QED BY <1>6, <1>7, <1>8, <1>9, <1>10 DEF IInv
-------------------------------------------------------------------------------
LEMMA NextKeeps == IInv /\ [Next]_vars => IInv'
<1> SUFFICES ASSUME IInv, [Next]_vars PROVE IInv'
  OBVIOUS
<1>1. CASE Read
  BY <1>1, ReadReplyKeeps, ReadHeartBeatKeeps, ReadConnKeeps, ReadEndKeeps DEF Read
<1>2. CASE Write
  BY <1>2, WriteSentKeeps, WildKeeps, WriteAgainKeeps, WriteErrorKeeps, WriteEndKeeps DEF Write
<1>3. CASE ProcM2NMsg
  BY <1>3, SendMergedKeeps, SendNewKeeps, WildKeeps, M2NConnKeeps, M2NEndKeeps DEF ProcM2NMsg
<1>4. CASE ProcConns
  BY <1>4, KcpOutPutKeeps, DeadLinkKeeps, SendFinMsgKeeps, ProcClosedConnKeeps DEF ProcConns
<1>5. CASE Tick1S
  BY <1>5, TickConnKeeps, TickEndKeeps DEF Tick1S
<1>6. CASE UNCHANGED vars
  BY <1>6, WildKeeps
<1> QED BY <1>1, <1>2, <1>3, <1>4, <1>5, <1>6, BeginKeeps DEF Next

LEMMA Invariance == Spec => []IInv
<1> QED BY InitInv, NextKeeps, PTL DEF Spec

\* The packets allocated are those in the queue, each once, through every way a packet
\* leaves it, and no packet is written beyond its room.
THEOREM TypeCorrect == Spec => []TypeOK
<1>1. IInv => TypeOK
  BY DEF IInv
<1> QED BY <1>1, Invariance, PTL

\* As long as sendto does not fail, no packet outlives its connection, no connection
\* points to a packet that is gone, and every message goes to the address its client had
\* when the message was taken, for any number of connections and packets: the order of
\* the net thread's work in a pass is what makes the raw pointers safe.
THEOREM PointersAreSound == Spec => []PointersSound
<1>1. IInv => PointersSound
  BY DEF IInv, MergeInv, SoundInv, PointersSound
<1> QED BY <1>1, Invariance, PTL
-------------------------------------------------------------------------------
\* What QueuedAsTaken says of a sequence of length l and its n parts: at[i] is where the
\* i-th part ends.
CutAt(s, l, parts, n, at) ==
    /\ at[0] = 0 /\ at[n] = l
    /\ \A i \in 1 .. n :
          /\ at[i] = at[i - 1] + Len(parts[i])
          /\ \A k \in 1 .. Len(parts[i]) : s[at[i - 1] + k] = parts[i][k]

LEMMA CutIsAt ==
    ASSUME NEW s, NEW parts, NEW n \in Nat, NEW l \in Nat, n = Len(parts), l = Len(s)
    PROVE  CutInto(s, parts) <=> \E at \in [0 .. n -> 0 .. l] : CutAt(s, l, parts, n, at)
BY Zenon DEF CutInto, CutAt

\* Counting from where something holds: B are the places where it does not.
LEMMA NonePassed ==
    ASSUME NEW B \in SUBSET Nat, \A x \in B : \E y \in B : y < x
    PROVE  B = {}
<1>1. SUFFICES ASSUME B # {} PROVE FALSE
  OBVIOUS
<1>2. PICK x \in B : \A y \in B : ~ (<<y, x>> \in OpToRel(<, Nat))
  BY <1>1, NatLessThanWellFounded, WFMin, Zenon
<1>3. \A y \in B : ~ (y < x)
  BY <1>2 DEF OpToRel
<1> QED BY <1>3

\* The lengths of a sequence of sequences.
LEMMA PartLengths ==
    ASSUME NEW S, NEW parts \in Seq(Seq(S)), NEW n \in Nat, n = Len(parts)
    PROVE  \A i \in 1 .. n : parts[i] \in Seq(S) /\ Len(parts[i]) \in Nat
<1>1. \A i \in 1 .. n : parts[i] \in Seq(S)
  OBVIOUS
<1>2. \A p \in Seq(S) : Len(p) \in Nat
  OBVIOUS
<1> QED BY <1>1, <1>2, Zenon

\* A place inside a part is one of the sequence.
LEMMA Within ==
    ASSUME NEW l \in Nat, NEW a \in 0 .. l, NEW b \in Nat, NEW c \in 0 .. l, c = a + b, NEW k \in 1 .. b
    PROVE  a + k \in 1 .. l
OBVIOUS

\* q is d places before n, and not before j.
PlaceBack(n, j, d, q) ==
    n \in Nat /\ j \in 1 .. n /\ d \in Nat /\ d <= n - j /\ d # 0 /\ q \in Nat /\ q = n - d

LEMMA NextPlace ==
    ASSUME NEW n, NEW j, NEW d, NEW q, PlaceBack(n, j, d, q)
    PROVE  /\ q + 1 \in j + 1 .. n /\ q + 1 \in 1 .. n /\ (q + 1) - 1 = q /\ q \in 0 .. n
           /\ n - (d - 1) = q + 1 /\ d - 1 \in Nat /\ d - 1 < d /\ d - 1 <= n - j
BY DEF PlaceBack

\* A part is put at the end.
Longer(S, s, d, parts, n, new) ==
    /\ s \in Seq(S) /\ d \in Seq(S) /\ parts \in Seq(Seq(S)) /\ new \in Seq(Seq(S)) /\ n \in Nat
    /\ n = Len(parts) /\ Len(new) = n + 1 /\ new[n + 1] = d /\ \A i \in 1 .. n : new[i] = parts[i]

LEMMA CutLonger ==
    ASSUME NEW S, NEW s, NEW d, NEW parts, NEW n, NEW new, CutInto(s, parts), Longer(S, s, d, parts, n, new)
    PROVE  CutInto(s \o d, new)
<1>0. /\ s \in Seq(S) /\ d \in Seq(S) /\ parts \in Seq(Seq(S)) /\ new \in Seq(Seq(S)) /\ n \in Nat
      /\ n = Len(parts) /\ Len(new) = n + 1 /\ new[n + 1] = d /\ \A i \in 1 .. n : new[i] = parts[i]
  BY DEF Longer
<1> USE <1>0
<1>1. PICK l \in Nat : l = Len(s)
  <2>1. Len(s) \in Nat
    OBVIOUS
  <2> QED BY <2>1, Zenon
<1>2. PICK e \in Nat : e = Len(d)
  <2>1. Len(d) \in Nat
    OBVIOUS
  <2> QED BY <2>1, Zenon
<1>3. PICK t \in Seq(S) : t = s \o d
  <2>1. s \o d \in Seq(S)
    OBVIOUS
  <2> QED BY <2>1, Zenon
<1>4. /\ Len(t) = l + e /\ \A k \in 1 .. l : t[k] = s[k]
      /\ \A k \in 1 .. e : t[l + k] = d[k]
  BY <1>1, <1>2, <1>3
<1>5. PICK at \in [0 .. n -> 0 .. l] : CutAt(s, l, parts, n, at)
  BY <1>1, CutIsAt, Zenon
<1>6. /\ at[0] = 0 /\ at[n] = l
      /\ \A i \in 0 .. n : at[i] \in 0 .. l
      /\ \A i \in 1 .. n : /\ at[i] = at[i - 1] + Len(parts[i])
                           /\ \A k \in 1 .. Len(parts[i]) : s[at[i - 1] + k] = parts[i][k]
  BY <1>5, Zenon DEF CutAt
<1>7. PICK bt : bt = [i \in 0 .. n + 1 |-> IF i <= n THEN at[i] ELSE l + e]
  BY Zenon
<1>8. \A i \in 0 .. n : at[i] \in 0 .. l + e /\ i \in 0 .. n + 1 /\ i <= n
  BY <1>6
<1>9. (\A i \in 0 .. n : bt[i] = at[i]) /\ bt[n + 1] = l + e
  BY <1>7, <1>8
<1>10. bt \in [0 .. n + 1 -> 0 .. l + e]
  <2>1. \A i \in 0 .. n + 1 : (IF i <= n THEN at[i] ELSE l + e) \in 0 .. l + e
    BY <1>8
  <2> QED BY <1>7, <2>1
<1>11. \A i \in 1 .. n : Len(parts[i]) \in Nat
  BY PartLengths
<1>12. ASSUME NEW i \in 1 .. n + 1
       PROVE  /\ bt[i] = bt[i - 1] + Len(new[i])
              /\ \A k \in 1 .. Len(new[i]) : t[bt[i - 1] + k] = new[i][k]
  <2>1. CASE i \in 1 .. n
    <3>1. i \in 0 .. n /\ i - 1 \in 0 .. n
      BY <2>1
    <3>2. new[i] = parts[i] /\ bt[i] = at[i] /\ bt[i - 1] = at[i - 1]
      BY <1>9, <2>1, <3>1, Zenon
    <3>3. at[i - 1] \in 0 .. l /\ at[i] \in 0 .. l /\ at[i] = at[i - 1] + Len(parts[i]) /\ Len(parts[i]) \in Nat
      BY <1>6, <1>11, <2>1, <3>1, Zenon
    <3>4. ASSUME NEW k \in 1 .. Len(parts[i]) PROVE t[at[i - 1] + k] = parts[i][k]
      <4>1. at[i - 1] + k \in 1 .. l
        BY <3>3, Within, Zenon
      <4> QED BY <1>4, <1>6, <2>1, <4>1, Zenon
    <3> QED BY <3>2, <3>3, <3>4, Zenon
  <2>2. CASE i = n + 1
    <3>1. new[i] = d /\ i - 1 = n /\ n \in 0 .. n
      BY <2>2
    <3>2. bt[i - 1] = l /\ bt[i] = l + e
      BY <1>6, <1>9, <2>2, <3>1
    <3> QED BY <1>2, <1>4, <3>1, <3>2, Zenon
  <2> QED BY <2>1, <2>2, SMTT(30)
<1>13. bt[0] = 0 /\ bt[n + 1] = l + e
  BY <1>6, <1>9
<1>14. CutAt(t, l + e, new, n + 1, bt)
  BY <1>12, <1>13, Zenon DEF CutAt
<1>15. n + 1 \in Nat /\ l + e \in Nat
  OBVIOUS
<1> QED BY <1>3, <1>4, <1>10, <1>14, <1>15, CutIsAt, Zenon

\* The last part that is not empty grows.
Grown(S, s, m, parts, n, j, new) ==
    /\ s \in Seq(S) /\ m \in S /\ parts \in Seq(Seq(S)) /\ new \in Seq(Seq(S)) /\ n \in Nat
    /\ n = Len(parts) /\ j \in 1 .. n /\ \A i \in j + 1 .. n : parts[i] = <<>>
    /\ Len(new) = n /\ new[j] = Append(parts[j], m) /\ \A i \in 1 .. n : i # j => new[i] = parts[i]

LEMMA CutGrown ==
    ASSUME NEW S, NEW s, NEW m, NEW parts, NEW n, NEW j, NEW new, CutInto(s, parts),
           Grown(S, s, m, parts, n, j, new)
    PROVE  CutInto(Append(s, m), new)
<1>0. /\ s \in Seq(S) /\ m \in S /\ parts \in Seq(Seq(S)) /\ new \in Seq(Seq(S)) /\ n \in Nat
      /\ n = Len(parts) /\ j \in 1 .. n /\ \A i \in j + 1 .. n : parts[i] = <<>>
      /\ Len(new) = n /\ new[j] = Append(parts[j], m) /\ \A i \in 1 .. n : i # j => new[i] = parts[i]
  BY DEF Grown
<1> USE <1>0
<1>1. PICK l \in Nat : l = Len(s)
  <2>1. Len(s) \in Nat
    OBVIOUS
  <2> QED BY <2>1, Zenon
<1>2. PICK t \in Seq(S) : t = Append(s, m)
  <2>1. Append(s, m) \in Seq(S)
    OBVIOUS
  <2> QED BY <2>1, Zenon
<1>3. Len(t) = l + 1 /\ t[l + 1] = m /\ \A k \in 1 .. l : t[k] = s[k]
  BY <1>1, <1>2
<1>4. PICK at \in [0 .. n -> 0 .. l] : CutAt(s, l, parts, n, at)
  BY <1>1, CutIsAt, Zenon
<1>5. /\ at[0] = 0 /\ at[n] = l
      /\ \A i \in 0 .. n : at[i] \in 0 .. l
      /\ \A i \in 1 .. n : /\ at[i] = at[i - 1] + Len(parts[i])
                           /\ \A k \in 1 .. Len(parts[i]) : s[at[i - 1] + k] = parts[i][k]
  BY <1>4, Zenon DEF CutAt
<1>6. PICK bt : bt = [i \in 0 .. n |-> IF i < j THEN at[i] ELSE at[i] + 1]
  BY Zenon
<1>7. /\ \A i \in 0 .. n : i < j => bt[i] = at[i]
      /\ \A i \in 0 .. n : ~(i < j) => bt[i] = at[i] + 1
  BY <1>6, Zenon
<1>8. bt \in [0 .. n -> 0 .. l + 1]
  <2>1. \A i \in 0 .. n : at[i] \in Int /\ 0 <= at[i] /\ at[i] <= l
    BY <1>5
  <2>2. ASSUME NEW i \in 0 .. n PROVE (IF i < j THEN at[i] ELSE at[i] + 1) \in 0 .. l + 1
    <3>1. PICK a \in Int : a = at[i] /\ 0 <= a /\ a <= l
      BY <2>1, Zenon
    <3>2. a \in 0 .. l + 1 /\ a + 1 \in 0 .. l + 1
      <4> HIDE <1>0
      <4> QED BY <3>1
    <3> QED BY <3>1, <3>2, Zenon
  <2> QED BY <1>6, <2>2, Zenon
<1>9. Len(<<>>) = 0 /\ \A i \in 1 .. n : Len(parts[i]) \in Nat
  BY PartLengths
<1>10. ASSUME NEW i \in j .. n PROVE at[i] = l
  <2>1. PICK B : B = {d \in Nat : d <= n - j /\ at[n - d] # l}
    BY Zenon
  <2>2. ASSUME NEW d \in B PROVE \E y \in B : y < d
    <3>1. d \in Nat /\ d <= n - j /\ at[n - d] # l
      BY <2>1
    <3>2. d # 0
      BY <1>5, <3>1
    <3>3. PICK q \in Nat : q = n - d
      <4>1. d \in Nat /\ d <= n - j
        BY <3>1
      <4>2. n - d \in Nat
        BY <4>1
      <4> QED BY <4>2, Zenon
    <3>4. /\ q + 1 \in j + 1 .. n /\ q + 1 \in 1 .. n /\ (q + 1) - 1 = q /\ q \in 0 .. n
          /\ n - (d - 1) = q + 1 /\ d - 1 \in Nat /\ d - 1 < d /\ d - 1 <= n - j
      <4>1. d \in Nat /\ d <= n - j
        BY <3>1
      <4>2. d # 0
        BY <3>2
      <4>3. q = n - d
        BY <3>3
      <4>4. j \in 1 .. n /\ n \in Nat /\ q \in Nat
        OBVIOUS
      <4>5. PlaceBack(n, j, d, q)
        BY <4>1, <4>2, <4>3, <4>4, Zenon DEF PlaceBack
      <4> QED BY <4>5, NextPlace, Zenon
    <3>5. Len(parts[q + 1]) = 0 /\ at[q] \in 0 .. l /\ at[q + 1] = at[q] + Len(parts[q + 1])
      BY <1>5, <1>9, <3>4, Zenon
    <3>6. at[q + 1] = at[q]
      BY <3>5
    <3>7. d - 1 \in B
      BY <2>1, <3>1, <3>3, <3>4, <3>6, Zenon
    <3> QED BY <3>4, <3>7, Zenon
  <2>3. B \in SUBSET Nat
    BY <2>1, Zenon
  <2>4. B = {}
    BY <2>2, <2>3, NonePassed, Zenon
  <2>5. n - i \in Nat /\ n - i <= n - j /\ n - (n - i) = i
    OBVIOUS
  <2> QED BY <2>1, <2>4, <2>5, Zenon
<1>11. ASSUME NEW i \in 1 .. n
       PROVE  /\ bt[i] = bt[i - 1] + Len(new[i])
              /\ \A k \in 1 .. Len(new[i]) : t[bt[i - 1] + k] = new[i][k]
  <2>1. i \in 0 .. n /\ i - 1 \in 0 .. n
    OBVIOUS
  <2>2. PICK a \in 0 .. l : a = at[i - 1]
    BY <1>5, <2>1, Zenon
  <2>3. PICK e \in Nat : e = Len(parts[i])
    BY <1>9, Zenon
  <2>4. at[i] \in 0 .. l /\ at[i] = a + e
    BY <1>5, <2>1, <2>2, <2>3, Zenon
  <2>5. ASSUME NEW k \in 1 .. e PROVE t[a + k] = parts[i][k]
    <3>1. a + k \in 1 .. l
      BY <2>4, Within, Zenon
    <3> QED BY <1>3, <1>5, <2>2, <2>3, <3>1, Zenon
  <2>6. CASE i < j
    <3>1. i - 1 < j /\ i # j
      BY <2>6, SMTT(30)
    <3>2. new[i] = parts[i] /\ bt[i] = at[i] /\ bt[i - 1] = a
      BY <1>7, <2>1, <2>2, <2>6, <3>1, Zenon
    <3> QED BY <2>3, <2>4, <2>5, <3>2, Zenon
  <2>7. CASE i = j
    <3>1. i - 1 < j /\ ~(i < j) /\ i \in j .. n
      BY <2>7
    <3>2. bt[i] = at[i] + 1 /\ bt[i - 1] = a /\ at[i] = l
      BY <1>7, <1>10, <2>1, <2>2, <3>1, Zenon
    <3>3. PICK part \in Seq(S) : part = parts[i]
      BY PartLengths, Zenon
    <3>4. new[i] = Append(part, m) /\ Len(part) = e
      BY <2>3, <2>7, <3>3, Zenon
    <3>5. Len(new[i]) = e + 1 /\ new[i][e + 1] = m /\ \A k \in 1 .. e : new[i][k] = part[k]
      <4>1. m \in S
        OBVIOUS
      <4> HIDE <1>0
      <4> QED BY <3>4, <4>1, AppendProperties
    <3>6. ASSUME NEW k \in 1 .. e + 1 PROVE t[a + k] = new[i][k]
      <4>1. CASE k \in 1 .. e
        BY <2>5, <3>3, <3>5, <4>1, Zenon
      <4>2. CASE k = e + 1
        <5>1. a + k = l + 1
          BY <2>4, <3>2, <4>2
        <5> QED BY <1>3, <3>5, <4>2, <5>1, Zenon
      <4> QED BY <4>1, <4>2
    <3>7. bt[i] = a + (e + 1)
      BY <2>4, <3>2
    <3> QED BY <3>2, <3>5, <3>6, <3>7, Zenon
  <2>8. CASE i > j
    <3>1. i - 1 \in j .. n /\ i \in j .. n /\ ~(i < j) /\ ~(i - 1 < j) /\ i # j /\ i \in j + 1 .. n
      <4>1. j \in 1 .. n /\ n \in Nat
        OBVIOUS
      <4> HIDE <1>0
      <4> QED BY <2>8, <4>1
    <3>2. at[i] = l /\ a = l /\ bt[i] = at[i] + 1 /\ bt[i - 1] = a + 1 /\ new[i] = <<>>
      BY <1>7, <1>10, <2>1, <2>2, <3>1, Zenon
    <3> QED BY <1>9, <3>2
  <2> QED BY <2>6, <2>7, <2>8
<1>12. bt[0] = 0 /\ bt[n] = l + 1
  <2>1. 0 \in 0 .. n /\ 0 < j /\ n \in 0 .. n /\ ~(n < j)
    OBVIOUS
  <2> QED BY <1>5, <1>7, <2>1, Zenon
<1>13. CutAt(t, l + 1, new, n, bt)
  BY <1>11, <1>12, Zenon DEF CutAt
<1>14. l + 1 \in Nat
  OBVIOUS
<1> QED BY <1>2, <1>3, <1>8, <1>13, <1>14, CutIsAt, Zenon

\* The first part is taken off.
Shorter(S, s, parts, n, new) ==
    /\ s \in Seq(S) /\ parts \in Seq(Seq(S)) /\ new \in Seq(Seq(S)) /\ n \in Nat \ {0}
    /\ n = Len(parts) /\ Len(new) = n - 1 /\ \A i \in 1 .. n - 1 : new[i] = parts[i + 1]

LEMMA CutShorter ==
    ASSUME NEW S, NEW s, NEW parts, NEW n, NEW new, CutInto(s, parts), Shorter(S, s, parts, n, new)
    PROVE  CutInto(SubSeq(s, Len(parts[1]) + 1, Len(s)), new)
<1>0. /\ s \in Seq(S) /\ parts \in Seq(Seq(S)) /\ new \in Seq(Seq(S)) /\ n \in Nat \ {0}
      /\ n = Len(parts) /\ Len(new) = n - 1 /\ \A i \in 1 .. n - 1 : new[i] = parts[i + 1]
  BY DEF Shorter
<1> USE <1>0
<1>1. PICK l \in Nat : l = Len(s)
  <2>1. Len(s) \in Nat
    OBVIOUS
  <2> QED BY <2>1, Zenon
<1>2. PICK at \in [0 .. n -> 0 .. l] : CutAt(s, l, parts, n, at)
  BY <1>1, CutIsAt, Zenon
<1>3. /\ at[0] = 0 /\ at[n] = l
      /\ \A i \in 0 .. n : at[i] \in 0 .. l
      /\ \A i \in 1 .. n : /\ at[i] = at[i - 1] + Len(parts[i])
                           /\ \A k \in 1 .. Len(parts[i]) : s[at[i - 1] + k] = parts[i][k]
  BY <1>2, Zenon DEF CutAt
<1>4. \A i \in 1 .. n : Len(parts[i]) \in Nat
  BY PartLengths
<1>5. 1 \in 1 .. n /\ 1 \in 0 .. n /\ 1 - 1 = 0
  OBVIOUS
<1>6. PICK e \in Nat : e = Len(parts[1])
  BY <1>4, <1>5, Zenon
<1>7. at[1] = e /\ e <= l
  <2>1. at[1] = 0 + e /\ at[1] \in 0 .. l
    BY <1>3, <1>5, <1>6, Zenon
  <2> QED BY <2>1
<1>8. ASSUME NEW i \in 1 .. n PROVE e <= at[i]
  <2>1. PICK B : B = {x \in 1 .. n : ~(e <= at[x])}
    BY Zenon
  <2>2. ASSUME NEW x \in B PROVE \E y \in B : y < x
    <3>1. x \in 1 .. n /\ ~(e <= at[x])
      BY <2>1
    <3>2. x # 1
      BY <1>7, <3>1
    <3>3. PICK q \in Nat : q = x - 1
      BY <3>1
    <3>4. q \in 1 .. n /\ q < x /\ x - 1 = q /\ q \in 0 .. n /\ x \in 0 .. n
      BY <3>1, <3>2, <3>3
    <3>5. at[q] \in 0 .. l /\ at[x] \in 0 .. l /\ at[x] = at[q] + Len(parts[x]) /\ Len(parts[x]) \in Nat
      BY <1>3, <1>4, <3>1, <3>4, Zenon
    <3>6. ~(e <= at[q])
      BY <3>1, <3>5, SMTT(30)
    <3>7. q \in B
      BY <2>1, <3>4, <3>6, Zenon
    <3> QED BY <3>4, <3>7, Zenon
  <2>3. B \in SUBSET Nat
    BY <2>1
  <2>4. B = {}
    BY <2>2, <2>3, NonePassed, Zenon
  <2> QED BY <2>1, <2>4, Zenon
<1>9. PICK t \in Seq(S) : t = SubSeq(s, e + 1, l)
  <2>1. SubSeq(s, e + 1, l) \in Seq(S)
    BY <1>1, <1>7
  <2> QED BY <2>1, Zenon
<1>10. Len(t) = l - e /\ l - e \in Nat
  BY <1>1, <1>7, <1>9
<1>11. ASSUME NEW k \in 1 .. l - e PROVE t[k] = s[e + k]
  <2>1. t[k] = s[(e + 1) + k - 1]
    BY <1>1, <1>7, <1>9, SMTT(30)
  <2>2. (e + 1) + k - 1 = e + k
    OBVIOUS
  <2> QED BY <2>1, <2>2
<1>12. PICK bt : bt = [i \in 0 .. n - 1 |-> at[i + 1] - e]
  BY Zenon
<1>13. \A i \in 0 .. n - 1 : bt[i] = at[i + 1] - e
  BY <1>12, Zenon
<1>14. bt \in [0 .. n - 1 -> 0 .. l - e]
  <2>1. ASSUME NEW i \in 0 .. n - 1 PROVE at[i + 1] - e \in 0 .. l - e
    <3>1. i + 1 \in 1 .. n /\ i + 1 \in 0 .. n
      OBVIOUS
    <3>2. at[i + 1] \in 0 .. l /\ e <= at[i + 1]
      BY <1>3, <1>8, <3>1, Zenon
    <3> QED BY <3>2, SMTT(30)
  <2> QED BY <1>12, <2>1, Zenon
<1>15. ASSUME NEW i \in 1 .. n - 1
       PROVE  /\ bt[i] = bt[i - 1] + Len(new[i])
              /\ \A k \in 1 .. Len(new[i]) : t[bt[i - 1] + k] = new[i][k]
  <2>1. /\ i + 1 \in 1 .. n /\ (i + 1) - 1 = i /\ i \in 0 .. n - 1 /\ i - 1 \in 0 .. n - 1
        /\ (i - 1) + 1 = i /\ i + 1 \in 0 .. n /\ i \in 0 .. n /\ i \in 1 .. n
    OBVIOUS
  <2>2. PICK a \in 0 .. l : a = at[i]
    BY <1>3, <2>1, Zenon
  <2>3. new[i] = parts[i + 1]
    OBVIOUS
  <2>4. PICK f \in Nat : f = Len(new[i])
    BY <1>4, <2>1, <2>3, Zenon
  <2>5. at[i + 1] \in 0 .. l /\ at[i + 1] = a + f /\ e <= a
    BY <1>3, <1>8, <2>1, <2>2, <2>3, <2>4, Zenon
  <2>6. bt[i] = at[i + 1] - e /\ bt[i - 1] = a - e
    BY <1>13, <2>1, <2>2, Zenon
  <2>7. ASSUME NEW k \in 1 .. f PROVE t[bt[i - 1] + k] = new[i][k]
    <3>1. s[a + k] = new[i][k]
      <4>1. k \in 1 .. Len(parts[i + 1])
        BY <2>3, <2>4
      <4>2. s[at[(i + 1) - 1] + k] = parts[i + 1][k]
        BY <1>3, <2>1, <4>1, Zenon
      <4>3. at[(i + 1) - 1] = a
        BY <2>1, <2>2, Zenon
      <4> QED BY <2>3, <4>2, <4>3, Zenon
    <3>2. a + k \in 1 .. l
      BY <2>5, Within, Zenon
    <3>3. (a - e) + k \in 1 .. l - e /\ e + ((a - e) + k) = a + k
      BY <2>5, <3>2
    <3> QED BY <1>11, <2>6, <3>1, <3>3, Zenon
  <2>8. bt[i] = bt[i - 1] + f
    BY <2>5, <2>6
  <2> QED BY <2>4, <2>7, <2>8, Zenon
<1>16. bt[0] = 0 /\ bt[n - 1] = l - e
  <2>1. 0 \in 0 .. n - 1 /\ n - 1 \in 0 .. n - 1 /\ (n - 1) + 1 = n /\ 0 + 1 = 1
    OBVIOUS
  <2>2. bt[0] = at[1] - e /\ bt[n - 1] = at[n] - e
    BY <1>13, <2>1, Zenon
  <2> QED BY <1>3, <1>7, <2>2
<1>17. CutAt(t, l - e, new, n - 1, bt)
  BY <1>15, <1>16, Zenon DEF CutAt
<1>18. n - 1 \in Nat
  OBVIOUS
<1> QED BY <1>1, <1>6, <1>9, <1>10, <1>14, <1>17, <1>18, CutIsAt, Zenon

\* There is nothing in parts that are all empty.
LEMMA CutNothing ==
    ASSUME NEW S, NEW parts \in Seq(Seq(S)), NEW n \in Nat, n = Len(parts),
           \A i \in 1 .. n : parts[i] = <<>>
    PROVE  CutInto(<<>>, parts)
<1>1. Len(<<>>) = 0
  OBVIOUS
<1>2. PICK at : at = [i \in 0 .. n |-> 0]
  BY Zenon
<1>3. (\A i \in 0 .. n : at[i] = 0) /\ at \in [0 .. n -> 0 .. 0]
  BY <1>2
<1>4. CutAt(<<>>, 0, parts, n, at)
  BY <1>1, <1>3, SMTT(30) DEF CutAt
<1> QED BY <1>1, <1>3, <1>4, CutIsAt, Zenon
-------------------------------------------------------------------------------
\* QueuedAsTaken.  It takes a connection's merge packet, where the next message is written,
\* to be the last of its packets with messages; that other packets have none; and that
\* nothing is owed to a connection that is not there.

\* Packet p is one of connection c.
IsOf(c, p) == p \notin orphans /\ packet[p].poConn = c

\* Nothing of c is behind its merge packet.
MergeLast(c) ==
    m_poMergePacket[c] # None /\ MergeGood(c) =>
        \A i, j \in 1 .. Len(m_oSendQueue) :
            m_oSendQueue[j] = m_poMergePacket[c] /\ j < i => Pending(c)[i] = <<>>

OwedInv ==
    /\ \A c \in Conns : CutInto(owed[c], Pending(c))
    /\ \A c \in Conns : m_eState[c] = None => owed[c] = <<>>
    /\ \A p \in Range(m_oSendQueue) : ~packet[p].merge => packet[p].data = <<>>
    /\ \A c \in Conns : MergeLast(c)

\* What Pending gives.
PendingOK(c) ==
    /\ Pending(c) \in Seq(Seq(Messages)) /\ Len(m_oSendQueue) \in Nat
    /\ Len(Pending(c)) = Len(m_oSendQueue)
    /\ \A i \in 1 .. Len(m_oSendQueue) :
          /\ m_oSendQueue[i] \in Packets /\ m_oSendQueue[i] \in Range(m_oSendQueue)
          /\ packet[m_oSendQueue[i]] \in Contents
          /\ IsOf(c, m_oSendQueue[i]) => Pending(c)[i] = packet[m_oSendQueue[i]].data
          /\ ~IsOf(c, m_oSendQueue[i]) => Pending(c)[i] = <<>>

LEMMA PendingFacts ==
    ASSUME TypeOK, NEW c \in Conns
    PROVE  PendingOK(c)
<1>1. PICK n \in Nat : n = Len(m_oSendQueue)
  <2>1. Len(m_oSendQueue) \in Nat
    BY DEF TypeOK, QueueOK
  <2> QED BY <2>1, Zenon
<1>2. ASSUME NEW i \in 1 .. n
      PROVE  /\ m_oSendQueue[i] \in Packets /\ m_oSendQueue[i] \in Range(m_oSendQueue)
             /\ packet[m_oSendQueue[i]] \in Contents /\ packet[m_oSendQueue[i]].data \in Seq(Messages)
  <2>1. m_oSendQueue[i] \in Packets /\ m_oSendQueue[i] \in Range(m_oSendQueue)
    <3>1. m_oSendQueue \in Seq(Packets)
      BY DEF TypeOK, QueueOK
    <3>2. i \in DOMAIN m_oSendQueue /\ m_oSendQueue[i] \in Packets
      BY <1>1, <3>1
    <3> QED BY <3>2, Zenon DEF Range
  <2>2. packet[m_oSendQueue[i]] \in Contents
    BY <2>1 DEF TypeOK, QueueOK
  <2>3. packet[m_oSendQueue[i]].data \in Seq(Messages)
    BY <2>2 DEF Contents
  <2> QED BY <2>1, <2>2, <2>3
<1>3. ASSUME NEW i \in 1 .. n
      PROVE  (IF m_oSendQueue[i] \notin orphans /\ packet[m_oSendQueue[i]].poConn = c
              THEN packet[m_oSendQueue[i]].data ELSE <<>>) \in Seq(Messages)
  <2>1. <<>> \in Seq(Messages)
    OBVIOUS
  <2> QED BY <1>2, <2>1, Zenon
<1>4. Pending(c) \in [1 .. n -> Seq(Messages)]
  BY <1>1, <1>3, Zenon DEF Pending
<1>5. Pending(c) \in Seq(Seq(Messages)) /\ Len(Pending(c)) = n
  BY <1>4
<1>6. \A i \in 1 .. n : /\ IsOf(c, m_oSendQueue[i]) => Pending(c)[i] = packet[m_oSendQueue[i]].data
                        /\ ~IsOf(c, m_oSendQueue[i]) => Pending(c)[i] = <<>>
  BY <1>1, Zenon DEF Pending, IsOf
<1> QED BY <1>1, <1>2, <1>5, <1>6, Zenon DEF PendingOK

\* And after a step.
LEMMA PendingNext == TypeOK' => \A c \in Conns : PendingOK(c)'
<1>1. TypeOK => \A c \in Conns : PendingOK(c)
  BY PendingFacts
<1>2. TypeOK' => (\A c \in Conns : PendingOK(c))'
  BY <1>1, PTL
<1> QED BY <1>2

\* A step that leaves the queue alone keeps it, if it frees nothing.
LEMMA OwedStill ==
    ASSUME OwedInv, UNCHANGED <<queue, orphans, owed>>,
           \A c \in Conns : m_poMergePacket'[c] \in {m_poMergePacket[c], None},
           \A c \in Conns : m_eState'[c] = None => m_eState[c] = None
    PROVE  OwedInv'
<1>1. UNCHANGED <<m_oSendQueue, packet, orphans, owed>>
  BY Zenon DEF queue
<1>2. \A c \in Conns : Pending(c)' = Pending(c)
  BY <1>1 DEF Pending
<1>3. ASSUME NEW c \in Conns PROVE MergeLast(c)'
  <2>1. MergeLast(c) /\ m_poMergePacket'[c] \in {m_poMergePacket[c], None}
    BY Zenon DEF OwedInv
  <2>2. CASE m_poMergePacket'[c] = None
    BY <2>2, Zenon DEF MergeLast
  <2>3. CASE m_poMergePacket'[c] = m_poMergePacket[c]
    BY <1>1, <1>2, <2>1, <2>3 DEF MergeLast, MergeGood
  <2> QED BY <2>1, <2>2, <2>3, Zenon
<1>4. \A c \in Conns : CutInto(owed[c], Pending(c))'
  <2>1. ASSUME NEW c \in Conns PROVE CutInto(owed[c], Pending(c))'
    <3>1. CutInto(owed[c], Pending(c)) /\ Pending(c)' = Pending(c) /\ owed' = owed
      BY <1>1, <1>2, Zenon DEF OwedInv
    <3>2. CutInto(owed'[c], Pending(c)')
      BY <3>1, Zenon
    <3> QED BY <3>2 DEF CutInto
  <2> QED BY <2>1
<1> QED BY <1>1, <1>3, <1>4 DEF OwedInv

\* A new packet is the last in the queue.
LEMMA PendingNew ==
    ASSUME TypeOK, TypeOK', NEW p \in Packets, NEW content \in Contents, NewPacket(p, content),
           orphans' = orphans, NEW c \in Conns, NEW n \in Nat, n = Len(m_oSendQueue)
    PROVE  /\ Len(m_oSendQueue') = n + 1 /\ m_oSendQueue'[n + 1] = p
           /\ \A i \in 1 .. n : m_oSendQueue'[i] = m_oSendQueue[i] /\ m_oSendQueue[i] # p
           /\ Pending(c)' \in Seq(Seq(Messages)) /\ Len(Pending(c)') = n + 1
           /\ \A i \in 1 .. n : Pending(c)'[i] = Pending(c)[i]
           /\ content.poConn = c => Pending(c)'[n + 1] = content.data
           /\ content.poConn # c => Pending(c)'[n + 1] = <<>>
<1>1. /\ p \notin Range(m_oSendQueue) /\ packet'[p] = content
      /\ \A q \in Packets : q # p => packet'[q] = packet[q]
  BY Appended
<1>2. m_oSendQueue \in Seq(Packets) /\ m_oSendQueue' = Append(m_oSendQueue, p)
      /\ p \notin orphans
  BY <1>1 DEF TypeOK, QueueOK, NewPacket
<1>3. /\ Len(m_oSendQueue') = n + 1 /\ m_oSendQueue'[n + 1] = p
      /\ \A i \in 1 .. n : m_oSendQueue'[i] = m_oSendQueue[i]
  BY <1>2
<1>4. /\ \A i \in 1 .. n : /\ m_oSendQueue[i] \in Packets /\ m_oSendQueue[i] \in Range(m_oSendQueue)
                           /\ IsOf(c, m_oSendQueue[i]) => Pending(c)[i] = packet[m_oSendQueue[i]].data
                           /\ ~IsOf(c, m_oSendQueue[i]) => Pending(c)[i] = <<>>
  BY PendingFacts, Zenon DEF PendingOK
<1>5. /\ Pending(c)' \in Seq(Seq(Messages)) /\ Len(Pending(c)') = Len(m_oSendQueue')
      /\ \A i \in 1 .. Len(m_oSendQueue') :
            /\ IsOf(c, m_oSendQueue[i])' => Pending(c)'[i] = packet'[m_oSendQueue'[i]].data
            /\ ~IsOf(c, m_oSendQueue[i])' => Pending(c)'[i] = <<>>
  <2>1. PendingOK(c)'
    BY PendingNext, Zenon
  <2> QED BY <2>1, Zenon DEF PendingOK
<1>6. ASSUME NEW i \in 1 .. n
      PROVE  m_oSendQueue[i] # p /\ Pending(c)'[i] = Pending(c)[i]
  <2>1. m_oSendQueue[i] # p /\ m_oSendQueue'[i] = m_oSendQueue[i] /\ i \in 1 .. n + 1
    BY <1>1, <1>3, <1>4
  <2>2. packet'[m_oSendQueue[i]] = packet[m_oSendQueue[i]]
    BY <1>1, <1>4, <2>1, Zenon
  <2>3. IsOf(c, m_oSendQueue[i])' <=> IsOf(c, m_oSendQueue[i])
    BY <2>1, <2>2 DEF IsOf
  <2>4. i \in 1 .. Len(m_oSendQueue') /\ packet'[m_oSendQueue'[i]] = packet[m_oSendQueue[i]]
    BY <1>3, <2>1, <2>2, Zenon
  <2>5. CASE IsOf(c, m_oSendQueue[i])
    <3>1. Pending(c)'[i] = packet'[m_oSendQueue'[i]].data
      BY <1>5, <2>3, <2>4, <2>5, Zenon
    <3>2. Pending(c)[i] = packet[m_oSendQueue[i]].data
      BY <1>4, <2>5, Zenon
    <3> QED BY <2>1, <2>4, <3>1, <3>2, Zenon
  <2>6. CASE ~IsOf(c, m_oSendQueue[i])
    <3>1. Pending(c)'[i] = <<>> /\ Pending(c)[i] = <<>>
      BY <1>4, <1>5, <2>3, <2>4, <2>6, Zenon
    <3> QED BY <2>1, <3>1, Zenon
  <2> QED BY <2>5, <2>6, Zenon
<1>7. n + 1 \in 1 .. n + 1
  OBVIOUS
<1>8. IsOf(c, m_oSendQueue[n + 1])' <=> content.poConn = c
  BY <1>1, <1>2, <1>3 DEF IsOf
<1> QED BY <1>1, <1>3, <1>5, <1>6, <1>7, <1>8, Zenon

\* Cutting goes on when a packet is appended: what it holds for c is what c is owed more.
LEMMA CutNew ==
    ASSUME TypeOK, TypeOK', OwedInv, NEW p \in Packets, NEW content \in Contents, NewPacket(p, content),
           orphans' = orphans, NEW c \in Conns, NEW d \in Seq(Messages),
           content.poConn = c => d = content.data, content.poConn # c => d = <<>>,
           owed'[c] = owed[c] \o d
    PROVE  CutInto(owed'[c], Pending(c)')
<1>1. PICK n \in Nat : n = Len(m_oSendQueue)
  <2>1. Len(m_oSendQueue) \in Nat
    BY DEF TypeOK, QueueOK
  <2> QED BY <2>1, Zenon
<1>2. PICK new \in Seq(Seq(Messages)) : /\ new = Pending(c)' /\ Len(new) = n + 1 /\ new[n + 1] = d
                                      /\ \A i \in 1 .. n : new[i] = Pending(c)[i]
  <2>1. /\ Pending(c)' \in Seq(Seq(Messages)) /\ Len(Pending(c)') = n + 1
        /\ \A i \in 1 .. n : Pending(c)'[i] = Pending(c)[i]
        /\ content.poConn = c => Pending(c)'[n + 1] = content.data
        /\ content.poConn # c => Pending(c)'[n + 1] = <<>>
    BY <1>1, PendingNew
  <2>2. Pending(c)'[n + 1] = d
    BY <2>1, Zenon
  <2> QED BY <2>1, <2>2, Zenon
<1>3. Pending(c) \in Seq(Seq(Messages)) /\ Len(Pending(c)) = n /\ CutInto(owed[c], Pending(c))
  BY <1>1, PendingFacts, Zenon DEF PendingOK, OwedInv
<1>4. owed[c] \in Seq(Messages)
  BY DEF TypeOK
<1>5. PICK s \in Seq(Messages) : s = owed[c]
  BY <1>4, Zenon
<1>6. PICK parts \in Seq(Seq(Messages)) : parts = Pending(c)
  BY <1>3, Zenon
<1>7. /\ CutInto(s, parts) /\ n = Len(parts) /\ Len(new) = n + 1 /\ new[n + 1] = d
      /\ \A i \in 1 .. n : new[i] = parts[i]
  BY <1>2, <1>3, <1>5, <1>6, Zenon
<1>8. CutInto(s \o d, new)
  <2>1. Longer(Messages, s, d, parts, n, new)
    BY <1>7, Zenon DEF Longer
  <2> QED BY <1>7, <2>1, CutLonger, Zenon
<1> QED BY <1>2, <1>5, <1>8, Zenon

\* A packet without messages, which is no merge packet, comes.
LEMMA OwedPlain ==
    ASSUME TypeOK, TypeOK', OwedInv, NEW p \in Packets, NEW content \in Contents,
           NewPacket(p, content), content.data = <<>>, ~content.merge,
           UNCHANGED <<conn, orphans, owed>>
    PROVE  OwedInv'
<1>1. UNCHANGED <<m_eState, m_poMergePacket, orphans, owed>>
  BY Zenon DEF conn
<1>2. PICK n \in Nat : n = Len(m_oSendQueue)
  <2>1. Len(m_oSendQueue) \in Nat
    BY DEF TypeOK, QueueOK
  <2> QED BY <2>1, Zenon
<1>3. /\ p \notin Range(m_oSendQueue) /\ Range(m_oSendQueue') = Range(m_oSendQueue) \union {p}
      /\ packet'[p] = content /\ \A q \in Packets : q # p => packet'[q] = packet[q]
      /\ Range(m_oSendQueue) \subseteq Packets
  BY Appended DEF TypeOK, QueueOK
<1>4. ASSUME NEW c \in Conns PROVE CutInto(owed[c], Pending(c))'
  <2>1. owed[c] \in Seq(Messages) /\ <<>> \in Seq(Messages)
    BY DEF TypeOK
  <2>2. owed'[c] = owed[c] \o <<>>
    BY <1>1, <2>1
  <2>3. CutInto(owed'[c], Pending(c)')
    BY <1>1, <2>1, <2>2, CutNew, Zenon
  <2> QED BY <2>3 DEF CutInto
<1>5. \A q \in Range(m_oSendQueue') : ~packet'[q].merge => packet'[q].data = <<>>
  BY <1>3, Zenon DEF OwedInv
<1>6. ASSUME NEW c \in Conns PROVE MergeLast(c)'
  <2>1. SUFFICES ASSUME m_poMergePacket'[c] # None, MergeGood(c)',
                        NEW i \in 1 .. Len(m_oSendQueue'), NEW j \in 1 .. Len(m_oSendQueue'),
                        m_oSendQueue'[j] = m_poMergePacket'[c], j < i
                 PROVE  Pending(c)'[i] = <<>>
    BY DEF MergeLast
  <2>2. /\ Len(m_oSendQueue') = n + 1
        /\ \A k \in 1 .. n : m_oSendQueue'[k] = m_oSendQueue[k]
        /\ \A k \in 1 .. n : Pending(c)'[k] = Pending(c)[k]
        /\ content.poConn = c => Pending(c)'[n + 1] = content.data
        /\ content.poConn # c => Pending(c)'[n + 1] = <<>>
    BY <1>1, <1>2, PendingNew
  <2>3. CASE i = n + 1
    BY <2>2, <2>3, Zenon
  <2>4. CASE i \in 1 .. n
    <3>1. j \in 1 .. n
      BY <2>1, <2>4
    <3>2. m_oSendQueue[j] = m_poMergePacket[c]
      BY <1>1, <2>1, <2>2, <3>1, Zenon
    <3>3. m_poMergePacket[c] \in Range(m_oSendQueue')  /\ m_poMergePacket[c] \notin orphans
          /\ packet'[m_poMergePacket[c]].poConn = c /\ packet'[m_poMergePacket[c]].merge
      BY <1>1, <2>1, Zenon DEF MergeGood
    <3>4. m_poMergePacket[c] \in Range(m_oSendQueue) /\ m_poMergePacket[c] # p
      BY <1>3, <3>3, Zenon
    <3>5. packet'[m_poMergePacket[c]] = packet[m_poMergePacket[c]]
      BY <1>3, <3>4, Zenon
    <3>6. m_poMergePacket[c] # None /\ MergeGood(c)
      BY <1>1, <2>1, <3>3, <3>4, <3>5, Zenon DEF MergeGood
    <3>7. Pending(c)[i] = <<>>
      BY <1>2, <2>1, <2>4, <3>1, <3>2, <3>6, Zenon DEF OwedInv, MergeLast
    <3> QED BY <2>2, <2>4, <3>7, Zenon
  <2> QED BY <2>1, <2>2, <2>3, <2>4
<1>7. \A c \in Conns : m_eState'[c] = None => owed'[c] = <<>>
  BY <1>1, Zenon DEF OwedInv
<1> QED BY <1>4, <1>5, <1>6, <1>7, Zenon DEF OwedInv

\* A message begins a new merge packet.
LEMMA OwedSendNew ==
    ASSUME IInv, TypeOK', OwedInv, NEW c \in Conns, NEW len \in Lengths, NEW p \in Packets, SendNew(c, len, p)
    PROVE  OwedInv'
<1>1. /\ MaySend(c, len) /\ Owes(c, len)
      /\ NewPacket(p, Written(PacketOf(c, TRUE), Message(c, len)))
      /\ m_poMergePacket' = [m_poMergePacket EXCEPT ![c] = p]
      /\ UNCHANGED <<m_eState, orphans>>
  BY Zenon DEF SendNew
<1>2. PICK m \in Messages : m = Message(c, len)
  BY <1>1, Taking, Zenon
<1>3. m_eState[c] \in Sending /\ owed' = [owed EXCEPT ![c] = Append(@, m)]
  BY <1>1, <1>2, Taking DEF Owes
<1>4. TypeOK /\ m_stClientAddr[c] \in Addrs
  BY <1>3, SendAssumption DEF IInv, AddrInv, Sending, States
<1>5. PICK content \in Contents :
         /\ content = Written(PacketOf(c, TRUE), m)
         /\ content.data = <<m>> /\ content.poConn = c /\ content.merge
  <2>1. PacketOf(c, TRUE) \in Contents /\ PacketOf(c, TRUE).poConn = c /\ PacketOf(c, TRUE).merge
        /\ PacketOf(c, TRUE).data = <<>> /\ PacketOf(c, TRUE).ulDataLen = HeadLen
    <3>1. HeadLen \in HeadLen .. MAX_PACKET_SIZE /\ <<>> \in Seq(Messages)
      BY SendAssumption
    <3> QED BY <1>4, <3>1 DEF PacketOf, Contents
  <2>2. /\ Written(PacketOf(c, TRUE), m) \in Contents
        /\ Written(PacketOf(c, TRUE), m).poConn = c /\ Written(PacketOf(c, TRUE), m).merge
    BY <2>1, Writing
  <2>3. m.len = len
    BY <1>2 DEF Message
  <2>4. HeadLen + LenLen + len <= MAX_PACKET_SIZE
    BY <1>1, SendAssumption DEF MaySend
  <2>5. Written(PacketOf(c, TRUE), m).data = Append(<<>>, m)
    BY <2>1, <2>3, <2>4, WrittenData, Zenon
  <2>6. Append(<<>>, m) = <<m>>
    OBVIOUS
  <2> QED BY <2>2, <2>5, <2>6, Zenon
<1>6. NewPacket(p, content)
  BY <1>1, <1>2, <1>5, Zenon
<1>7. PICK n \in Nat : n = Len(m_oSendQueue)
  <2>1. Len(m_oSendQueue) \in Nat
    BY <1>4 DEF TypeOK, QueueOK
  <2> QED BY <2>1, Zenon
<1>8. /\ p \notin Range(m_oSendQueue) /\ Range(m_oSendQueue') = Range(m_oSendQueue) \union {p}
      /\ packet'[p] = content /\ \A q \in Packets : q # p => packet'[q] = packet[q]
      /\ Range(m_oSendQueue) \subseteq Packets
  BY <1>4, <1>6, Appended DEF TypeOK, QueueOK
<1>9. owed \in [Conns -> Seq(Messages)] /\ m_poMergePacket \in [Conns -> Packets \union {None}]
  BY <1>4 DEF TypeOK
<1>10. ASSUME NEW d \in Conns PROVE CutInto(owed[d], Pending(d))'
  <2>1. owed[d] \in Seq(Messages) /\ <<>> \in Seq(Messages) /\ <<m>> \in Seq(Messages)
    BY <1>9
  <2>2. CASE d = c
    <3>1. owed'[d] = Append(owed[d], m)
      BY <1>3, <1>9, <2>2
    <3>2. owed'[d] = owed[d] \o <<m>>
      BY <2>1, <3>1, SMTT(30)
    <3>3. CutInto(owed'[d], Pending(d)')
      BY <1>1, <1>4, <1>5, <1>6, <2>1, <2>2, <3>2, CutNew, Zenon
    <3> QED BY <3>3 DEF CutInto
  <2>3. CASE d # c
    <3>1. owed'[d] = owed[d]
      BY <1>3, <1>9, <2>3
    <3>2. owed'[d] = owed[d] \o <<>>
      BY <2>1, <3>1
    <3>3. CutInto(owed'[d], Pending(d)')
      BY <1>1, <1>4, <1>5, <1>6, <2>1, <2>3, <3>2, CutNew, Zenon
    <3> QED BY <3>3 DEF CutInto
  <2> QED BY <2>2, <2>3
<1>11. \A q \in Range(m_oSendQueue') : ~packet'[q].merge => packet'[q].data = <<>>
  BY <1>5, <1>8, Zenon DEF OwedInv
<1>12. ASSUME NEW d \in Conns PROVE MergeLast(d)'
  <2>1. SUFFICES ASSUME m_poMergePacket'[d] # None, MergeGood(d)',
                        NEW i \in 1 .. Len(m_oSendQueue'), NEW j \in 1 .. Len(m_oSendQueue'),
                        m_oSendQueue'[j] = m_poMergePacket'[d], j < i
                 PROVE  Pending(d)'[i] = <<>>
    BY DEF MergeLast
  <2>2. /\ Len(m_oSendQueue') = n + 1
        /\ \A k \in 1 .. n : m_oSendQueue'[k] = m_oSendQueue[k] /\ m_oSendQueue[k] # p
        /\ \A k \in 1 .. n : Pending(d)'[k] = Pending(d)[k]
        /\ content.poConn # d => Pending(d)'[n + 1] = <<>>
    BY <1>1, <1>4, <1>6, <1>7, PendingNew
  <2>3. j \in 1 .. n
    BY <2>1, <2>2
  <2>4. m_oSendQueue'[j] # p /\ m_oSendQueue'[j] = m_oSendQueue[j]
    BY <2>2, <2>3, Zenon
  <2>5. d # c /\ m_poMergePacket'[d] = m_poMergePacket[d]
    BY <1>1, <1>9, <2>1, <2>4
  <2>6. CASE i = n + 1
    BY <1>5, <2>2, <2>5, <2>6, Zenon
  <2>7. CASE i \in 1 .. n
    <3>1. m_oSendQueue[j] = m_poMergePacket[d]
      BY <2>1, <2>4, <2>5, Zenon
    <3>2. m_poMergePacket[d] \in Range(m_oSendQueue') /\ m_poMergePacket[d] \notin orphans
          /\ packet'[m_poMergePacket[d]].poConn = d /\ packet'[m_poMergePacket[d]].merge
      <4>1. orphans' = orphans
        BY <1>1
      <4> QED BY <4>1, <2>1, <2>5 DEF MergeGood
    <3>3. m_poMergePacket[d] \in Range(m_oSendQueue) /\ m_poMergePacket[d] # p
      BY <1>8, <2>1, <2>4, <2>5, <3>2, Zenon
    <3>4. packet'[m_poMergePacket[d]] = packet[m_poMergePacket[d]]
      BY <1>8, <3>3, Zenon
    <3>5. m_poMergePacket[d] # None /\ MergeGood(d)
      BY <2>1, <2>5, <3>2, <3>3, <3>4, Zenon DEF MergeGood
    <3>6. Pending(d)[i] = <<>>
      BY <1>7, <2>1, <2>3, <2>7, <3>1, <3>5, Zenon DEF OwedInv, MergeLast
    <3> QED BY <2>2, <2>7, <3>6, Zenon
  <2> QED BY <2>1, <2>2, <2>6, <2>7
<1>13. ASSUME NEW d \in Conns, m_eState'[d] = None PROVE owed'[d] = <<>>
  <2>1. m_eState[d] = None /\ d # c
    BY <1>1, <1>3, <1>13, SendAssumption DEF Sending, States
  <2> QED BY <1>3, <1>9, <2>1 DEF OwedInv
<1> QED BY <1>10, <1>11, <1>12, <1>13, Zenon DEF OwedInv

\* A message is merged into the packet there is.
LEMMA OwedSendMerged ==
    ASSUME IInv, TypeOK', OwedInv, NEW c \in Conns, NEW len \in Lengths, SendMerged(c, len)
    PROVE  OwedInv'
<1>1. /\ MaySend(c, len) /\ Owes(c, len) /\ m_poMergePacket[c] # None /\ MergeGood(c)
      /\ HasRoom(m_poMergePacket[c], len)
      /\ packet' = [packet EXCEPT ![m_poMergePacket[c]] = Written(@, Message(c, len))]
      /\ UNCHANGED <<m_oSendQueue, m_eState, m_poMergePacket, orphans>>
  BY Zenon DEF SendMerged, Merges, conn
<1>2. PICK m \in Messages : m = Message(c, len)
  BY <1>1, Taking, Zenon
<1>3. m_eState[c] \in Sending /\ owed' = [owed EXCEPT ![c] = Append(@, m)]
  BY <1>1, <1>2, Taking DEF Owes
<1>4. TypeOK
  BY DEF IInv
<1>5. PICK p \in Packets : /\ p = m_poMergePacket[c] /\ p \in Range(m_oSendQueue) /\ p \notin orphans
                           /\ packet[p].poConn = c /\ packet[p].merge
  BY <1>1, <1>4 DEF MergeGood, TypeOK, QueueOK
<1>6. packet[p] \in Contents /\ packet \in [Packets -> {None} \union Contents]
  BY <1>4, <1>5 DEF TypeOK, QueueOK
<1>7. PICK content \in Contents :
         /\ content = Written(packet[p], m) /\ content.data = Append(packet[p].data, m)
         /\ content.poConn = c /\ content.merge
  <2>1. /\ Written(packet[p], m) \in Contents /\ Written(packet[p], m).poConn = c
        /\ Written(packet[p], m).merge
    BY <1>5, <1>6, Writing
  <2>2. m.len = len /\ len \in Nat
    BY <1>2, SendAssumption DEF Message
  <2>3. packet[p].ulDataLen + LenLen + m.len <= MAX_PACKET_SIZE
    <3>1. packet[p].ulDataLen \in Nat /\ LenLen \in Nat /\ MAX_PACKET_SIZE \in Nat
      BY <1>6, SendAssumption DEF Contents
    <3>2. MAX_PACKET_SIZE - packet[p].ulDataLen > len + LenLen
      BY <1>1, <1>5 DEF HasRoom
    <3> QED BY <2>2, <3>1, <3>2
  <2>4. Written(packet[p], m).data = Append(packet[p].data, m)
    BY <1>6, <2>3, WrittenData, Zenon
  <2> QED BY <2>1, <2>4, Zenon
<1>8. packet'[p] = content /\ \A q \in Packets : q # p => packet'[q] = packet[q]
  BY <1>1, <1>2, <1>5, <1>6, <1>7
<1>9. PICK n \in Nat : n = Len(m_oSendQueue)
  <2>1. Len(m_oSendQueue) \in Nat
    BY <1>4 DEF TypeOK, QueueOK
  <2> QED BY <2>1, Zenon
<1>10. PICK j \in 1 .. n : m_oSendQueue[j] = p
  <2>1. DOMAIN m_oSendQueue = 1 .. n
    BY <1>4, <1>9 DEF TypeOK, QueueOK
  <2> QED BY <1>5, <2>1, Zenon DEF Range
<1>11. \A i, k \in 1 .. n : m_oSendQueue[i] = m_oSendQueue[k] => i = k
  <2>1. DOMAIN m_oSendQueue = 1 .. n /\ IsInjective(m_oSendQueue)
    BY <1>4, <1>9 DEF TypeOK, QueueOK
  <2> QED BY <2>1 DEF IsInjective
<1>12. owed \in [Conns -> Seq(Messages)]
  BY <1>4 DEF TypeOK
\* Of each connection, what its packets hold now.
<1>13. ASSUME NEW d \in Conns
       PROVE  /\ Pending(d)' \in Seq(Seq(Messages)) /\ Len(Pending(d)') = n
              /\ Pending(d) \in Seq(Seq(Messages)) /\ Len(Pending(d)) = n
              /\ \A i \in 1 .. n : i # j \/ d # c => Pending(d)'[i] = Pending(d)[i]
              /\ d = c => Pending(d)'[j] = Append(Pending(d)[j], m)
  <2>1. PendingOK(d) /\ PendingOK(d)'
    BY <1>4, PendingFacts, PendingNext, Zenon
  <2>2. /\ Pending(d) \in Seq(Seq(Messages)) /\ Len(Pending(d)) = n
        /\ \A i \in 1 .. n : /\ m_oSendQueue[i] \in Packets
                             /\ IsOf(d, m_oSendQueue[i]) => Pending(d)[i] = packet[m_oSendQueue[i]].data
                             /\ ~IsOf(d, m_oSendQueue[i]) => Pending(d)[i] = <<>>
    BY <1>9, <2>1, Zenon DEF PendingOK
  <2>3. /\ Pending(d)' \in Seq(Seq(Messages)) /\ Len(Pending(d)') = n
        /\ \A i \in 1 .. n : /\ IsOf(d, m_oSendQueue[i])' => Pending(d)'[i] = packet'[m_oSendQueue[i]].data
                             /\ ~IsOf(d, m_oSendQueue[i])' => Pending(d)'[i] = <<>>
    <3>1. m_oSendQueue' = m_oSendQueue
      BY <1>1
    <3> QED BY <1>9, <2>1, <3>1, Zenon DEF PendingOK
  <2>4. ASSUME NEW i \in 1 .. n
        PROVE  IsOf(d, m_oSendQueue[i])' <=> IsOf(d, m_oSendQueue[i])
    <3>1. packet'[m_oSendQueue[i]].poConn = packet[m_oSendQueue[i]].poConn
      BY <1>5, <1>7, <1>8, <2>2, Zenon
    <3> QED BY <1>1, <3>1 DEF IsOf
  <2>5. ASSUME NEW i \in 1 .. n, i # j \/ d # c
        PROVE  Pending(d)'[i] = Pending(d)[i]
    <3>1. CASE IsOf(d, m_oSendQueue[i])
      <4>1. packet[m_oSendQueue[i]].poConn = d
        BY <3>1 DEF IsOf
      <4>2. m_oSendQueue[i] # p
        BY <1>5, <1>10, <1>11, <2>5, <4>1, Zenon
      <4>3. packet'[m_oSendQueue[i]] = packet[m_oSendQueue[i]]
        BY <1>8, <2>2, <4>2, Zenon
      <4> QED BY <2>2, <2>3, <2>4, <3>1, <4>3, Zenon
    <3>2. CASE ~IsOf(d, m_oSendQueue[i])
      BY <2>2, <2>3, <2>4, <3>2, Zenon
    <3> QED BY <3>1, <3>2
  <2>6. ASSUME d = c PROVE Pending(d)'[j] = Append(Pending(d)[j], m)
    <3>1. IsOf(d, m_oSendQueue[j])
      BY <1>5, <1>10, <2>6 DEF IsOf
    <3>2. Pending(d)[j] = packet[p].data /\ Pending(d)'[j] = packet'[p].data
      BY <1>10, <2>2, <2>3, <2>4, <3>1, Zenon
    <3> QED BY <1>7, <1>8, <3>2, Zenon
  <2> QED BY <2>2, <2>3, <2>5, <2>6, Zenon
<1>14. ASSUME NEW d \in Conns PROVE CutInto(owed[d], Pending(d))'
  <2>1. PICK s \in Seq(Messages) : s = owed[d]
    BY <1>12, Zenon
  <2>2. PICK parts \in Seq(Seq(Messages)) : parts = Pending(d)
    BY <1>13, Zenon
  <2>3. PICK new \in Seq(Seq(Messages)) : new = Pending(d)'
    BY <1>13, Zenon
  <2>4. CutInto(s, parts)
    BY <2>1, <2>2, Zenon DEF OwedInv
  <2>5. /\ Len(parts) = n /\ Len(new) = n
        /\ \A i \in 1 .. n : i # j \/ d # c => new[i] = parts[i]
        /\ d = c => new[j] = Append(parts[j], m)
    BY <1>13, <2>2, <2>3, Zenon
  <2>6. CASE d = c
    <3>1. owed'[d] = Append(s, m)
      BY <1>3, <1>12, <2>1, <2>6
    <3>2. ASSUME NEW i \in j + 1 .. n PROVE parts[i] = <<>>
      <4>1. i \in 1 .. n /\ j < i
        OBVIOUS
      <4>2. MergeLast(c)
        BY DEF OwedInv
      <4>3. Pending(c)[i] = <<>>
        BY <1>1, <1>5, <1>9, <1>10, <4>1, <4>2, Zenon DEF MergeLast
      <4> QED BY <2>2, <2>6, <4>3, Zenon
    <3>3. Grown(Messages, s, m, parts, n, j, new)
      BY <2>5, <2>6, <3>2, Zenon DEF Grown
    <3>4. CutInto(Append(s, m), new)
      BY <2>4, <3>3, CutGrown, Zenon
    <3>5. CutInto(owed'[d], Pending(d)')
      BY <2>3, <3>1, <3>4, Zenon
    <3> QED BY <3>5 DEF CutInto
  <2>7. CASE d # c
    <3>1. owed'[d] = s
      BY <1>3, <1>12, <2>1, <2>7
    <3>2. new = parts
      BY <2>5, <2>7, SeqEqual
    <3>3. CutInto(owed'[d], Pending(d)')
      BY <2>3, <2>4, <3>1, <3>2, Zenon
    <3> QED BY <3>3 DEF CutInto
  <2> QED BY <2>6, <2>7
<1>15. \A q \in Range(m_oSendQueue') : ~packet'[q].merge => packet'[q].data = <<>>
  <2>1. Range(m_oSendQueue) \subseteq Packets
    BY <1>4 DEF TypeOK, QueueOK
  <2>2. m_oSendQueue' = m_oSendQueue
    BY <1>1
  <2> QED BY <1>7, <1>8, <2>1, <2>2, Zenon DEF OwedInv
<1>16. ASSUME NEW d \in Conns PROVE MergeLast(d)'
  <2>1. SUFFICES ASSUME m_poMergePacket[d] # None, MergeGood(d)',
                        NEW i \in 1 .. n, NEW k \in 1 .. n,
                        m_oSendQueue[k] = m_poMergePacket[d], k < i
                 PROVE  Pending(d)'[i] = <<>>
    BY <1>1, <1>9 DEF MergeLast
  <2>2. CASE d = c
    <3>1. k = j
      BY <1>5, <1>10, <1>11, <2>1, <2>2, Zenon
    <3>2. Pending(c)[i] = <<>>
      BY <1>1, <1>9, <2>1, <2>2, Zenon DEF OwedInv, MergeLast
    <3>3. i # j
      BY <2>1, <3>1
    <3> QED BY <1>13, <2>2, <3>2, <3>3, Zenon
  <2>3. CASE d # c
    <3>1. m_poMergePacket[d] \in Range(m_oSendQueue) /\ m_poMergePacket[d] \notin orphans
          /\ packet'[m_poMergePacket[d]].poConn = d /\ packet'[m_poMergePacket[d]].merge
      BY <1>1, <2>1 DEF MergeGood
    <3>2. m_poMergePacket[d] # p
      BY <1>7, <1>8, <2>3, <3>1, Zenon
    <3>3. packet'[m_poMergePacket[d]] = packet[m_poMergePacket[d]]
      BY <1>4, <1>8, <3>1, <3>2 DEF TypeOK, QueueOK
    <3>4. MergeGood(d)
      BY <3>1, <3>3 DEF MergeGood
    <3>5. Pending(d)[i] = <<>>
      BY <1>9, <2>1, <3>4, Zenon DEF OwedInv, MergeLast
    <3> QED BY <1>13, <2>3, <3>5, Zenon
  <2> QED BY <2>2, <2>3
<1>17. ASSUME NEW d \in Conns, m_eState'[d] = None PROVE owed'[d] = <<>>
  <2>1. m_eState[d] = None /\ d # c
    BY <1>1, <1>3, <1>17, SendAssumption DEF Sending, States
  <2> QED BY <1>3, <1>12, <2>1 DEF OwedInv
<1> QED BY <1>14, <1>15, <1>16, <1>17, Zenon DEF OwedInv

\* What is behind a packet moves up when it is taken off.
LEMMA PendingPop ==
    ASSUME TypeOK, TypeOK', m_oSendQueue # <<>>, PopAndFree, NEW c \in Conns,
           NEW n \in Nat, n = Len(m_oSendQueue)
    PROVE  /\ n # 0 /\ Len(m_oSendQueue') = n - 1
           /\ \A i \in 1 .. n - 1 : m_oSendQueue'[i] = m_oSendQueue[i + 1]
           /\ m_oSendQueue[1] = First
           /\ Pending(c)' \in Seq(Seq(Messages)) /\ Len(Pending(c)') = n - 1
           /\ \A i \in 1 .. n - 1 : Pending(c)'[i] = Pending(c)[i + 1]
<1>1. /\ First \in Packets /\ Range(m_oSendQueue') = Range(m_oSendQueue) \ {First}
      /\ \A q \in Packets : q # First => packet'[q] = packet[q]
  BY Popped
<1>2. m_oSendQueue \in Seq(Packets) /\ m_oSendQueue' = Tail(m_oSendQueue)
      /\ orphans' = orphans \ {First}
  BY DEF TypeOK, QueueOK, PopAndFree
<1>3. /\ n # 0 /\ Len(m_oSendQueue') = n - 1 /\ m_oSendQueue[1] = First
      /\ \A i \in 1 .. n - 1 : m_oSendQueue'[i] = m_oSendQueue[i + 1]
  BY <1>2 DEF First
<1>4. \A i \in 1 .. n : /\ m_oSendQueue[i] \in Packets
                        /\ IsOf(c, m_oSendQueue[i]) => Pending(c)[i] = packet[m_oSendQueue[i]].data
                        /\ ~IsOf(c, m_oSendQueue[i]) => Pending(c)[i] = <<>>
  BY PendingFacts, Zenon DEF PendingOK
<1>5. /\ Pending(c)' \in Seq(Seq(Messages)) /\ Len(Pending(c)') = n - 1
      /\ \A i \in 1 .. n - 1 :
            /\ m_oSendQueue'[i] \in Range(m_oSendQueue')
            /\ IsOf(c, m_oSendQueue[i])' => Pending(c)'[i] = packet'[m_oSendQueue'[i]].data
            /\ ~IsOf(c, m_oSendQueue[i])' => Pending(c)'[i] = <<>>
  <2>1. PendingOK(c)'
    BY PendingNext, Zenon
  <2> QED BY <1>3, <2>1, Zenon DEF PendingOK
<1>6. ASSUME NEW i \in 1 .. n - 1
      PROVE  Pending(c)'[i] = Pending(c)[i + 1]
  <2>1. i + 1 \in 1 .. n
    OBVIOUS
  <2>2. PICK q \in Packets : q = m_oSendQueue[i + 1]
    BY <1>4, <2>1, Zenon
  <2>3. m_oSendQueue'[i] = q
    BY <1>3, <2>2, Zenon
  <2>4. q # First
    BY <1>1, <1>5, <2>3
  <2>5. packet'[q] = packet[q]
    BY <1>1, <2>4, Zenon
  <2>6. IsOf(c, m_oSendQueue[i])' <=> IsOf(c, m_oSendQueue[i + 1])
    BY <1>2, <2>2, <2>3, <2>4, <2>5 DEF IsOf
  <2>7. CASE IsOf(c, m_oSendQueue[i + 1])
    <3>1. Pending(c)'[i] = packet'[m_oSendQueue'[i]].data
      BY <1>5, <2>6, <2>7, Zenon
    <3>2. Pending(c)[i + 1] = packet[m_oSendQueue[i + 1]].data
      BY <1>4, <2>1, <2>7, Zenon
    <3> QED BY <2>2, <2>3, <2>5, <3>1, <3>2, Zenon
  <2>8. CASE ~IsOf(c, m_oSendQueue[i + 1])
    <3>1. Pending(c)'[i] = <<>>
      BY <1>5, <2>6, <2>8, Zenon
    <3>2. Pending(c)[i + 1] = <<>>
      BY <1>4, <2>1, <2>8, Zenon
    <3> QED BY <3>1, <3>2, Zenon
  <2> QED BY <2>7, <2>8, Zenon
<1> QED BY <1>3, <1>5, <1>6, Zenon

\* A packet is sent, or lost.
LEMMA OwedPop ==
    ASSUME TypeOK, TypeOK', OwedInv, m_oSendQueue # <<>>, PopAndFree, UNCHANGED m_eState,
           \A c \in Conns : m_poMergePacket'[c] \in {m_poMergePacket[c], None}
    PROVE  OwedInv'
<1>1. PICK n \in Nat : n = Len(m_oSendQueue)
  <2>1. Len(m_oSendQueue) \in Nat
    BY DEF TypeOK, QueueOK
  <2> QED BY <2>1, Zenon
<1>2. /\ First \in Packets /\ First \in Range(m_oSendQueue) /\ packet[First] \in Contents
      /\ Range(m_oSendQueue') = Range(m_oSendQueue) \ {First}
      /\ \A q \in Packets : q # First => packet'[q] = packet[q]
      /\ Range(m_oSendQueue) \subseteq Packets
  BY Popped DEF TypeOK, QueueOK
<1>3. orphans' = orphans \ {First}
  BY DEF PopAndFree
<1>4. /\ n # 0 /\ Len(m_oSendQueue') = n - 1 /\ m_oSendQueue[1] = First
      /\ \A i \in 1 .. n - 1 : m_oSendQueue'[i] = m_oSendQueue[i + 1]
  BY <1>1, Popped DEF TypeOK, QueueOK, PopAndFree, First
<1>5. ASSUME NEW c \in Conns
      PROVE  owed'[c] = SubSeq(owed[c], Len(Pending(c)[1]) + 1, Len(owed[c]))
  <2>1. owed[c] \in Seq(Messages) /\ owed \in [Conns -> Seq(Messages)]
    BY DEF TypeOK
  <2>2. /\ IsOf(c, First) => Pending(c)[1] = packet[First].data
        /\ ~IsOf(c, First) => Pending(c)[1] = <<>>
    <3>1. 1 \in 1 .. n
      BY <1>4
    <3> QED BY <1>1, <1>4, <3>1, PendingFacts, Zenon DEF PendingOK
  <2>3. CASE IsOf(c, First)
    <3>1. packet[First].poConn = c /\ First \notin orphans /\ c # None
      BY <2>3, SendAssumption DEF IsOf
    <3>2. owed' = [owed EXCEPT ![c] = SubSeq(@, Len(packet[First].data) + 1, Len(@))]
      BY <3>1 DEF PopAndFree
    <3> QED BY <2>1, <2>2, <2>3, <3>2
  <2>4. CASE ~IsOf(c, First)
    <3>1. owed'[c] = owed[c]
      <4>1. packet[First].poConn # c \/ First \in orphans
        BY <2>4 DEF IsOf
      <4>2. packet[First].poConn \in Conns \union {None}
        BY <1>2 DEF Contents
      <4> QED BY <2>1, <4>1, <4>2 DEF PopAndFree
    <3>2. SubSeq(owed[c], 0 + 1, Len(owed[c])) = owed[c]
      BY <2>1
    <3>3. Len(Pending(c)[1]) = 0
      BY <2>2, <2>4
    <3> QED BY <3>1, <3>2, <3>3, Zenon
  <2> QED BY <2>3, <2>4
<1>6. ASSUME NEW c \in Conns PROVE CutInto(owed[c], Pending(c))'
  <2>1. PICK s \in Seq(Messages) : s = owed[c]
    <3>1. owed[c] \in Seq(Messages)
      BY DEF TypeOK
    <3> QED BY <3>1, Zenon
  <2>2. PICK parts \in Seq(Seq(Messages)) : parts = Pending(c) /\ n = Len(parts)
    BY <1>1, PendingFacts, Zenon DEF PendingOK
  <2>3. PICK new \in Seq(Seq(Messages)) : /\ new = Pending(c)' /\ Len(new) = n - 1
                                        /\ \A i \in 1 .. n - 1 : new[i] = parts[i + 1]
    <3>1. /\ Pending(c)' \in Seq(Seq(Messages)) /\ Len(Pending(c)') = n - 1
          /\ \A i \in 1 .. n - 1 : Pending(c)'[i] = Pending(c)[i + 1]
      BY <1>1, PendingPop
    <3> QED BY <2>2, <3>1, Zenon
  <2>4. n \in Nat \ {0}
    BY <1>4
  <2>5. Shorter(Messages, s, parts, n, new)
    BY <2>2, <2>3, <2>4, Zenon DEF Shorter
  <2>6. CutInto(s, parts)
    BY <2>1, <2>2, Zenon DEF OwedInv
  <2>7. CutInto(SubSeq(s, Len(parts[1]) + 1, Len(s)), new)
    BY <2>5, <2>6, CutShorter, Zenon
  <2>8. CutInto(owed'[c], Pending(c)')
    BY <1>5, <2>1, <2>2, <2>3, <2>7, Zenon
  <2> QED BY <2>8 DEF CutInto
<1>7. \A q \in Range(m_oSendQueue') : ~packet'[q].merge => packet'[q].data = <<>>
  BY <1>2 DEF OwedInv
<1>8. ASSUME NEW c \in Conns PROVE MergeLast(c)'
  <2>1. SUFFICES ASSUME m_poMergePacket'[c] # None, MergeGood(c)',
                        NEW i \in 1 .. n - 1, NEW j \in 1 .. n - 1,
                        m_oSendQueue'[j] = m_poMergePacket'[c], j < i
                 PROVE  Pending(c)'[i] = <<>>
    BY <1>4 DEF MergeLast
  <2>2. m_poMergePacket'[c] = m_poMergePacket[c]
    BY <2>1
  <2>3. m_poMergePacket[c] \in Range(m_oSendQueue') /\ m_poMergePacket[c] \notin orphans'
        /\ packet'[m_poMergePacket[c]].poConn = c /\ packet'[m_poMergePacket[c]].merge
    BY <2>1, <2>2 DEF MergeGood
  <2>4. m_poMergePacket[c] \in Range(m_oSendQueue) /\ m_poMergePacket[c] # First
        /\ m_poMergePacket[c] \notin orphans
    BY <1>2, <1>3, <2>3
  <2>5. packet'[m_poMergePacket[c]] = packet[m_poMergePacket[c]]
    BY <1>2, <2>4
  <2>6. m_poMergePacket[c] # None /\ MergeGood(c)
    BY <2>1, <2>2, <2>3, <2>4, <2>5 DEF MergeGood
  <2>7. i + 1 \in 1 .. n /\ j + 1 \in 1 .. n /\ j + 1 < i + 1
    BY <2>1
  <2>8. m_oSendQueue[j + 1] = m_poMergePacket[c]
    BY <1>4, <2>1, <2>2, Zenon
  <2>9. Pending(c)[i + 1] = <<>>
    BY <1>1, <2>6, <2>7, <2>8, Zenon DEF OwedInv, MergeLast
  <2>10. Pending(c)'[i] = Pending(c)[i + 1]
    BY <1>1, PendingPop
  <2> QED BY <2>9, <2>10, Zenon
<1>9. ASSUME NEW c \in Conns, m_eState'[c] = None PROVE owed'[c] = <<>>
  <2>1. owed[c] = <<>>
    BY <1>9 DEF OwedInv
  <2>2. Len(Pending(c)[1]) \in Nat
    <3>1. Pending(c) \in Seq(Seq(Messages)) /\ n = Len(Pending(c)) /\ 1 \in 1 .. n
      BY <1>1, <1>4, PendingFacts DEF PendingOK
    <3> QED BY <3>1, PartLengths
  <2>3. SubSeq(<<>>, Len(Pending(c)[1]) + 1, 0) = <<>>
    BY <2>2
  <2> QED BY <1>5, <2>1, <2>3
<1> QED BY <1>6, <1>7, <1>8, <1>9, Zenon DEF OwedInv

\* The closed connections are freed, and what was owed to them with them.
LEMMA OwedFree ==
    ASSUME TypeOK, TypeOK', OwedInv, ProcClosedConn
    PROVE  OwedInv'
<1>1. PICK freed \in SUBSET Conns :
         /\ \A c \in freed : m_poMergePacket'[c] = None /\ owed'[c] = <<>>
         /\ \A c \in Conns \ freed : /\ m_eState'[c] = m_eState[c]
                                     /\ m_poMergePacket'[c] = m_poMergePacket[c]
                                     /\ owed'[c] = owed[c]
         /\ orphans' = orphans \union {p \in Range(m_oSendQueue) : packet[p].poConn \in freed}
         /\ m_oSendQueue' = m_oSendQueue /\ packet' = packet
  <2>1. {c \in Conns : m_eState[c] = "CLOSE"} \in SUBSET Conns
    OBVIOUS
  <2>2. PICK freed \in SUBSET Conns : freed = {c \in Conns : m_eState[c] = "CLOSE"}
    BY <2>1, Zenon
  <2>3. /\ m_eState' = [c \in Conns |-> IF c \in freed THEN None ELSE m_eState[c]]
        /\ m_poMergePacket' = [c \in Conns |-> IF c \in freed THEN None ELSE m_poMergePacket[c]]
        /\ orphans' = orphans \union {p \in Range(m_oSendQueue) : packet[p].poConn \in freed}
        /\ owed' = [c \in Conns |-> IF c \in freed THEN <<>> ELSE owed[c]]
        /\ m_oSendQueue' = m_oSendQueue /\ packet' = packet
    BY <2>2, Zenon DEF ProcClosedConn, queue
  <2>4. /\ \A c \in freed : m_poMergePacket'[c] = None /\ owed'[c] = <<>>
        /\ \A c \in Conns \ freed : /\ m_eState'[c] = m_eState[c]
                                    /\ m_poMergePacket'[c] = m_poMergePacket[c]
                                    /\ owed'[c] = owed[c]
    BY <2>3
  <2> QED BY <2>3, <2>4, Zenon
<1>2. PICK n \in Nat : n = Len(m_oSendQueue)
  <2>1. Len(m_oSendQueue) \in Nat
    BY DEF TypeOK, QueueOK
  <2> QED BY <2>1, Zenon
<1>3. ASSUME NEW c \in Conns
      PROVE  /\ Pending(c) \in Seq(Seq(Messages)) /\ Len(Pending(c)) = n
             /\ \A i \in 1 .. n : /\ m_oSendQueue[i] \in Range(m_oSendQueue)
                                  /\ IsOf(c, m_oSendQueue[i]) => Pending(c)[i] = packet[m_oSendQueue[i]].data
                                  /\ ~IsOf(c, m_oSendQueue[i]) => Pending(c)[i] = <<>>
             /\ Pending(c)' \in Seq(Seq(Messages)) /\ Len(Pending(c)') = n
             /\ \A i \in 1 .. n : /\ IsOf(c, m_oSendQueue[i])' => Pending(c)'[i] = packet[m_oSendQueue[i]].data
                                  /\ ~IsOf(c, m_oSendQueue[i])' => Pending(c)'[i] = <<>>
  <2>1. PendingOK(c) /\ PendingOK(c)'
    BY PendingFacts, PendingNext, Zenon
  <2> QED BY <1>1, <1>2, <2>1, Zenon DEF PendingOK
\* Packets of the connections freed are orphans now, and no others.
<1>4. ASSUME NEW c \in freed, NEW i \in 1 .. n PROVE Pending(c)'[i] = <<>>
  <2>1. ~IsOf(c, m_oSendQueue[i])'
    BY <1>1, <1>3, <1>4 DEF IsOf
  <2> QED BY <1>3, <2>1
<1>5. ASSUME NEW c \in Conns \ freed PROVE Pending(c)' = Pending(c)
  <2>1. ASSUME NEW i \in 1 .. n PROVE Pending(c)'[i] = Pending(c)[i]
    <3>1. IsOf(c, m_oSendQueue[i])' <=> IsOf(c, m_oSendQueue[i])
      BY <1>1, <1>3, <1>5 DEF IsOf
    <3> QED BY <1>3, <3>1
  <2> QED BY <1>3, <2>1, SeqEqual
<1>6. ASSUME NEW c \in Conns PROVE CutInto(owed[c], Pending(c))'
  <2>1. CASE c \in freed
    <3>1. CutInto(<<>>, Pending(c)')
      BY <1>3, <1>4, <2>1, CutNothing, Zenon
    <3>2. CutInto(owed'[c], Pending(c)')
      BY <1>1, <2>1, <3>1, Zenon
    <3> QED BY <3>2 DEF CutInto
  <2>2. CASE c \notin freed
    <3>1. CutInto(owed[c], Pending(c)) /\ owed'[c] = owed[c] /\ Pending(c)' = Pending(c)
      BY <1>1, <1>5, <2>2 DEF OwedInv
    <3>2. CutInto(owed'[c], Pending(c)')
      BY <3>1, Zenon
    <3> QED BY <3>2 DEF CutInto
  <2> QED BY <2>1, <2>2
<1>7. ASSUME NEW c \in Conns PROVE MergeLast(c)'
  <2>1. CASE c \in freed
    BY <1>1, <2>1 DEF MergeLast
  <2>2. CASE c \notin freed
    <3>1. Pending(c)' = Pending(c) /\ MergeLast(c) /\ m_poMergePacket'[c] = m_poMergePacket[c]
      BY <1>1, <1>5, <2>2 DEF OwedInv
    <3>2. MergeGood(c)' => MergeGood(c)
      BY <1>1, <3>1 DEF MergeGood
    <3> QED BY <1>1, <3>1, <3>2 DEF MergeLast
  <2> QED BY <2>1, <2>2
<1>8. \A c \in Conns : m_eState'[c] = None => owed'[c] = <<>>
  BY <1>1 DEF OwedInv
<1>9. \A q \in Range(m_oSendQueue') : ~packet'[q].merge => packet'[q].data = <<>>
  BY <1>1 DEF OwedInv
<1> QED BY <1>6, <1>7, <1>8, <1>9, Zenon DEF OwedInv

\* A connection that is made has nothing owed to it.
LEMMA OwedHandShake ==
    ASSUME TypeOK, OwedInv, NEW c \in Conns, NEW a \in Addrs, ReadHandShake2(c, a)
    PROVE  OwedInv'
<1>1. /\ m_eState[c] = None /\ m_eState' = [m_eState EXCEPT ![c] = "ESTABLISHED"]
      /\ owed' = [owed EXCEPT ![c] = <<>>]
      /\ UNCHANGED <<queue, orphans, m_poMergePacket>>
  BY DEF ReadHandShake2, Become
<1>2. owed \in [Conns -> Seq(Messages)] /\ m_eState \in [Conns -> {None} \union States]
  BY DEF TypeOK
<1>3. owed[c] = <<>>
  BY <1>1 DEF OwedInv
<1>4. owed' = owed
  BY <1>1, <1>2, <1>3
<1>5. "ESTABLISHED" # None
  BY SendAssumption DEF States
<1>6. \A d \in Conns : m_eState'[d] = None => m_eState[d] = None
  BY <1>1, <1>2, <1>5
<1> QED BY <1>1, <1>4, <1>6, OwedStill

LEMMA OwedInit == Init => OwedInv
<1> SUFFICES ASSUME Init PROVE OwedInv
  OBVIOUS
<1>1. /\ m_oSendQueue = <<>> /\ Len(m_oSendQueue) = 0 /\ Range(m_oSendQueue) = {}
      /\ \A c \in Conns : owed[c] = <<>> /\ m_poMergePacket[c] = None
  BY DEF Init, Range
<1>2. TypeOK
  BY InitInv DEF IInv
<1>3. ASSUME NEW c \in Conns PROVE CutInto(owed[c], Pending(c))
  <2>1. Pending(c) \in Seq(Seq(Messages)) /\ Len(Pending(c)) = 0
    BY <1>1, <1>2, PendingFacts, Zenon DEF PendingOK
  <2>2. 0 \in Nat /\ \A i \in 1 .. 0 : Pending(c)[i] = <<>>
    OBVIOUS
  <2>3. CutInto(<<>>, Pending(c))
    BY <2>1, <2>2, CutNothing, Zenon
  <2> QED BY <1>1, <2>3, Zenon
<1> QED BY <1>1, <1>3 DEF OwedInv, MergeLast

\* The steps of a connection that leave the queue alone.
LEMMA OwedConn ==
    ASSUME TypeOK, OwedInv, NEW c \in Conns,
           \/ \E a \in Addrs : ReadReconnect(c, a)
           \/ ReadBroken(c) \/ ReadClose(c)
           \/ \E len \in Lengths : SendRefused(c, len) \/ SendWild(c, len)
           \/ FinConnect(c) \/ FinClose(c) \/ DeadLink(c) \/ TickClose(c) \/ TickDisConnect(c)
    PROVE  OwedInv'
<1>1. /\ UNCHANGED <<queue, orphans, owed>>
      /\ m_eState' = m_eState \/ \E s \in States : m_eState' = [m_eState EXCEPT ![c] = s]
      /\ m_poMergePacket' = m_poMergePacket \/ m_poMergePacket' = [m_poMergePacket EXCEPT ![c] = None]
  BY DEF ReadReconnect, ReadBroken, ReadClose, SendRefused, SendWild, FinConnect, FinClose, DeadLink,
         TickClose, TickDisConnect, CloseConnect, DisConnect, Become, Cleared, States, conn
<1>2. /\ m_eState \in [Conns -> {None} \union States]
      /\ m_poMergePacket \in [Conns -> Packets \union {None}] /\ None \notin States
  BY SendAssumption DEF TypeOK
<1>3. \A d \in Conns : m_poMergePacket'[d] \in {m_poMergePacket[d], None}
  BY <1>1, <1>2
<1>4. \A d \in Conns : m_eState'[d] = None => m_eState[d] = None
  BY <1>1, <1>2
<1> QED BY <1>1, <1>3, <1>4, OwedStill

\* The steps that only go on.
LEMMA OwedGoOn ==
    ASSUME OwedInv,
           \/ Begin \/ ReadEnd \/ WriteWild \/ WriteAgain \/ WriteEnd \/ M2NEnd \/ TickEnd
           \/ UNCHANGED vars
    PROVE  OwedInv'
<1>1. UNCHANGED <<queue, conn, orphans, owed>>
  BY DEF Begin, ReadEnd, WriteWild, WriteAgain, WriteEnd, M2NEnd, TickEnd, vars
<1>2. UNCHANGED <<m_eState, m_poMergePacket>>
  BY <1>1, Zenon DEF conn
<1> QED BY <1>1, <1>2, OwedStill

\* The packets without messages.
LEMMA OwedPackets ==
    ASSUME IInv, TypeOK', OwedInv, NEW p \in Packets,
           \/ \E a \in Addrs : ReadReply(p, a)
           \/ \E c \in Conns : ReadHeartBeat(c, p) \/ KcpOutPut(c, p) \/ SendFinMsg(c, p)
    PROVE  OwedInv'
<1>1. /\ UNCHANGED <<conn, orphans, owed>>
      /\ \E content \in Contents : NewPacket(p, content) /\ content.data = <<>> /\ ~content.merge
  <2>1. ASSUME NEW a \in Addrs, ReadReply(p, a) PROVE <1>1!:
    <3>1. HeadLen \in HeadLen .. MAX_PACKET_SIZE
      BY SendAssumption
    <3>2. Reply(a) \in Contents /\ Reply(a).data = <<>> /\ ~Reply(a).merge
      BY <3>1 DEF Reply, Contents
    <3> QED BY <2>1, <3>2, Zenon DEF ReadReply
  <2>2. ASSUME NEW c \in Conns, ReadHeartBeat(c, p) \/ KcpOutPut(c, p) PROVE <1>1!:
    <3>1. m_eState[c] # None
      BY <2>2, SendAssumption DEF ReadHeartBeat, KcpOutPut, States
    <3>2. PacketOf(c, FALSE) \in Contents
      BY <3>1, PlainPacket
    <3>3. PacketOf(c, FALSE).data = <<>> /\ ~PacketOf(c, FALSE).merge
      BY DEF PacketOf
    <3> QED BY <2>2, <3>2, <3>3, Zenon DEF ReadHeartBeat, KcpOutPut
  <2>3. ASSUME NEW c \in Conns, SendFinMsg(c, p) PROVE <1>1!:
    <3>1. m_eState[c] # None
      BY <2>3, SendAssumption DEF SendFinMsg, States
    <3>2. Reply(m_stClientAddr[c]) \in Contents
      BY <3>1, PlainPacket
    <3>3. Reply(m_stClientAddr[c]).data = <<>> /\ ~Reply(m_stClientAddr[c]).merge
      BY DEF Reply
    <3> QED BY <2>3, <3>2, <3>3, Zenon DEF SendFinMsg
  <2> QED BY <2>1, <2>2, <2>3, Zenon
<1>2. TypeOK
  BY DEF IInv
<1>3. PICK content \in Contents : NewPacket(p, content) /\ content.data = <<>> /\ ~content.merge
  BY <1>1, Zenon
<1> QED BY <1>1, <1>2, <1>3, OwedPlain, Zenon

\* The steps of DoIOWrite that free a packet.
LEMMA OwedWrite ==
    ASSUME TypeOK, TypeOK', OwedInv, WriteSent \/ WriteError
    PROVE  OwedInv'
<1>1. m_oSendQueue # <<>> /\ PopAndFree /\ UNCHANGED m_eState
  BY DEF WriteSent, WriteError, conn
<1>2. m_poMergePacket \in [Conns -> Packets \union {None}]
  BY DEF TypeOK
<1>3. \A d \in Conns : m_poMergePacket'[d] \in {m_poMergePacket[d], None}
  BY <1>2 DEF WriteSent, WriteError, OnIOWrite, conn
<1> QED BY <1>1, <1>3, OwedPop

LEMMA OwedKeeps == IInv /\ TypeOK' /\ OwedInv /\ [Next]_vars => OwedInv'
<1> SUFFICES ASSUME IInv, TypeOK', OwedInv, [Next]_vars PROVE OwedInv'
  OBVIOUS
<1>1. TypeOK
  BY DEF IInv
<1>2. CASE Read
  BY <1>1, <1>2, OwedPackets, OwedHandShake, OwedConn, OwedGoOn, Zenon DEF Read
<1>3. CASE Write
  BY <1>1, <1>3, OwedWrite, OwedGoOn, Zenon DEF Write
<1>4. CASE ProcM2NMsg
  BY <1>1, <1>4, OwedSendMerged, OwedSendNew, OwedConn, OwedGoOn, Zenon DEF ProcM2NMsg
<1>5. CASE ProcConns
  BY <1>1, <1>5, OwedPackets, OwedConn, OwedFree, Zenon DEF ProcConns
<1>6. CASE Tick1S
  BY <1>1, <1>6, OwedConn, OwedGoOn, Zenon DEF Tick1S
<1>7. CASE Begin \/ UNCHANGED vars
  BY <1>7, OwedGoOn, Zenon
<1> QED BY <1>2, <1>3, <1>4, <1>5, <1>6, <1>7, Zenon DEF Next

\* Every message that SendUnreliable took for a connection is in the queue once, whole and
\* in its place, until its packet is sent or lost or the connection freed, however the
\* merge packets of connections come and go and whatever sizes they have: also after a
\* sendto has failed, until the memory that it freed is used.
THEOREM QueuedOnce == Spec => []QueuedAsTaken
<1>1. Init => OwedInv
  BY OwedInit
<1>2. IInv => TypeOK
  BY DEF IInv
<1>3. OwedInv => QueuedAsTaken
  BY Zenon DEF OwedInv, QueuedAsTaken
<1>4. IInv /\ IInv' /\ OwedInv /\ [Next]_vars => OwedInv'
  <2>1. IInv' => TypeOK'
    BY <1>2, PTL
  <2> QED BY <2>1, OwedKeeps
<1> QED BY <1>1, <1>3, <1>4, Invariance, PTL DEF Spec
===============================================================================
