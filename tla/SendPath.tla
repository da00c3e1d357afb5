------------------------------- MODULE SendPath -------------------------------
(* How a server's packets leave it: NetWork::NewPacket puts each into the queue  *)
(* m_oSendQueue, DoIOWrite sends and frees them, and messages that need not be   *)
(* reliable are merged into one packet as long as it waits.  A packet points to   *)
(* its connection (poConn) and a connection to its merge packet                  *)
(* (m_poMergePacket), and each is freed without asking the other.                 *)
(*                                                                              *)
(* Everything runs on the net thread, in passes of NetMgr::Proc; `phase` is where  *)
(* it is in one.  Epoll and connections are looked at every 2 ms by one cached      *)
(* clock, so both are due in a pass or none is.  Of a connection there remains       *)
(* whether it may send and when it is closed and freed (module NetConnect has it     *)
(* all), of a message its length.                                                    *)
EXTENDS Integers, FiniteSets, SequencesExt

CONSTANTS
    Conns,              \* places of the heap for connections
    Packets,            \* places of the heap for packets
    Addrs,
    Lengths,            \* of encoded messages
    MAX_PACKET_SIZE,
    HeadLen, LenLen,    \* sizeof(STNetMsgHead), sizeof(uint16_t)
    None

\* A message, with the address of its client when it was taken; and a packet.
Messages == [len : Lengths, addr : Addrs]

Contents ==
    [poConn : Conns \union {None}, addr : Addrs, merge : BOOLEAN, data : Seq(Messages),
     ulDataLen : HeadLen .. MAX_PACKET_SIZE]

\* Of EnmNetConnState, those a server's connection takes.
States == {"ESTABLISHED", "FIN_WAIT", "DISCONNET", "CLOSE"}

ASSUME SendAssumption ==
    /\ None \notin Conns \union Packets \union Addrs \union States
    /\ None \notin Contents
    /\ Lengths \subseteq Nat \ {0}
    /\ {MAX_PACKET_SIZE, HeadLen, LenLen} \subseteq Nat \ {0}
    /\ HeadLen + LenLen <= MAX_PACKET_SIZE

VARIABLES
    phase, due,         \* where the net thread is, and whether 2 ms have gone by
    m_oSendQueue,
    packet,             \* what is at each place for packets
    m_eState, m_stClientAddr, m_poMergePacket,  \* of each connection; CLOSE is closed and
                        \* not freed, None not there
    failed,             \* history: the worst sendto has failed with
    orphans,            \* history: queued packets whose connection was freed
    owed,               \* history: of each connection, the messages taken from the main
                        \* thread and neither sent nor lost with a packet
    wild                \* freed memory has been used

conn == <<m_eState, m_stClientAddr, m_poMergePacket>>
queue == <<m_oSendQueue, packet>>
vars == <<phase, due, queue, conn, failed, orphans, owed, wild>>
-------------------------------------------------------------------------------
\* NewPacket puts an allocated packet into the queue.
NewPacket(p, content) ==
    /\ packet[p] = None
    /\ packet' = [packet EXCEPT ![p] = content]
    /\ m_oSendQueue' = Append(m_oSendQueue, p)

NoMemory == \A p \in Packets : packet[p] # None

\* A packet of connection c, and one of nobody's: the head, and of what follows it only
\* the messages of a merge packet, which are written after.
PacketOf(c, merge) ==
    [poConn |-> c, addr |-> m_stClientAddr[c], merge |-> merge, data |-> <<>>, ulDataLen |-> HeadLen]
Reply(a) ==
    [poConn |-> None, addr |-> a, merge |-> FALSE, data |-> <<>>, ulDataLen |-> HeadLen]

\* WriteUnreliable writes a message where it fits, and nothing where it does not.
Written(content, m) ==
    LET size == content.ulDataLen + LenLen + m.len
    IN  IF size <= MAX_PACKET_SIZE
        THEN [content EXCEPT !.data = Append(@, m), !.ulDataLen = size]
        ELSE content

\* Mutant: the length in front of each message is not counted.
HasRoomBare(p, len) == MAX_PACKET_SIZE - packet[p].ulDataLen > len

\* Whether GetCurMergePacket finds room for one more message.
HasRoom(p, len) == MAX_PACKET_SIZE - packet[p].ulDataLen > len + LenLen

\* Whether c's m_poMergePacket is what it was set to.
MergeGood(c) ==
    LET p == m_poMergePacket[c]
    IN  /\ p \in Range(m_oSendQueue) \ orphans
        /\ packet[p].poConn = c
        /\ packet[p].merge

\* Whether GetCurMergePacket returns the packet there is, or must have another.
Merges(c, len) ==
    /\ m_poMergePacket[c] # None /\ MergeGood(c)
    /\ HasRoom(m_poMergePacket[c], len)

NoRoom(c, len) ==
    m_poMergePacket[c] # None => MergeGood(c) /\ ~HasRoom(m_poMergePacket[c], len)

\* ClearConnData, besides KCP.
Cleared(c) == m_poMergePacket' = [m_poMergePacket EXCEPT ![c] = None]

Become(c, s) == m_eState' = [m_eState EXCEPT ![c] = s]

CloseConnect(c) ==
    /\ m_eState[c] \notin {None, "CLOSE"}
    /\ Become(c, "CLOSE")
    /\ Cleared(c)
    /\ UNCHANGED <<phase, due, queue, m_stClientAddr, failed, orphans, owed, wild>>

DisConnect(c) ==
    /\ m_eState[c] = "ESTABLISHED"
    /\ Become(c, "DISCONNET")
-------------------------------------------------------------------------------
(* NetMgr::Proc *)

Begin ==
    /\ phase = "begin"
    /\ due' \in BOOLEAN
    /\ phase' = IF due' THEN "read" ELSE "m2n"
    /\ UNCHANGED <<queue, conn, failed, orphans, owed, wild>>

(* DoIORead: packets arrive, and are answered. *)

ReadReply(p, a) ==
    /\ phase = "read"
    /\ NewPacket(p, Reply(a))
    /\ UNCHANGED <<phase, due, conn, failed, orphans, owed, wild>>

\* The answer to a heartbeat is of its connection.
ReadHeartBeat(c, p) ==
    /\ phase = "read"
    /\ m_eState[c] \in {"ESTABLISHED", "FIN_WAIT"}
    /\ NewPacket(p, PacketOf(c, FALSE))
    /\ UNCHANGED <<phase, due, conn, failed, orphans, owed, wild>>

ReadHandShake2(c, a) ==
    /\ phase = "read"
    /\ m_eState[c] = None
    /\ Become(c, "ESTABLISHED")
    /\ m_stClientAddr' = [m_stClientAddr EXCEPT ![c] = a]
    /\ owed' = [owed EXCEPT ![c] = <<>>]
    /\ UNCHANGED <<phase, due, queue, m_poMergePacket, failed, orphans, wild>>

ReadReconnect(c, a) ==
    /\ phase = "read"
    /\ m_eState[c] \in {"ESTABLISHED", "DISCONNET"}
    /\ a # m_stClientAddr[c]
    /\ Become(c, "ESTABLISHED")
    /\ m_stClientAddr' = [m_stClientAddr EXCEPT ![c] = a]
    /\ UNCHANGED <<phase, due, queue, m_poMergePacket, failed, orphans, owed, wild>>

\* Numbers of segments that KCP cannot make sense of, and any packet while the
\* connection is disconnected.
ReadBroken(c) ==
    /\ phase = "read"
    /\ \/ DisConnect(c)
       \/ m_eState[c] \in {"DISCONNET", "FIN_WAIT"} /\ UNCHANGED m_eState
    /\ Cleared(c)
    /\ UNCHANGED <<phase, due, queue, m_stClientAddr, failed, orphans, owed, wild>>

ReadClose(c) == phase = "read" /\ CloseConnect(c)

ReadEnd ==
    /\ phase = "read"
    /\ phase' = "write"
    /\ UNCHANGED <<due, queue, conn, failed, orphans, owed, wild>>

(* DoIOWrite *)

First == Head(m_oSendQueue)

PopAndFree ==
    LET c == packet[First].poConn
    IN  /\ m_oSendQueue' = Tail(m_oSendQueue)
        /\ packet' = [packet EXCEPT ![First] = None]
        /\ orphans' = orphans \ {First}
        /\ owed' = IF c = None \/ First \in orphans THEN owed
                   ELSE [owed EXCEPT ![c] = SubSeq(@, Len(packet[First].data) + 1, Len(@))]

\* Mutant: the merge packet is not forgotten when it is sent.
OnIOWriteKeep(c) == UNCHANGED m_poMergePacket

\* NetConnect::OnIOWrite of the first packet.
OnIOWrite(c) ==
    m_poMergePacket' = [m_poMergePacket EXCEPT ![c] = IF @ = First THEN None ELSE @]

WriteSent ==
    LET c == packet[First].poConn
    IN  /\ phase = "write"
        /\ m_oSendQueue # <<>>
        /\ First \notin orphans
        /\ IF c = None THEN UNCHANGED m_poMergePacket ELSE OnIOWrite(c)
        /\ PopAndFree
        /\ UNCHANGED <<phase, due, m_eState, m_stClientAddr, failed, wild>>

\* OnIOWrite of a connection that was freed.
WriteWild ==
    /\ phase = "write"
    /\ m_oSendQueue # <<>>
    /\ First \in orphans
    /\ wild' = TRUE
    /\ UNCHANGED <<phase, due, queue, conn, failed, orphans, owed>>

\* The socket does not take more (DoIOWrite is not even called when epoll says so).
WriteAgain ==
    /\ phase = "write"
    /\ m_oSendQueue # <<>>
    /\ phase' = "m2n"
    /\ failed' = IF failed = "error" THEN failed ELSE "again"
    /\ UNCHANGED <<due, queue, conn, orphans, owed, wild>>

\* Mutant: a packet that cannot be sent is freed and stays in the queue.
WriteErrorFree ==
    /\ phase = "write"
    /\ m_oSendQueue # <<>>
    /\ packet' = [packet EXCEPT ![First] = None]
    /\ phase' = "m2n"
    /\ failed' = "error"
    /\ UNCHANGED <<due, m_oSendQueue, conn, orphans, owed, wild>>

\* Another error: the packet goes, its connection is not told, the rest waits.
WriteError ==
    /\ phase = "write"
    /\ m_oSendQueue # <<>>
    /\ PopAndFree
    /\ phase' = "m2n"
    /\ failed' = "error"
    /\ UNCHANGED <<due, conn, wild>>

WriteEnd ==
    /\ phase = "write"
    /\ m_oSendQueue = <<>>
    /\ phase' = "m2n"
    /\ UNCHANGED <<due, queue, conn, failed, orphans, owed, wild>>

(* ProcM2NMsg: what the main thread asks for. *)

Message(c, len) == [len |-> len, addr |-> m_stClientAddr[c]]

Owes(c, len) == owed' = [owed EXCEPT ![c] = Append(@, Message(c, len))]

MaySend(c, len) ==
    /\ phase = "m2n"
    /\ m_eState[c] = "ESTABLISHED"
    /\ len <= MAX_PACKET_SIZE - HeadLen - LenLen

\* SendUnreliable into the packet there is ...
SendMerged(c, len) ==
    LET p == m_poMergePacket[c]
    IN  /\ MaySend(c, len)
        /\ Merges(c, len)
        /\ packet' = [packet EXCEPT ![p] = Written(@, Message(c, len))]
        /\ Owes(c, len)
        /\ UNCHANGED <<phase, due, m_oSendQueue, conn, failed, orphans, wild>>

\* ... or a new one ...
SendNew(c, len, p) ==
    /\ MaySend(c, len)
    /\ NoRoom(c, len)
    /\ NewPacket(p, Written(PacketOf(c, TRUE), Message(c, len)))
    /\ m_poMergePacket' = [m_poMergePacket EXCEPT ![c] = p]
    /\ Owes(c, len)
    /\ UNCHANGED <<phase, due, m_eState, m_stClientAddr, failed, orphans, wild>>

\* ... which may not be had: the message is refused.
SendRefused(c, len) ==
    /\ MaySend(c, len)
    /\ NoRoom(c, len)
    /\ NoMemory
    /\ Cleared(c)
    /\ UNCHANGED <<phase, due, queue, m_eState, m_stClientAddr, failed, orphans, owed, wild>>

\* The merge packet has been freed.
SendWild(c, len) ==
    /\ MaySend(c, len)
    /\ m_poMergePacket[c] # None /\ ~MergeGood(c)
    /\ wild' = TRUE
    /\ UNCHANGED <<phase, due, queue, conn, failed, orphans, owed>>

\* FinConnect lets a connection finish, and closes one that is disconnected.
FinConnect(c) ==
    /\ phase = "m2n"
    /\ m_eState[c] = "ESTABLISHED"
    /\ Become(c, "FIN_WAIT")
    /\ UNCHANGED <<phase, due, queue, m_stClientAddr, m_poMergePacket, failed, orphans, owed, wild>>

FinClose(c) ==
    /\ phase = "m2n"
    /\ m_eState[c] = "DISCONNET"
    /\ CloseConnect(c)

M2NEnd ==
    /\ phase = "m2n"
    /\ phase' = IF due THEN "conns" ELSE "tick"
    /\ UNCHANGED <<due, queue, conn, failed, orphans, owed, wild>>

(* NetConnectMgr::Proc *)

\* KcpOutPut and Send2NetWork of what KCP sends at its update.
KcpOutPut(c, p) ==
    /\ phase = "conns"
    /\ m_eState[c] \in {"ESTABLISHED", "FIN_WAIT"}
    /\ NewPacket(p, PacketOf(c, FALSE))
    /\ UNCHANGED <<phase, due, conn, failed, orphans, owed, wild>>

DeadLink(c) ==
    /\ phase = "conns"
    /\ DisConnect(c)
    /\ UNCHANGED <<phase, due, queue, m_stClientAddr, m_poMergePacket, failed, orphans, owed, wild>>

\* The FIN belongs to nobody.
SendFinMsg(c, p) ==
    /\ phase = "conns"
    /\ m_eState[c] = "FIN_WAIT"
    /\ NewPacket(p, Reply(m_stClientAddr[c]))
    /\ UNCHANGED <<phase, due, conn, failed, orphans, owed, wild>>

\* ProcClosedConn frees the connections that are closed.
ProcClosedConn ==
    LET freed == {c \in Conns : m_eState[c] = "CLOSE"}
    IN  /\ phase = "conns"
        /\ m_eState' = [c \in Conns |-> IF c \in freed THEN None ELSE m_eState[c]]
        /\ m_poMergePacket' = [c \in Conns |-> IF c \in freed THEN None ELSE m_poMergePacket[c]]
        /\ m_stClientAddr' = [c \in Conns |-> IF c \in freed THEN None ELSE m_stClientAddr[c]]
        /\ orphans' = orphans \union {p \in Range(m_oSendQueue) : packet[p].poConn \in freed}
        /\ owed' = [c \in Conns |-> IF c \in freed THEN <<>> ELSE owed[c]]
        /\ phase' = "tick"
        /\ UNCHANGED <<due, queue, failed, wild>>

(* Tick1S *)

TickClose(c) == phase = "tick" /\ CloseConnect(c)

TickDisConnect(c) ==
    /\ phase = "tick"
    /\ DisConnect(c)
    /\ UNCHANGED <<phase, due, queue, m_stClientAddr, m_poMergePacket, failed, orphans, owed, wild>>

TickEnd ==
    /\ phase = "tick"
    /\ phase' = "begin"
    /\ due' = FALSE
    /\ UNCHANGED <<queue, conn, failed, orphans, owed, wild>>
-------------------------------------------------------------------------------
Init ==
    /\ phase = "begin" /\ due = FALSE
    /\ m_oSendQueue = <<>>
    /\ packet = [p \in Packets |-> None]
    /\ m_eState = [c \in Conns |-> None]
    /\ m_stClientAddr = [c \in Conns |-> None]
    /\ m_poMergePacket = [c \in Conns |-> None]
    /\ failed = "no"
    /\ orphans = {}
    /\ owed = [c \in Conns |-> <<>>]
    /\ wild = FALSE

Read ==
    \/ \E p \in Packets, a \in Addrs : ReadReply(p, a)
    \/ \E c \in Conns, p \in Packets : ReadHeartBeat(c, p)
    \/ \E c \in Conns, a \in Addrs : ReadHandShake2(c, a)
    \/ \E c \in Conns, a \in Addrs : ReadReconnect(c, a)
    \/ \E c \in Conns : ReadBroken(c)
    \/ \E c \in Conns : ReadClose(c)
    \/ ReadEnd

Write == WriteSent \/ WriteWild \/ WriteAgain \/ WriteError \/ WriteEnd

ProcM2NMsg ==
    \/ \E c \in Conns, len \in Lengths : SendMerged(c, len)
    \/ \E c \in Conns, len \in Lengths, p \in Packets : SendNew(c, len, p)
    \/ \E c \in Conns, len \in Lengths : SendRefused(c, len)
    \/ \E c \in Conns, len \in Lengths : SendWild(c, len)
    \/ \E c \in Conns : FinConnect(c)
    \/ \E c \in Conns : FinClose(c)
    \/ M2NEnd

ProcConns ==
    \/ \E c \in Conns, p \in Packets : KcpOutPut(c, p)
    \/ \E c \in Conns : DeadLink(c)
    \/ \E c \in Conns, p \in Packets : SendFinMsg(c, p)
    \/ ProcClosedConn

Tick1S ==
    \/ \E c \in Conns : TickClose(c)
    \/ \E c \in Conns : TickDisConnect(c)
    \/ TickEnd

\* Once freed memory has been used, nothing is said any more.
Next ==
    \/ ~wild /\ (Begin \/ Read \/ Write \/ ProcM2NMsg \/ ProcConns \/ Tick1S)
    \/ wild /\ UNCHANGED vars

Spec == Init /\ [][Next]_vars
-------------------------------------------------------------------------------

\* The packets allocated are those in the queue, each once; and none holds more than it
\* has room for, so that the room left is never negative.
QueueOK ==
    /\ packet \in [Packets -> {None} \union Contents]
    /\ m_oSendQueue \in Seq(Packets)
    /\ IsInjective(m_oSendQueue)
    /\ Range(m_oSendQueue) = {p \in Packets : packet[p] # None}
    /\ orphans \subseteq Range(m_oSendQueue)

\* Types, with those of the queue.
TypeOK ==
    /\ QueueOK
    /\ phase \in {"begin", "read", "write", "m2n", "conns", "tick"}
    /\ due \in BOOLEAN
    /\ m_eState \in [Conns -> {None} \union States]
    /\ m_stClientAddr \in [Conns -> Addrs \union {None}]
    /\ m_poMergePacket \in [Conns -> Packets \union {None}]
    /\ failed \in {"no", "again", "error"}
    /\ owed \in [Conns -> Seq(Messages)]
    /\ wild \in BOOLEAN

\* The callbacks between packets and connections reach what they are meant for.  A
\* connection's merge packet is one of its own in the queue, as long as no sendto ends in
\* an error; a queued packet's connection is not freed, and its address is
\* that of the client when the messages in it were taken, as long as sendto takes all
\* there is: what is queued in one pass is sent in the next, before any connection
\* that was closed in between is freed.
PointersSound ==
    /\ failed # "error" => \A c \in Conns : m_poMergePacket[c] # None => MergeGood(c)
    /\ failed = "no" => /\ orphans = {} /\ ~wild
                        /\ \A p \in Range(m_oSendQueue) : \A i \in 1 .. Len(packet[p].data) :
                              packet[p].data[i].addr = packet[p].addr

\* Of each place in the queue, the messages that a packet of connection c has there.
Pending(c) ==
    [i \in 1 .. Len(m_oSendQueue) |->
        IF m_oSendQueue[i] \notin orphans /\ packet[m_oSendQueue[i]].poConn = c
        THEN packet[m_oSendQueue[i]].data ELSE <<>>]

\* The sequence s is cut into these parts.
CutInto(s, parts) ==
    \E at \in [0 .. Len(parts) -> 0 .. Len(s)] :
        /\ at[0] = 0 /\ at[Len(parts)] = Len(s)
        /\ \A i \in 1 .. Len(parts) :
              /\ at[i] = at[i - 1] + Len(parts[i])
              /\ \A k \in 1 .. Len(parts[i]) : s[at[i - 1] + k] = parts[i][k]

\* The messages that SendUnreliable took are in the queue, each once, whole and in their
\* order, also across a disconnection, which makes the connection forget its
\* merge packet, and the reconnection after it.
QueuedAsTaken == ~wild => \A c \in Conns : CutInto(owed[c], Pending(c))
===============================================================================
