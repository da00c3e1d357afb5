------------------------------- MODULE Pipeline -------------------------------
(* NetMgr: what the main thread asks of connections goes to the net thread      *)
(* through m_oM2NQueue, news of connections and their data come back through     *)
(* m_oN2MQueue, and both threads build and read messages in one m_szMsgBuffer.  *)
(*                                                                              *)
(* The rings are the FIFOs of whole messages that RingQueue is proved to be; a   *)
(* Push, a Pop or the filling of the buffer is one step of a thread.  A message  *)
(* is a sequence of cells: a head (sizeof(STSendMsgHead) = sizeof(STRecvMsgHead),*)
(* both packed, with the type first), ids, and cells of data.                   *)
EXTENDS Integers, SequencesExt

CONSTANTS
    Conns,          \* connection ids, numbers; none is used twice in a behaviour
    Texts,          \* data of PROTO messages
    Length,         \* cells of each text, each event, "bind", "close" and "quiet"
    MAX_BIZ_MSG_SIZE,
    QueueLen,       \* how many messages a ring has room for
    LoopMax,        \* 1000 in ProcM2NMsg
    Shift,          \* 256, what moving a number by one byte multiplies it with
    Requests,       \* what the main thread pushes by itself with GetM2NQueue()
    Lists,          \* what it calls SendMsg and BroadcastMsg with: lists of ids
    Overlap,        \* do these calls and RecvMsg overlap with what the net thread does?
    MaxAsk, MaxNews \* bounds: requests and news of a behaviour

Phases == {"connected", "disconnected", "closed", "closed twice"}
Events == Phases \cup {"bind"}

\* The data of CLOSE: STCloseConnMsg with a reason, and with CLOSE_REASON_NONE.
CloseMsgs == {"close", "quiet"}

\* A request the main thread may well push: with a list, with data of the kind and
\* length its type asks for.
WellFormed(r) ==
    /\ r \in [type : {"PROTO", "BIND", "CLOSE"}, conns : Seq(Conns), data : Texts \cup {"bind"} \cup CloseMsgs]
    /\ r.type = "PROTO" => r.data \in Texts
    /\ r.type = "BIND" => r.data = "bind"
    /\ r.type = "CLOSE" => r.data \in CloseMsgs
    /\ Len(r.conns) > 0 /\ Length[r.data] > 0
    /\ 1 + Len(r.conns) + Length[r.data] <= MAX_BIZ_MSG_SIZE

ASSUME PipelineAssumption ==
    /\ Length \in [Texts \cup Events \cup CloseMsgs -> Nat]
    /\ Conns \subseteq Nat \ {0}
    /\ {MAX_BIZ_MSG_SIZE, Shift} \subseteq Nat \ {0}
    /\ {QueueLen, LoopMax, MaxAsk, MaxNews} \subseteq Nat
    /\ Overlap \in BOOLEAN
    /\ \A e \in Events \cup CloseMsgs : Length[e] \in 1 .. MAX_BIZ_MSG_SIZE
    /\ Length["quiet"] = Length["close"]
    /\ \A r \in Requests : WellFormed(r)
    /\ Lists \subseteq Seq(Conns)

VARIABLES
    m_oM2NQueue, m_oN2MQueue,
    memory,     \* m_szMsgBuffer, and behind it m_bIsClient
    mpc, mlen,  \* the main thread: where it is, the length it pushes
    npc, ret,   \* the net thread: where it is, and where SendN2MMsg returns to
    news,       \* the news SendN2MMsg is pushing
    i, ulMsgLen, ptrData, iMsgNum,  \* its variables in ProcM2NMsg
    told,       \* what the last event about a connection said (see ConnEvents)
    found,      \* the connections GetConnByID finds
    fin,        \* those in FIN_WAIT1 or later, told "connected" until they close
    bound,      \* those with bind data
    silent,     \* those closed without an event, when told "disconnected"
    asks,       \* how often it has asked for something
    asked,      \* history: the requests m_oM2NQueue accepted from it
    looked,     \* history: what ProcM2NMsg carried out of each message, one by one
    notified, heard,    \* history: the news accepted, and got by the main thread
    lost        \* history: whose news m_oN2MQueue had no room for

main == <<mpc, mlen>>
conns == <<told, found, fin, bound, silent>>
pass == <<i, ulMsgLen, ptrData, iMsgNum>>
requests == <<asks, asked>>
up == <<notified, heard, lost>>
vars == <<m_oM2NQueue, m_oN2MQueue, memory, main, npc, ret, news, pass, conns, requests, looked, up>>
-------------------------------------------------------------------------------
(* Messages. *)
BufLen == 1 + MAX_BIZ_MSG_SIZE
IsClient == BufLen      \* where m_bIsClient is in memory

SendHead(type, cnt, len) == [head |-> "send", type |-> type, iConnCnt |-> cnt, iDataLen |-> len]
RecvHead(type, c, len) == [head |-> "recv", type |-> type, ulConnID |-> c, iDataLen |-> len]
Data(d) == [k \in 1 .. Length[d] |-> [data |-> d, at |-> k]]

SendCells(r) ==
    <<SendHead(r.type, Len(r.conns), Length[r.data])>>
        \o [k \in 1 .. Len(r.conns) |-> [id |-> r.conns[k]]] \o Data(r.data)

RecvCells(n) == <<RecvHead(n.type, n.conn, Length[n.data])>> \o Data(n.data)

\* What memory is once cells are copied to the buffer, whatever their number.
Filled(cells) == [o \in 0 .. BufLen |-> IF o < Len(cells) THEN cells[o + 1] ELSE memory[o]]

\* len cells from offset o; behind the known memory there is something else.
At(o) == IF o \in 0 .. BufLen THEN memory[o] ELSE [other |-> "unknown"]
Cells(o, len) == [k \in 1 .. len |-> At(o + k - 1)]

\* The fields of the head in the buffer as ProcM2NMsg reads them: in a head that
\* SendN2MMsg left there, iConnCnt lies over bIsProc, which is 0, and ulConnID,
\* and iDataLen over the end of ulConnID, also 0, and iDataLen.
Type == memory[0].type
IsSend == memory[0].head = "send"
ConnCnt == IF IsSend THEN memory[0].iConnCnt ELSE Shift * memory[0].ulConnID
DataLen == IF IsSend THEN memory[0].iDataLen ELSE Shift * memory[0].iDataLen
-------------------------------------------------------------------------------
(* The main thread. *)
\* A thread begins a call that uses the buffer.  Without Overlap the other thread
\* is between two of its own.
MainBegins == mpc = "idle" /\ (Overlap \/ npc = "io")
NetBegins == npc = "io" /\ (Overlap \/ mpc = "idle")

\* It builds a well-formed message itself.
PushM2N(r) ==
    /\ mpc = "idle" /\ asks < MaxAsk
    /\ Len(m_oM2NQueue) < QueueLen
    /\ m_oM2NQueue' = Append(m_oM2NQueue, SendCells(r))
    /\ asked' = Append(asked, r)
    /\ asks' = asks + 1
    /\ UNCHANGED <<m_oN2MQueue, memory, main, npc, ret, news, pass, conns, looked, up>>

\* SendMsg (a list of one) and BroadcastMsg: the message is put together in the
\* buffer.  The length pushed is iLen + sizeof(stHead), without the list.
SendMsg(list, d) ==
    /\ MainBegins /\ asks < MaxAsk
    /\ Length[d] <= MAX_BIZ_MSG_SIZE
    /\ memory' = Filled(SendCells([type |-> "PROTO", conns |-> list, data |-> d]))
    /\ mlen' = Length[d] + 1
    /\ mpc' = "push"
    /\ asks' = asks + 1
    /\ UNCHANGED <<m_oM2NQueue, m_oN2MQueue, npc, ret, news, pass, conns, asked, looked, up>>

\* ... and pushed, if there is room.
SendMsgPush ==
    /\ mpc = "push"
    /\ mpc' = "idle"
    /\ m_oM2NQueue' = IF Len(m_oM2NQueue) < QueueLen THEN Append(m_oM2NQueue, Cells(0, mlen)) ELSE m_oM2NQueue
    /\ UNCHANGED <<m_oN2MQueue, memory, mlen, npc, ret, news, pass, conns, requests, looked, up>>

\* It takes a message out into memory of its own.
PopN2M ==
    /\ mpc = "idle"
    /\ m_oN2MQueue # <<>>
    /\ heard' = Append(heard, Head(m_oN2MQueue))
    /\ m_oN2MQueue' = Tail(m_oN2MQueue)
    /\ UNCHANGED <<m_oM2NQueue, memory, main, npc, ret, news, pass, conns, requests, looked, notified, lost>>

\* RecvMsg pops into the shared buffer ...
RecvMsgPop ==
    /\ MainBegins
    /\ m_oN2MQueue # <<>>
    /\ memory' = Filled(Head(m_oN2MQueue))
    /\ m_oN2MQueue' = Tail(m_oN2MQueue)
    /\ mpc' = "read"
    /\ UNCHANGED <<m_oM2NQueue, mlen, npc, ret, news, pass, conns, requests, looked, up>>

\* ... and copies the data out of it, without the head, if that is one of news with
\* data of a good length (in a request's, of less than 256 bytes, it reads length 0).
RecvMsgRead ==
    /\ mpc = "read"
    /\ mpc' = "idle"
    /\ heard' = IF ~IsSend /\ memory[0].iDataLen \in 1 .. MAX_BIZ_MSG_SIZE
                THEN Append(heard, Cells(1, memory[0].iDataLen)) ELSE heard
    /\ UNCHANGED <<m_oM2NQueue, m_oN2MQueue, memory, mlen, npc, ret, news, pass, conns, requests, looked, notified, lost>>
-------------------------------------------------------------------------------
(* News: NotifyConnEvent and SendN2MMsg. *)
\* SendN2MMsg fills the buffer; it will go on at to.
SendN2MMsg(n, to) ==
    /\ news' = n
    /\ memory' = Filled(RecvCells(n))
    /\ npc' = "push" /\ ret' = to

NotifyConnEvent(c, e, to) == SendN2MMsg([type |-> "EVENT", conn |-> c, data |-> e], to)

\* Mutant: the length pushed leaves the head out.
SendN2MPushShort ==
    /\ npc = "push"
    /\ npc' = ret
    /\ IF Len(m_oN2MQueue) < QueueLen
       THEN /\ m_oN2MQueue' = Append(m_oN2MQueue, Cells(0, Length[news.data]))
            /\ notified' = Append(notified, RecvCells(news))
            /\ UNCHANGED lost
       ELSE /\ lost' = lost \cup {news.conn}
            /\ UNCHANGED <<m_oN2MQueue, notified>>
    /\ UNCHANGED <<m_oM2NQueue, memory, main, ret, news, pass, conns, requests, looked, heard>>

\* It pushes it.  No caller does anything about a refusal.
SendN2MPush ==
    /\ npc = "push"
    /\ npc' = ret
    /\ IF Len(m_oN2MQueue) < QueueLen
       THEN /\ m_oN2MQueue' = Append(m_oN2MQueue, Cells(0, 1 + Length[news.data]))
            /\ notified' = Append(notified, RecvCells(news))
            /\ UNCHANGED lost
       ELSE /\ lost' = lost \cup {news.conn}
            /\ UNCHANGED <<m_oN2MQueue, notified>>
    /\ UNCHANGED <<m_oM2NQueue, memory, main, ret, news, pass, conns, requests, looked, heard>>

CE == INSTANCE ConnEvents WITH Objs <- Conns

\* A packet or a timeout changes a connection (see NetConnect), and it says so.
ConnEvent(c, e) ==
    /\ NetBegins /\ Len(notified) < MaxNews
    /\ <<told[c], e>> \in CE!Follows /\ c \notin silent
    /\ c \in fin => e \notin {"connected", "disconnected"}
    /\ told' = [told EXCEPT ![c] = e]
    /\ found' = found \cup {c}
    /\ NotifyConnEvent(c, e, "io")
    /\ UNCHANGED <<m_oM2NQueue, m_oN2MQueue, main, pass, fin, bound, silent, requests, looked, up>>

\* RecvOneMsg: data from the peer.
ConnData(c, d) ==
    /\ NetBegins /\ Len(notified) < MaxNews
    /\ c \in found /\ told[c] = "connected"
    /\ Length[d] <= MAX_BIZ_MSG_SIZE
    /\ SendN2MMsg([type |-> "PROTO", conn |-> c, data |-> d], "io")
    /\ UNCHANGED <<m_oM2NQueue, m_oN2MQueue, main, pass, conns, requests, looked, up>>

\* FreeConn of a closed connection.
ConnFree(c) ==
    /\ NetBegins
    /\ c \in found /\ (told[c] \in {"closed", "closed twice"} \/ c \in silent)
    /\ found' = found \ {c}
    /\ UNCHANGED <<m_oM2NQueue, m_oN2MQueue, memory, main, npc, ret, news, pass, told, fin, bound, silent, requests,
                   looked, up>>
-------------------------------------------------------------------------------
(* ProcM2NMsg. *)
ProcM2NMsg ==
    /\ NetBegins
    /\ npc' = "loop"
    /\ iMsgNum' = 0
    /\ UNCHANGED <<m_oM2NQueue, m_oN2MQueue, memory, main, ret, news, i, ulMsgLen, ptrData, conns, requests, looked, up>>

\* while (iMsgNum < 1000), until the ring is empty.
Leave ==
    /\ npc = "loop"
    /\ iMsgNum >= LoopMax \/ m_oM2NQueue = <<>>
    /\ npc' = "io"
    /\ UNCHANGED <<m_oM2NQueue, m_oN2MQueue, memory, main, ret, news, pass, conns, requests, looked, up>>

\* Mutant: the limit of a pass is not looked at.
TakeAny ==
    /\ npc = "loop"
    /\ m_oM2NQueue # <<>>
    /\ memory' = Filled(Head(m_oM2NQueue))
    /\ ulMsgLen' = Len(Head(m_oM2NQueue))
    /\ m_oM2NQueue' = Tail(m_oM2NQueue)
    /\ npc' = "check"
    /\ UNCHANGED <<m_oN2MQueue, main, ret, news, i, ptrData, iMsgNum, conns, requests, looked, up>>

\* The oldest message is popped into the buffer.
Take ==
    /\ npc = "loop"
    /\ iMsgNum < LoopMax /\ m_oM2NQueue # <<>>
    /\ memory' = Filled(Head(m_oM2NQueue))
    /\ ulMsgLen' = Len(Head(m_oM2NQueue))
    /\ m_oM2NQueue' = Tail(m_oM2NQueue)
    /\ npc' = "check"
    /\ UNCHANGED <<m_oN2MQueue, main, ret, news, i, ptrData, iMsgNum, conns, requests, looked, up>>

\* Mutant: the list is not counted, as if the message had the length SendMsg pushes.
ValidNoList ==
    /\ ConnCnt > 0 /\ DataLen > 0
    /\ ulMsgLen - 1 = DataLen
    /\ Type \in {"PROTO", "BIND", "CLOSE"}

\* The head, the list and the data make up the message.
Valid ==
    /\ ulMsgLen >= 1
    /\ ConnCnt > 0 /\ DataLen > 0
    /\ ulMsgLen - 1 - ConnCnt = DataLen
    /\ Type = "BIND" => DataLen = Length["bind"]
    /\ Type = "CLOSE" => DataLen = Length["close"]
    /\ Type \in {"PROTO", "BIND", "CLOSE"}

Check ==
    /\ npc = "check"
    /\ IF Valid THEN npc' = "each" /\ ptrData' = 1 + ConnCnt /\ i' = 0 /\ looked' = Append(looked, <<>>)
                ELSE npc' = "loop" /\ UNCHANGED <<ptrData, i, looked>>
    /\ UNCHANGED <<m_oM2NQueue, m_oN2MQueue, memory, main, ret, news, ulMsgLen, iMsgNum, conns, requests, up>>

\* The id at place i of the list, and what is asked of it.
AtI == At(1 + i)
IsId == "id" \in DOMAIN AtI
ThisConn == AtI.id
Asked == [type |-> Type, conn |-> ThisConn, data |-> Cells(ptrData, DataLen)]
LookedAt(a) == [looked EXCEPT ![Len(looked)] = Append(@, a)]

\* The loop over the list is left when i reaches the iConnCnt in the buffer.
EachEnd ==
    /\ npc = "each" /\ i >= ConnCnt
    /\ npc' = "loop"
    /\ UNCHANGED <<m_oM2NQueue, m_oN2MQueue, memory, main, ret, news, pass, conns, requests, looked, up>>

\* What is no id, or the id of no connection, is passed over.
EachUnknown ==
    /\ npc = "each" /\ i < ConnCnt
    /\ IsId => ThisConn \notin found
    /\ looked' = IF IsId /\ IsSend THEN LookedAt(Asked) ELSE looked
    /\ i' = i + 1
    /\ UNCHANGED <<m_oM2NQueue, m_oN2MQueue, memory, main, npc, ret, news, ulMsgLen, ptrData, iMsgNum, conns, requests, up>>

\* The type is read again: if it is none of the three, the loop is left.
EachInvalid ==
    /\ npc = "each" /\ i < ConnCnt
    /\ IsId /\ ThisConn \in found
    /\ Type \notin {"PROTO", "BIND", "CLOSE"}
    /\ npc' = "loop"
    /\ UNCHANGED <<m_oM2NQueue, m_oN2MQueue, memory, main, ret, news, pass, conns, requests, looked, up>>

\* A connection that is found is asked what the message's type says.
Each(type) ==
    /\ npc = "each" /\ i < ConnCnt
    /\ IsId /\ ThisConn \in found
    /\ Type = type
    /\ looked' = LookedAt(Asked)
    /\ i' = i + 1
    /\ iMsgNum' = iMsgNum + 1
    /\ UNCHANGED <<m_oM2NQueue, m_oN2MQueue, main, ulMsgLen, ptrData, found, requests, up>>

\* NetConnect::SendMsg says nothing to the main thread.
EachProto ==
    /\ Each("PROTO")
    /\ UNCHANGED <<memory, npc, ret, news, told, fin, bound, silent>>

\* NetConnect::BindConnect: the first bind data stay, and there is an event.
EachBind ==
    /\ Each("BIND")
    /\ IF ThisConn \in bound
       THEN UNCHANGED <<bound, memory, npc, ret, news>>
       ELSE bound' = bound \cup {ThisConn} /\ NotifyConnEvent(ThisConn, "bind", "each")
    /\ UNCHANGED <<told, fin, silent>>

\* The reason in the buffer is CLOSE_REASON_NONE.
NoReason == At(ptrData) = Data("quiet")[1]

\* Mutant: a disconnected connection is closed without an event for any reason.
EachCloseSilent ==
    /\ Each("CLOSE")
    /\ IF told[ThisConn] = "disconnected"
       THEN silent' = silent \cup {ThisConn} /\ UNCHANGED fin
       ELSE fin' = fin \cup (IF told[ThisConn] = "connected" THEN {ThisConn} ELSE {}) /\ UNCHANGED silent
    /\ UNCHANGED <<told, memory, npc, ret, news, bound>>

\* NetConnect::FinConnect closes a disconnected connection at once, with an event if
\* there is a reason; an established one begins to say goodbye.
EachClose ==
    /\ Each("CLOSE")
    /\ \/ /\ told[ThisConn] = "disconnected" /\ ThisConn \notin silent /\ ~NoReason
          /\ told' = [told EXCEPT ![ThisConn] = "closed"]
          /\ NotifyConnEvent(ThisConn, "closed", "each")
          /\ UNCHANGED <<fin, silent>>
       \/ /\ told[ThisConn] = "disconnected" /\ NoReason
          /\ silent' = silent \cup {ThisConn}
          /\ UNCHANGED <<told, fin, memory, npc, ret, news>>
       \/ /\ told[ThisConn] # "disconnected" \/ ThisConn \in silent
          /\ fin' = fin \cup (IF told[ThisConn] = "connected" THEN {ThisConn} ELSE {})
          /\ UNCHANGED <<told, silent, memory, npc, ret, news>>
    /\ UNCHANGED bound
-------------------------------------------------------------------------------
Init ==
    /\ m_oM2NQueue = <<>> /\ m_oN2MQueue = <<>>
    /\ memory = [o \in 0 .. BufLen |->
                    IF o = 0 THEN SendHead("NONE", 0, 0)
                    ELSE [other |-> IF o = IsClient THEN "m_bIsClient" ELSE "zero"]]
    /\ mpc = "idle" /\ mlen = 0
    /\ npc = "io" /\ ret = "io" /\ news = [type |-> "NONE"]
    /\ i = 0 /\ ulMsgLen = 0 /\ ptrData = 0 /\ iMsgNum = 0
    /\ told = [c \in Conns |-> "nothing"]
    /\ found = {} /\ fin = {} /\ bound = {} /\ silent = {}
    /\ asks = 0 /\ asked = <<>> /\ looked = <<>>
    /\ notified = <<>> /\ heard = <<>> /\ lost = {}

Main ==
    \/ \E r \in Requests : PushM2N(r)
    \/ \E l \in Lists, d \in Texts : SendMsg(l, d)
    \/ SendMsgPush
    \/ PopN2M
    \/ RecvMsgPop
    \/ RecvMsgRead

Net ==
    \/ \E c \in Conns, e \in Phases : ConnEvent(c, e)
    \/ \E c \in Conns, d \in Texts : ConnData(c, d)
    \/ \E c \in Conns : ConnFree(c)
    \/ SendN2MPush
    \/ ProcM2NMsg \/ Leave \/ Take \/ Check
    \/ EachEnd \/ EachUnknown \/ EachInvalid \/ EachProto \/ EachBind \/ EachClose

Next == Main \/ Net

Spec == Init /\ [][Next]_vars
-------------------------------------------------------------------------------
\* Types, the rings' capacities, and the limit of a pass of ProcM2NMsg.
TypeOK ==
    /\ mpc \in {"idle", "push", "read"}
    /\ npc \in {"io", "push", "loop", "check", "each"} /\ ret \in {"io", "each"}
    /\ Len(m_oM2NQueue) <= QueueLen /\ Len(m_oN2MQueue) <= QueueLen
    /\ told \in [Conns -> Phases \cup {"nothing"}]
    /\ found \subseteq Conns /\ fin \subseteq Conns /\ bound \subseteq Conns /\ silent \subseteq Conns
    /\ npc = "check" => iMsgNum < LoopMax
    /\ i \in Nat /\ iMsgNum \in Nat /\ ulMsgLen \in Nat /\ ptrData \in Nat

\* What a request asks, of one connection after the other.
OneByOne(r) ==
    [n \in 1 .. Len(r.conns) |-> [type |-> r.type, conn |-> r.conns[n], data |-> Data(r.data)]]

\* Every well-formed request that m_oM2NQueue accepted is carried out, for every
\* connection of its list, with the data it was given, once and in order.  Nothing
\* else is: none of the messages of SendMsg and BroadcastMsg, whose length lacks the list.
Served ==
    /\ Len(looked) <= Len(asked)
    /\ \A k \in 1 .. Len(looked) :
          IF npc = "io" \/ k < Len(looked) THEN looked[k] = OneByOne(asked[k])
                                           ELSE IsPrefix(looked[k], OneByOne(asked[k]))
    /\ npc = "io" /\ m_oM2NQueue = <<>> => Len(looked) = Len(asked)

\* ProcM2NMsg goes over the list that it has checked, and no further.
WalksList == npc = "each" /\ i < ConnCnt => i < ptrData - 1

\* The main thread gets the news that were sent, each once and in order: whole what
\* it pops itself, and of what it gets from RecvMsg all the data, but no head.
HeardAsSent ==
    /\ Len(heard) <= Len(notified)
    /\ \A k \in 1 .. Len(heard) : heard[k] \in {notified[k], Tail(notified[k])}

\* Whether a message is news of what has become of c.
IsAbout(h, c) ==
    "head" \in DOMAIN h[1] /\ h[1].type = "EVENT" /\ h[1].ulConnID = c /\ h[2].data \in Phases

\* Such news came without their head, so that nothing says whom they are about.
Nameless(c) == \E k \in 1 .. Len(heard) : IsAbout(notified[k], c) /\ ~IsAbout(heard[k], c)

\* What the main thread believes of a connection: what it heard last, of n messages.
Believed(c, n) ==
    LET about == {k \in 1 .. n : IsAbout(heard[k], c)}
    IN  IF about = {} THEN "nothing" ELSE heard[Max(about)][2].data

\* It has itself asked to close c, and given no reason.
AskedQuietly(c) ==
    \E k \in 1 .. Len(asked) :
        asked[k].type = "CLOSE" /\ asked[k].data = "quiet" /\ c \in Range(asked[k].conns)

\* Unless the queue has refused news of the connection, or RecvMsg has dropped their
\* head, the news come in an order that ConnEvents allows, and once the main thread
\* has heard all it believes of each connection what is so: a closed one it takes for
\* disconnected only if it has asked itself to close it without a reason.
BelievesTheTruth ==
    \A c \in Conns \ lost : ~Nameless(c) =>
        /\ \A k \in 1 .. Len(heard) :
              IsAbout(heard[k], c) => <<Believed(c, k - 1), heard[k][2].data>> \in CE!Follows
        /\ m_oN2MQueue = <<>> /\ npc # "push" /\ mpc # "read" =>
              IF c \in silent THEN Believed(c, Len(heard)) = "disconnected" /\ AskedQuietly(c)
                              ELSE Believed(c, Len(heard)) = told[c]

===============================================================================
