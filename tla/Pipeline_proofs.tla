---------------------------- MODULE Pipeline_proofs ----------------------------
(* Proofs about Pipeline, for every set of connections, texts and requests, every  *)
(* size of the buffer, the rings and a pass of ProcM2NMsg.                         *)
(*                                                                              *)
(* The types hold whatever the threads do.  The other results are about a main      *)
(* thread whose calls of SendMsg, BroadcastMsg and RecvMsg do not overlap with what  *)
(* the net thread does: requests are carried out, once and in order (Served), news   *)
(* are heard as they were sent (HeardAsSent) and leave the main thread with the      *)
(* truth about each connection whose news kept their head (BelievesTheTruth).      *)
EXTENDS Pipeline, TLAPS

DataOf == Texts \cup Events \cup CloseMsgs
Types == {"NONE", "PROTO", "BIND", "CLOSE", "EVENT"}

Heads == [head : {"send"}, type : Types, iConnCnt : Nat, iDataLen : Nat]
         \cup [head : {"recv"}, type : Types, ulConnID : Nat, iDataLen : Nat]

Cell == Heads \cup [id : Nat] \cup [data : DataOf, at : Nat]
        \cup [other : {"unknown", "zero", "m_bIsClient"}]

\* A message has a head.
Message == {m \in Seq(Cell) : Len(m) > 0 /\ m[1] \in Heads}

News == [type : {"EVENT", "PROTO"}, conn : Conns, data : Texts \cup Events]

TypeInv ==
    /\ TypeOK
    /\ m_oM2NQueue \in Seq(Message) /\ m_oN2MQueue \in Seq(Message)
    /\ memory \in [0 .. BufLen -> Cell] /\ memory[0] \in Heads
    /\ mpc = "push" => mlen \in Nat \ {0}
    /\ npc = "push" => news \in News
-------------------------------------------------------------------------------
\* The buffer holds a message, and maybe more behind it.
Holds(m) == \A o \in 0 .. Len(m) - 1 : memory[o] = m[o + 1]

\* The threads do not use it at the same time.
Alone == npc # "io" => mpc = "idle"

Reading == IF mpc = "read" THEN 1 ELSE 0

\* The news on their way, or in the buffer, are those after the ones heard.
NewsInv ==
    /\ heard \in Seq(Seq(Cell)) /\ notified \in Seq(Message)
    /\ Len(notified) = Len(heard) + Reading + Len(m_oN2MQueue)
    /\ \A k \in 1 .. Len(heard) : heard[k] \in {notified[k], Tail(notified[k])}
    /\ \A k \in 1 .. Len(m_oN2MQueue) : m_oN2MQueue[k] = notified[Len(heard) + Reading + k]
    /\ mpc = "read" => Holds(notified[Len(heard) + 1])
    /\ \A k \in 1 .. Len(notified) : \E n \in News :
          Length[n.data] \in 1 .. MAX_BIZ_MSG_SIZE /\ notified[k] = RecvCells(n)
    /\ npc = "push" => Length[news.data] \in 1 .. MAX_BIZ_MSG_SIZE /\ Holds(RecvCells(news))

\* The last news of c say that it is told.
Said(c) ==
    \/ told[c] = "nothing" /\ \A k \in 1 .. Len(notified) : ~IsAbout(notified[k], c)
    \/ \E k \in 1 .. Len(notified) :
          /\ IsAbout(notified[k], c) /\ notified[k][2].data = told[c]
          /\ \A j \in k + 1 .. Len(notified) : ~IsAbout(notified[j], c)

ToldInv ==
    \A c \in Conns \ lost :
        IF npc = "push" /\ IsAbout(RecvCells(news), c) THEN told[c] = news.data ELSE Said(c)

\* A message as SendMsg and BroadcastMsg push it, never valid.
Dud(m) == m[1].head = "send" /\ m[1].type = "PROTO" /\ Len(m) = 1 + m[1].iDataLen

Item == [type : Types, conn : Nat, data : Seq(Cell)]

\* What is in a queue once done of the requests have left it: the others, in their
\* order, and duds.  cnt[k] of them have left when its first k messages have.
Counts(queue, requested, done, cnt) ==
    /\ cnt \in [0 .. Len(queue) -> 0 .. Len(requested)]
    /\ cnt[0] = done /\ cnt[Len(queue)] = Len(requested)
    /\ \A k \in 0 .. Len(queue) - 1 :
          \/ cnt[k + 1] = cnt[k] + 1 /\ queue[k + 1] = SendCells(requested[cnt[k] + 1])
          \/ cnt[k + 1] = cnt[k] /\ Dud(queue[k + 1])

Waiting(queue, requested, done) == \E cnt : Counts(queue, requested, done, cnt)
\* The message taken out is the next request, or is not valid.
Checking(done) ==
    \/ /\ done = Len(looked) + 1
       /\ Holds(SendCells(asked[done])) /\ ulMsgLen = Len(SendCells(asked[done]))
    \/ /\ done = Len(looked)
       /\ IsSend /\ Type = "PROTO" /\ ulMsgLen = 1 + DataLen

\* It is carried out as far as i; or an event has overwritten it, at its end.
Walking(done) ==
    /\ done = Len(looked) /\ done > 0
    /\ \/ /\ Holds(SendCells(asked[done]))
          /\ ptrData = 1 + Len(asked[done].conns) /\ i <= Len(asked[done].conns)
          /\ looked[done] = SubSeq(OneByOne(asked[done]), 1, i)
       \/ /\ ~IsSend /\ Type = "EVENT"
          /\ looked[done] = OneByOne(asked[done])

Stage(done) ==
    \/ npc \in {"io", "loop", "push"} /\ done = Len(looked)
    \/ npc = "check" /\ Checking(done)
    \/ npc = "each" /\ Walking(done)

\* Every message looked at, but the one being walked, has been carried out.
Complete == \A k \in 1 .. Len(looked) :
                npc # "each" \/ k < Len(looked) => looked[k] = OneByOne(asked[k])

ServedInv ==
    /\ asked \in Seq(Requests) /\ looked \in Seq(Seq(Item))
    /\ mpc = "push" => IsSend /\ Type = "PROTO" /\ mlen = 1 + DataLen
    /\ npc = "push" /\ ret = "each" => news.type = "EVENT" /\ Len(looked) > 0
    /\ Complete
    /\ \E done \in 0 .. Len(asked) : Waiting(m_oM2NQueue, asked, done) /\ Stage(done)
-------------------------------------------------------------------------------
\* What messages are made of.

\* The cells of data.
LEMMA DataFacts ==
    ASSUME NEW d \in DataOf
    PROVE  /\ Length[d] \in Nat
           /\ Data(d) \in Seq(Cell) /\ Len(Data(d)) = Length[d]
           /\ \A k \in 1 .. Length[d] : Data(d)[k] = [data |-> d, at |-> k]
<1>1. Length[d] \in Nat
  BY PipelineAssumption DEF DataOf
<1>2. \A k \in 1 .. Length[d] : [data |-> d, at |-> k] \in Cell
  <2>1. TAKE k \in 1 .. Length[d]
  <2>2. k \in Nat
    BY <1>1
  <2>3. [data |-> d, at |-> k] \in [data : DataOf, at : Nat]
    BY <2>2
  <2>. QED
    BY <2>3, Zenon DEF Cell
<1>. QED
  BY <1>1, <1>2 DEF Data

\* The cells of a request.
LEMMA SendCellsFacts ==
    ASSUME NEW r, r.type \in Types, r.conns \in Seq(Conns), r.data \in DataOf
    PROVE  /\ SendCells(r) \in Message
           /\ Len(SendCells(r)) = 1 + Len(r.conns) + Length[r.data]
           /\ SendCells(r)[1] = SendHead(r.type, Len(r.conns), Length[r.data])
           /\ \A n \in 1 .. Len(r.conns) : SendCells(r)[1 + n] = [id |-> r.conns[n]]
           /\ \A k \in 1 .. Length[r.data] :
                 SendCells(r)[1 + Len(r.conns) + k] = [data |-> r.data, at |-> k]
<1>1. /\ Length[r.data] \in Nat /\ Data(r.data) \in Seq(Cell) /\ Len(Data(r.data)) = Length[r.data]
      /\ \A k \in 1 .. Length[r.data] : Data(r.data)[k] = [data |-> r.data, at |-> k]
  BY DataFacts
<1>2. PICK c \in Nat : c = Len(r.conns)
  <2>1. Len(r.conns) \in Nat
    OBVIOUS
  <2>. QED
    BY <2>1, Zenon
<1>3. PICK head \in Heads : head = SendHead(r.type, c, Length[r.data])
  <2>1. SendHead(r.type, c, Length[r.data]) \in [head : {"send"}, type : Types, iConnCnt : Nat, iDataLen : Nat]
    BY <1>1, <1>2 DEF SendHead
  <2>. QED
    BY <2>1, Zenon DEF Heads
<1>4. PICK list \in Seq(Cell) : list = [k \in 1 .. c |-> [id |-> r.conns[k]]]
  <2>1. \A k \in 1 .. c : [id |-> r.conns[k]] \in Cell
    <3>1. TAKE k \in 1 .. c
    <3>2. r.conns[k] \in Conns
      BY <1>2
    <3>0. r.conns[k] \in Nat
      BY <3>2, PipelineAssumption
    <3>3. [id |-> r.conns[k]] \in [id : Nat]
      BY <3>0
    <3>. QED
      BY <3>3, Zenon DEF Cell
  <2>2. [k \in 1 .. c |-> [id |-> r.conns[k]]] \in Seq(Cell)
    BY <1>2, <2>1
  <2>. QED
    BY <2>2, Zenon
<1>5. PICK data \in Seq(Cell) : data = Data(r.data) /\ Len(data) = Length[r.data]
  BY <1>1
<1>6. head \in Cell /\ <<head>> \in Seq(Cell)
  BY <1>3 DEF Cell
<1>7. Len(list) = c /\ \A k \in 1 .. c : list[k] = [id |-> r.conns[k]]
  BY <1>2, <1>4
<1>8. SendCells(r) = <<head>> \o list \o data
  BY <1>2, <1>3, <1>4, <1>5 DEF SendCells
<1>0. PICK front \in Seq(Cell) : /\ front = <<head>> \o list /\ Len(front) = 1 + c /\ front[1] = head
  <2>1. /\ <<head>> \o list \in Seq(Cell) /\ Len(<<head>> \o list) = 1 + c
        /\ (<<head>> \o list)[1] = head
    BY <1>2, <1>6, <1>7
  <2>. QED
    BY <2>1, Zenon
<1>9. /\ <<head>> \o list \o data \in Seq(Cell)
      /\ Len(<<head>> \o list \o data) = 1 + c + Length[r.data]
      /\ (<<head>> \o list \o data)[1] = head
  <2>1. front \o data \in Seq(Cell) /\ Len(front \o data) = 1 + c + Length[r.data] /\ (front \o data)[1] = head
    BY <1>0, <1>1, <1>2, <1>5
  <2>. QED
    BY <1>0, <2>1, Zenon
<1>10. \A n \in 1 .. c : (<<head>> \o list \o data)[1 + n] = list[n]
  BY <1>1, <1>2, <1>5, <1>6, <1>7
<1>11. \A k \in 1 .. Length[r.data] : (<<head>> \o list \o data)[1 + c + k] = data[k]
  BY <1>1, <1>2, <1>5, <1>6, <1>7, SMTT(30)
<1>12. SendCells(r) \in Message
  <2>1. 1 + c + Length[r.data] > 0
    BY <1>1, <1>2
  <2>. QED
    BY <1>3, <1>8, <1>9, <2>1 DEF Message
<1>. QED
  BY <1>1, <1>2, <1>3, <1>5, <1>7, <1>8, <1>9, <1>10, <1>11, <1>12

\* The cells of news.
LEMMA RecvCellsFacts ==
    ASSUME NEW n \in News
    PROVE  /\ RecvCells(n) \in Message
           /\ Length[n.data] \in Nat /\ Len(RecvCells(n)) = 1 + Length[n.data]
           /\ RecvCells(n)[1] = RecvHead(n.type, n.conn, Length[n.data])
           /\ \A k \in 1 .. Length[n.data] : RecvCells(n)[1 + k] = [data |-> n.data, at |-> k]
<1>1. n.type \in Types /\ n.conn \in Nat /\ n.data \in DataOf
  BY PipelineAssumption DEF News, Types, DataOf
<1>2. /\ Length[n.data] \in Nat /\ Data(n.data) \in Seq(Cell) /\ Len(Data(n.data)) = Length[n.data]
      /\ \A k \in 1 .. Length[n.data] : Data(n.data)[k] = [data |-> n.data, at |-> k]
  BY <1>1, DataFacts
<1>3. PICK head \in Heads : head = RecvHead(n.type, n.conn, Length[n.data])
  <2>1. RecvHead(n.type, n.conn, Length[n.data]) \in [head : {"recv"}, type : Types, ulConnID : Nat, iDataLen : Nat]
    BY <1>1, <1>2 DEF RecvHead
  <2>. QED
    BY <2>1, Zenon DEF Heads
<1>4. PICK data \in Seq(Cell) : data = Data(n.data)
  BY <1>2
<1>5. head \in Cell /\ <<head>> \in Seq(Cell)
  BY <1>3 DEF Cell
<1>6. RecvCells(n) = <<head>> \o data
  BY <1>3, <1>4 DEF RecvCells
<1>7. /\ <<head>> \o data \in Seq(Cell)
      /\ Len(<<head>> \o data) = 1 + Length[n.data]
      /\ (<<head>> \o data)[1] = head
      /\ \A k \in 1 .. Length[n.data] : (<<head>> \o data)[1 + k] = data[k]
  BY <1>2, <1>4, <1>5
<1>8. RecvCells(n) \in Message
  <2>1. 1 + Length[n.data] > 0
    BY <1>2
  <2>. QED
    BY <1>3, <1>6, <1>7, <2>1 DEF Message
<1>. QED
  BY <1>2, <1>3, <1>4, <1>6, <1>7, <1>8
-------------------------------------------------------------------------------
\* The buffer.

\* What is copied to the buffer is there.
LEMMA FilledFacts ==
    ASSUME memory \in [0 .. BufLen -> Cell], NEW m \in Message
    PROVE  /\ Filled(m) \in [0 .. BufLen -> Cell]
           /\ Filled(m)[0] = m[1] /\ m[1] \in Heads
           /\ \A o \in 0 .. BufLen : o < Len(m) => Filled(m)[o] = m[o + 1]
<1>1. m \in Seq(Cell) /\ Len(m) \in Nat /\ Len(m) > 0 /\ m[1] \in Heads
  BY DEF Message
<1>2. BufLen \in Nat
  BY PipelineAssumption DEF BufLen
<1>3. \A o \in 0 .. BufLen : o < Len(m) => m[o + 1] \in Cell
  BY <1>1, <1>2
<1>4. Filled(m) \in [0 .. BufLen -> Cell]
  BY <1>3 DEF Filled
<1>. QED
  BY <1>1, <1>2, <1>4 DEF Filled

\* What is read from it are cells.
LEMMA CellsFacts ==
    ASSUME memory \in [0 .. BufLen -> Cell], NEW o \in Nat, NEW len \in Nat
    PROVE  /\ Cells(o, len) \in Seq(Cell) /\ Len(Cells(o, len)) = len
           /\ \A k \in 1 .. len : o + k - 1 <= BufLen => Cells(o, len)[k] = memory[o + k - 1]
<1>1. BufLen \in Nat
  BY PipelineAssumption DEF BufLen
<1>2. [other |-> "unknown"] \in Cell
  <2>1. [other |-> "unknown"] \in [other : {"unknown", "zero", "m_bIsClient"}]
    OBVIOUS
  <2>. QED
    BY <2>1, Zenon DEF Cell
<1>3. \A k \in 1 .. len : At(o + k - 1) \in Cell
  BY <1>1, <1>2 DEF At
<1>4. Cells(o, len) \in Seq(Cell) /\ Len(Cells(o, len)) = len
      /\ \A k \in 1 .. len : Cells(o, len)[k] = At(o + k - 1)
  BY <1>3 DEF Cells
<1>5. \A k \in 1 .. len : o + k - 1 <= BufLen => At(o + k - 1) = memory[o + k - 1]
  BY <1>1 DEF At
<1>. QED
  BY <1>4, <1>5

\* What is pushed from its beginning is a message if it has a head.
LEMMA CellsMessage ==
    ASSUME memory \in [0 .. BufLen -> Cell], memory[0] \in Heads, NEW len \in Nat \ {0}
    PROVE  Cells(0, len) \in Message /\ Len(Cells(0, len)) = len /\ Cells(0, len)[1] = memory[0]
<1>1. BufLen \in Nat
  BY PipelineAssumption DEF BufLen
<1>2. /\ Cells(0, len) \in Seq(Cell) /\ Len(Cells(0, len)) = len
      /\ \A k \in 1 .. len : 0 + k - 1 <= BufLen => Cells(0, len)[k] = memory[0 + k - 1]
  BY CellsFacts
<1>3. Cells(0, len)[1] = memory[0]
  <2>1. 1 \in 1 .. len /\ 0 + 1 - 1 <= BufLen /\ 0 + 1 - 1 = 0
    BY <1>1
  <2>. QED
    BY <1>2, <2>1
<1>. QED
  BY <1>2, <1>3 DEF Message

\* The counts in a head.
LEMMA HeadFacts ==
    ASSUME memory[0] \in Heads
    PROVE  /\ ConnCnt \in Nat /\ DataLen \in Nat /\ Type \in Types
           /\ ~IsSend => memory[0].iDataLen \in Nat
<1>1. Shift \in Nat
  BY PipelineAssumption
<1>2. CASE memory[0] \in [head : {"send"}, type : Types, iConnCnt : Nat, iDataLen : Nat]
  BY <1>2 DEF ConnCnt, DataLen, Type, IsSend
<1>3. CASE memory[0] \in [head : {"recv"}, type : Types, ulConnID : Nat, iDataLen : Nat]
  <2>1. memory[0].ulConnID \in Nat /\ memory[0].iDataLen \in Nat /\ memory[0].type \in Types
        /\ ~ IsSend
    BY <1>3 DEF IsSend
  <2>. QED
    BY <1>1, <2>1 DEF ConnCnt, DataLen, Type
<1>. QED
  BY <1>2, <1>3 DEF Heads
-------------------------------------------------------------------------------
\* Types, whatever the threads do.

LEMMA TypeInit == Init => TypeInv
<1> SUFFICES ASSUME Init PROVE TypeInv
  OBVIOUS
<1>1. /\ m_oM2NQueue = <<>> /\ m_oN2MQueue = <<>> /\ mpc = "idle" /\ npc = "io" /\ ret = "io"
      /\ i = 0 /\ ulMsgLen = 0 /\ ptrData = 0 /\ iMsgNum = 0
      /\ told = [c \in Conns |-> "nothing"] /\ found = {} /\ fin = {} /\ bound = {} /\ silent = {}
  BY DEF Init
<1>2. BufLen \in Nat /\ QueueLen \in Nat
  BY PipelineAssumption DEF BufLen
<1>3. SendHead("NONE", 0, 0) \in Heads
  <2>1. SendHead("NONE", 0, 0) \in [head : {"send"}, type : Types, iConnCnt : Nat, iDataLen : Nat]
    BY DEF SendHead, Types
  <2>. QED
    BY <2>1, Zenon DEF Heads
<1>4. memory \in [0 .. BufLen -> Cell] /\ memory[0] \in Heads
  <2>1. SendHead("NONE", 0, 0) \in Cell
    BY <1>3 DEF Cell
  <2>2. [other |-> "m_bIsClient"] \in Cell /\ [other |-> "zero"] \in Cell
    <3>1. /\ [other |-> "m_bIsClient"] \in [other : {"unknown", "zero", "m_bIsClient"}]
          /\ [other |-> "zero"] \in [other : {"unknown", "zero", "m_bIsClient"}]
      OBVIOUS
    <3>. QED
      BY <3>1, Zenon DEF Cell
  <2>3. \A o \in 0 .. BufLen : [other |-> IF o = IsClient THEN "m_bIsClient" ELSE "zero"] \in Cell
    <3>1. TAKE o \in 0 .. BufLen
    <3>. QED
      BY <2>2, Zenon
  <2>4. memory = [o \in 0 .. BufLen |->
                    IF o = 0 THEN SendHead("NONE", 0, 0)
                    ELSE [other |-> IF o = IsClient THEN "m_bIsClient" ELSE "zero"]]
    BY DEF Init
  <2>5. memory \in [0 .. BufLen -> Cell]
    BY <2>1, <2>3, <2>4, Zenon
  <2>6. memory[0] = SendHead("NONE", 0, 0)
    BY <1>2, <2>4
  <2>. QED
    BY <1>3, <2>5, <2>6
<1>5. TypeOK
  BY <1>1, <1>2 DEF TypeOK
<1>. QED
  BY <1>1, <1>4, <1>5 DEF TypeInv

\* The first of a queue of messages, and the others.
LEMMA QueueFacts ==
    ASSUME NEW q \in Seq(Message)
    PROVE  /\ Len(q) \in Nat
           /\ q # <<>> => /\ Head(q) \in Message /\ Head(q) = q[1] /\ Len(q) > 0
                          /\ Tail(q) \in Seq(Message) /\ Len(Tail(q)) = Len(q) - 1
                          /\ \A k \in 1 .. Len(q) - 1 : Tail(q)[k] = q[k + 1]
           /\ \A m \in Message : /\ Append(q, m) \in Seq(Message) /\ Len(Append(q, m)) = Len(q) + 1
                                 /\ \A k \in 1 .. Len(q) : Append(q, m)[k] = q[k]
                                 /\ Append(q, m)[Len(q) + 1] = m
  OBVIOUS

\* The kinds of data are data.
LEMMA WellTyped ==
    ASSUME NEW r, WellFormed(r)
    PROVE  r.type \in Types /\ r.conns \in Seq(Conns) /\ r.data \in DataOf
  BY DEF WellFormed, Types, DataOf, Events, Phases

LEMMA TypeMain ==
    ASSUME TypeInv, Main
    PROVE  TypeInv'
<1>1. /\ m_oM2NQueue \in Seq(Message) /\ m_oN2MQueue \in Seq(Message)
      /\ memory \in [0 .. BufLen -> Cell] /\ memory[0] \in Heads
      /\ QueueLen \in Nat
  BY PipelineAssumption DEF TypeInv
<1>2. UNCHANGED <<npc, ret, news, i, ulMsgLen, ptrData, iMsgNum, told, found, fin, bound, silent>>
  BY DEF Main, PushM2N, SendMsg, SendMsgPush, PopN2M, RecvMsgPop, RecvMsgRead, pass, conns
<1>3. CASE \E r \in Requests : PushM2N(r)
  <2>1. PICK r \in Requests : PushM2N(r)
    BY <1>3
  <2>2. SendCells(r) \in Message
    BY PipelineAssumption, WellTyped, SendCellsFacts
  <2>3. /\ m_oM2NQueue' = Append(m_oM2NQueue, SendCells(r)) /\ Len(m_oM2NQueue) < QueueLen
        /\ UNCHANGED <<m_oN2MQueue, memory, mpc, mlen>>
    BY <2>1 DEF PushM2N, main
  <2>4. m_oM2NQueue' \in Seq(Message) /\ Len(m_oM2NQueue') <= QueueLen
    BY <1>1, <2>2, <2>3, QueueFacts
  <2>. QED
    BY <1>2, <2>3, <2>4 DEF TypeInv, TypeOK
<1>4. CASE \E l \in Lists, d \in Texts : SendMsg(l, d)
  <2>1. PICK l \in Lists, d \in Texts : SendMsg(l, d)
    BY <1>4
  <2>2. PICK r : r = [type |-> "PROTO", conns |-> l, data |-> d]
    OBVIOUS
  <2>3. SendCells(r) \in Message
    <3>1. r.type \in Types /\ r.conns \in Seq(Conns) /\ r.data \in DataOf
      BY <2>2, PipelineAssumption DEF Types, DataOf
    <3>. QED
      BY <3>1, SendCellsFacts
  <2>4. /\ memory' = Filled(SendCells(r)) /\ mpc' = "push" /\ mlen' = Length[d] + 1
        /\ UNCHANGED <<m_oM2NQueue, m_oN2MQueue>>
    BY <2>1, <2>2 DEF SendMsg
  <2>5. memory' \in [0 .. BufLen -> Cell] /\ memory'[0] \in Heads
    BY <1>1, <2>3, <2>4, FilledFacts
  <2>6. mlen' \in Nat \ {0}
    <3>1. Length[d] \in Nat
      BY PipelineAssumption
    <3>. QED
      BY <2>4, <3>1
  <2>. QED
    BY <1>2, <2>4, <2>5, <2>6 DEF TypeInv, TypeOK
<1>5. CASE SendMsgPush
  <2>1. Cells(0, mlen) \in Message
    BY <1>1, <1>5, CellsMessage DEF SendMsgPush, TypeInv
  <2>2. mpc' = "idle" /\ UNCHANGED <<m_oN2MQueue, memory>>
    BY <1>5 DEF SendMsgPush
  <2>3. m_oM2NQueue' \in Seq(Message) /\ Len(m_oM2NQueue') <= QueueLen
    <3>1. CASE Len(m_oM2NQueue) < QueueLen
      <4>1. m_oM2NQueue' = Append(m_oM2NQueue, Cells(0, mlen))
        BY <1>5, <3>1 DEF SendMsgPush
      <4>. QED
        BY <1>1, <2>1, <3>1, <4>1, QueueFacts
    <3>2. CASE ~ (Len(m_oM2NQueue) < QueueLen)
      <4>1. m_oM2NQueue' = m_oM2NQueue
        BY <1>5, <3>2 DEF SendMsgPush
      <4>. QED
        BY <1>1, <4>1 DEF TypeInv, TypeOK
    <3>. QED
      BY <3>1, <3>2
  <2>. QED
    BY <1>2, <2>2, <2>3 DEF TypeInv, TypeOK
<1>6. CASE PopN2M
  <2>1. m_oN2MQueue # <<>> /\ m_oN2MQueue' = Tail(m_oN2MQueue) /\ UNCHANGED <<m_oM2NQueue, memory, mpc, mlen>>
    BY <1>6 DEF PopN2M, main
  <2>2. m_oN2MQueue' \in Seq(Message) /\ Len(m_oN2MQueue') <= QueueLen
    <3>1. Len(m_oN2MQueue) <= QueueLen
      BY DEF TypeInv, TypeOK
    <3>. QED
      BY <1>1, <2>1, <3>1, QueueFacts
  <2>. QED
    BY <1>2, <2>1, <2>2 DEF TypeInv, TypeOK
<1>7. CASE RecvMsgPop
  <2>1. /\ m_oN2MQueue # <<>> /\ m_oN2MQueue' = Tail(m_oN2MQueue)
        /\ memory' = Filled(Head(m_oN2MQueue)) /\ mpc' = "read" /\ UNCHANGED m_oM2NQueue
    BY <1>7 DEF RecvMsgPop
  <2>2. m_oN2MQueue' \in Seq(Message) /\ Len(m_oN2MQueue') <= QueueLen /\ Head(m_oN2MQueue) \in Message
    <3>1. Len(m_oN2MQueue) <= QueueLen
      BY DEF TypeInv, TypeOK
    <3>. QED
      BY <1>1, <2>1, <3>1, QueueFacts
  <2>3. memory' \in [0 .. BufLen -> Cell] /\ memory'[0] \in Heads
    BY <1>1, <2>1, <2>2, FilledFacts
  <2>. QED
    BY <1>2, <2>1, <2>2, <2>3 DEF TypeInv, TypeOK
<1>8. CASE RecvMsgRead
  BY <1>2, <1>8 DEF RecvMsgRead, TypeInv, TypeOK
<1>. QED
  BY <1>3, <1>4, <1>5, <1>6, <1>7, <1>8 DEF Main

\* The net thread fills the buffer with news.
LEMMA TypeNews ==
    ASSUME TypeInv, NEW n \in News, NEW to, SendN2MMsg(n, to)
    PROVE  /\ memory' \in [0 .. BufLen -> Cell] /\ memory'[0] \in Heads
           /\ npc' = "push" /\ ret' = to /\ news' = n
<1>1. /\ memory \in [0 .. BufLen -> Cell] /\ RecvCells(n) \in Message
  BY RecvCellsFacts DEF TypeInv
<1>2. memory' = Filled(RecvCells(n)) /\ npc' = "push" /\ ret' = to /\ news' = n
  BY DEF SendN2MMsg
<1>. QED
  BY <1>1, <1>2, FilledFacts

LEMMA TypeNet ==
    ASSUME TypeInv, Net
    PROVE  TypeInv'
<1>1. /\ m_oM2NQueue \in Seq(Message) /\ m_oN2MQueue \in Seq(Message)
      /\ memory \in [0 .. BufLen -> Cell] /\ memory[0] \in Heads
      /\ QueueLen \in Nat
      /\ told \in [Conns -> Phases \cup {"nothing"}] /\ found \subseteq Conns /\ fin \subseteq Conns
      /\ bound \subseteq Conns /\ silent \subseteq Conns
      /\ i \in Nat /\ iMsgNum \in Nat /\ ulMsgLen \in Nat /\ ptrData \in Nat
  BY PipelineAssumption DEF TypeInv, TypeOK
<1>2. UNCHANGED <<mpc, mlen>>
  BY DEF Net, ConnEvent, ConnData, ConnFree, SendN2MPush, ProcM2NMsg, Leave, Take, Check,
         EachEnd, EachUnknown, EachInvalid, EachProto, EachBind, EachClose, Each, main
<1>3. CASE \E c \in Conns, e \in Phases : ConnEvent(c, e)
  <2>1. PICK c \in Conns, e \in Phases : ConnEvent(c, e)
    BY <1>3
  <2>2. PICK n \in News : n = [type |-> "EVENT", conn |-> c, data |-> e]
    <3>1. [type |-> "EVENT", conn |-> c, data |-> e] \in News
      BY DEF News, Events
    <3>. QED
      BY <3>1, Zenon
  <2>3. SendN2MMsg(n, "io")
    BY <2>1, <2>2 DEF ConnEvent, NotifyConnEvent
  <2>4. /\ told' \in [Conns -> Phases \cup {"nothing"}] /\ found' \subseteq Conns
        /\ UNCHANGED <<m_oM2NQueue, m_oN2MQueue, fin, bound, silent, i, iMsgNum, ulMsgLen, ptrData>>
    BY <1>1, <2>1 DEF ConnEvent, pass
  <2>5. /\ memory' \in [0 .. BufLen -> Cell] /\ memory'[0] \in Heads
        /\ npc' = "push" /\ ret' = "io" /\ news' = n
    BY <2>3, TypeNews
  <2>. QED
    BY <1>1, <1>2, <2>2, <2>4, <2>5 DEF TypeInv, TypeOK
<1>4. CASE \E c \in Conns, d \in Texts : ConnData(c, d)
  <2>1. PICK c \in Conns, d \in Texts : ConnData(c, d)
    BY <1>4
  <2>2. PICK n \in News : n = [type |-> "PROTO", conn |-> c, data |-> d]
    <3>1. [type |-> "PROTO", conn |-> c, data |-> d] \in News
      BY DEF News
    <3>. QED
      BY <3>1, Zenon
  <2>3. SendN2MMsg(n, "io")
    BY <2>1, <2>2 DEF ConnData
  <2>4. UNCHANGED <<m_oM2NQueue, m_oN2MQueue, told, found, fin, bound, silent, i, iMsgNum, ulMsgLen, ptrData>>
    BY <2>1 DEF ConnData, pass, conns
  <2>5. /\ memory' \in [0 .. BufLen -> Cell] /\ memory'[0] \in Heads
        /\ npc' = "push" /\ ret' = "io" /\ news' = n
    BY <2>3, TypeNews
  <2>. QED
    BY <1>1, <1>2, <2>2, <2>4, <2>5 DEF TypeInv, TypeOK
<1>5. CASE \E c \in Conns : ConnFree(c)
  BY <1>2, <1>5 DEF ConnFree, pass, TypeInv, TypeOK
<1>6. CASE SendN2MPush
  <2>1. /\ npc' = ret
        /\ UNCHANGED <<m_oM2NQueue, memory, ret, news, told, found, fin, bound, silent, i, iMsgNum, ulMsgLen, ptrData>>
    BY <1>6 DEF SendN2MPush, pass, conns
  <2>2. ret \in {"io", "each"}
    BY DEF TypeInv, TypeOK
  <2>3. m_oN2MQueue' \in Seq(Message) /\ Len(m_oN2MQueue') <= QueueLen
    <3>1. CASE Len(m_oN2MQueue) < QueueLen
      <4>1. m_oN2MQueue' = Append(m_oN2MQueue, Cells(0, 1 + Length[news.data]))
        BY <1>6, <3>1 DEF SendN2MPush
      <4>2. news \in News
        BY <1>6 DEF SendN2MPush, TypeInv
      <4>3. 1 + Length[news.data] \in Nat \ {0}
        BY <4>2, RecvCellsFacts
      <4>4. Cells(0, 1 + Length[news.data]) \in Message
        BY <1>1, <4>3, CellsMessage
      <4>. QED
        BY <1>1, <3>1, <4>1, <4>4, QueueFacts
    <3>2. CASE ~ (Len(m_oN2MQueue) < QueueLen)
      <4>1. m_oN2MQueue' = m_oN2MQueue
        BY <1>6, <3>2 DEF SendN2MPush
      <4>. QED
        BY <1>1, <4>1 DEF TypeInv, TypeOK
    <3>. QED
      BY <3>1, <3>2
  <2>. QED
    BY <1>1, <1>2, <2>1, <2>2, <2>3 DEF TypeInv, TypeOK
<1>7. CASE ProcM2NMsg \/ Leave \/ EachEnd \/ EachInvalid
  <2>1. /\ npc' \in {"loop", "io"} /\ iMsgNum' \in {0, iMsgNum}
        /\ UNCHANGED <<m_oM2NQueue, m_oN2MQueue, memory, ret, news, i, ulMsgLen, ptrData, told, found, fin, bound, silent>>
    BY <1>7 DEF ProcM2NMsg, Leave, EachEnd, EachInvalid, pass, conns
  <2>2. iMsgNum' \in Nat
    BY <1>1, <2>1
  <2>. QED
    BY <1>2, <2>1, <2>2 DEF TypeInv, TypeOK
<1>8. CASE Take
  <2>1. /\ m_oM2NQueue # <<>> /\ m_oM2NQueue' = Tail(m_oM2NQueue)
        /\ memory' = Filled(Head(m_oM2NQueue)) /\ ulMsgLen' = Len(Head(m_oM2NQueue))
        /\ npc' = "check" /\ iMsgNum < LoopMax
        /\ UNCHANGED <<m_oN2MQueue, ret, news, i, ptrData, iMsgNum, told, found, fin, bound, silent>>
    BY <1>8 DEF Take, conns
  <2>2. m_oM2NQueue' \in Seq(Message) /\ Len(m_oM2NQueue') <= QueueLen /\ Head(m_oM2NQueue) \in Message
    <3>1. Len(m_oM2NQueue) <= QueueLen
      BY DEF TypeInv, TypeOK
    <3>. QED
      BY <1>1, <2>1, <3>1, QueueFacts
  <2>3. memory' \in [0 .. BufLen -> Cell] /\ memory'[0] \in Heads
    BY <1>1, <2>1, <2>2, FilledFacts
  <2>4. ulMsgLen' \in Nat
    BY <2>1, <2>2 DEF Message
  <2>. QED
    BY <1>1, <1>2, <2>1, <2>2, <2>3, <2>4 DEF TypeInv, TypeOK
<1>9. CASE Check
  <2>1. UNCHANGED <<m_oM2NQueue, m_oN2MQueue, memory, ret, news, ulMsgLen, iMsgNum, told, found, fin, bound, silent>>
    BY <1>9 DEF Check, conns
  <2>2. ptrData' \in Nat /\ i' \in Nat /\ npc' \in {"each", "loop"}
    <3>1. ConnCnt \in Nat
      BY <1>1, HeadFacts
    <3>. QED
      BY <1>1, <1>9, <3>1 DEF Check
  <2>. QED
    BY <1>1, <1>2, <2>1, <2>2 DEF TypeInv, TypeOK
<1>10. CASE EachUnknown
  BY <1>2, <1>10 DEF EachUnknown, conns, TypeInv, TypeOK
<1>11. ASSUME NEW type, Each(type)
       PROVE  /\ UNCHANGED <<m_oM2NQueue, m_oN2MQueue, ulMsgLen, ptrData, found>>
              /\ i' \in Nat /\ iMsgNum' \in Nat /\ ThisConn \in Conns
  BY <1>1, <1>11 DEF Each
<1>12. CASE EachProto
  <2>1. UNCHANGED <<memory, npc, ret, news, told, fin, bound, silent>> /\ Each("PROTO") /\ npc = "each"
    BY <1>12 DEF EachProto, Each
  <2>. QED
    BY <1>1, <1>2, <1>11, <2>1 DEF TypeInv, TypeOK
<1>13. CASE EachBind
  <2>1. Each("BIND") /\ npc = "each" /\ UNCHANGED <<told, fin, silent>>
    BY <1>13 DEF EachBind, Each
  <2>2. CASE ThisConn \in bound
    <3>1. UNCHANGED <<bound, memory, npc, ret, news>>
      BY <1>13, <2>2 DEF EachBind
    <3>. QED
      BY <1>1, <1>2, <1>11, <2>1, <3>1 DEF TypeInv, TypeOK
  <2>3. CASE ThisConn \notin bound
    <3>1. PICK n \in News : n = [type |-> "EVENT", conn |-> ThisConn, data |-> "bind"]
      <4>1. [type |-> "EVENT", conn |-> ThisConn, data |-> "bind"] \in News
        BY <1>11, <2>1 DEF News, Events
      <4>. QED
        BY <4>1, Zenon
    <3>2. SendN2MMsg(n, "each") /\ bound' = bound \cup {ThisConn}
      BY <1>13, <2>3, <3>1 DEF EachBind, NotifyConnEvent
    <3>3. /\ memory' \in [0 .. BufLen -> Cell] /\ memory'[0] \in Heads
          /\ npc' = "push" /\ ret' = "each" /\ news' = n
      BY <3>2, TypeNews
    <3>. QED
      BY <1>1, <1>2, <1>11, <2>1, <3>1, <3>2, <3>3 DEF TypeInv, TypeOK
  <2>. QED
    BY <2>2, <2>3
<1>14. CASE EachClose
  <2>1. Each("CLOSE") /\ npc = "each" /\ UNCHANGED bound
    BY <1>14 DEF EachClose, Each
  <2>2. CASE UNCHANGED <<told, memory, npc, ret, news>>
    <3>1. fin' \in {fin, fin \cup {ThisConn}} /\ silent' \in {silent, silent \cup {ThisConn}}
      <4>1. /\ fin' = fin \/ fin' = fin \cup (IF told[ThisConn] = "connected" THEN {ThisConn} ELSE {})
            /\ silent' = silent \/ silent' = silent \cup {ThisConn}
        BY <1>14 DEF EachClose
      <4>. QED
        BY <4>1
    <3>2. ThisConn \in Conns
      BY <1>11, <2>1
    <3>3. fin' \subseteq Conns /\ silent' \subseteq Conns
      BY <1>1, <3>1, <3>2
    <3>. QED
      BY <1>1, <1>2, <1>11, <2>1, <2>2, <3>3 DEF TypeInv, TypeOK
  <2>3. CASE ~ UNCHANGED <<told, memory, npc, ret, news>>
    <3>1. PICK n \in News : n = [type |-> "EVENT", conn |-> ThisConn, data |-> "closed"]
      <4>1. [type |-> "EVENT", conn |-> ThisConn, data |-> "closed"] \in News
        BY <1>11, <2>1 DEF News, Events, Phases
      <4>. QED
        BY <4>1, Zenon
    <3>2. SendN2MMsg(n, "each") /\ told' = [told EXCEPT ![ThisConn] = "closed"] /\ UNCHANGED <<fin, silent>>
      BY <1>14, <2>3, <3>1 DEF EachClose, NotifyConnEvent
    <3>3. /\ memory' \in [0 .. BufLen -> Cell] /\ memory'[0] \in Heads
          /\ npc' = "push" /\ ret' = "each" /\ news' = n
      BY <3>2, TypeNews
    <3>4. told' \in [Conns -> Phases \cup {"nothing"}]
      BY <1>1, <3>2 DEF Phases
    <3>. QED
      BY <1>1, <1>2, <1>11, <2>1, <3>1, <3>2, <3>3, <3>4 DEF TypeInv, TypeOK
  <2>. QED
    BY <2>2, <2>3
<1>. QED
  BY <1>3, <1>4, <1>5, <1>6, <1>7, <1>8, <1>9, <1>10, <1>12, <1>13, <1>14 DEF Net

LEMMA TypeNext == TypeInv /\ [Next]_vars => TypeInv'
<1> SUFFICES ASSUME TypeInv, [Next]_vars PROVE TypeInv'
  OBVIOUS
<1>1. CASE UNCHANGED vars
  <2>1. UNCHANGED <<m_oM2NQueue, m_oN2MQueue, memory, mpc, mlen, npc, ret, news,
                    i, ulMsgLen, ptrData, iMsgNum, told, found, fin, bound, silent>>
    BY <1>1, Zenon DEF vars, main, pass, conns
  <2>. QED
    BY <2>1 DEF TypeInv, TypeOK
<1>. QED
  BY <1>1, TypeMain, TypeNet DEF Next

\* Types, the capacities of the rings and the limit of a pass (TypeOK).
THEOREM TypeCorrect == Spec => []TypeOK
<1>1. TypeInv => TypeOK
  BY DEF TypeInv
<1>. QED
  BY <1>1, TypeInit, TypeNext, PTL DEF Spec
-------------------------------------------------------------------------------
\* The threads take turns.

\* None of their calls overlap, and a peer sends no empty message (ProcM2NMsg would
\* not carry it out there).
Turns == ~Overlap /\ \A d \in Texts : Length[d] > 0

LEMMA AloneNext ==
    ASSUME Turns, TypeInv, Alone, Next
    PROVE  Alone'
<1>1. CASE Main
  <2>1. npc' = npc /\ (mpc' = "idle" \/ mpc' = mpc \/ npc = "io")
    BY <1>1 DEF Turns, Main, PushM2N, SendMsg, SendMsgPush, PopN2M, RecvMsgPop, RecvMsgRead, MainBegins, main
  <2>. QED
    BY <2>1 DEF Alone
<1>2. CASE Net
  <2>1. mpc' = mpc /\ (npc # "io" \/ mpc = "idle")
    BY <1>2 DEF Turns, Net, ConnEvent, ConnData, ConnFree, SendN2MPush, ProcM2NMsg, Leave, Take, Check,
         EachEnd, EachUnknown, EachInvalid, EachProto, EachBind, EachClose, Each, main, NetBegins
  <2>. QED
    BY <2>1 DEF Alone
<1>. QED
  BY <1>1, <1>2 DEF Next

\* A message that is copied to the buffer is there, all of it.
LEMMA FilledHolds ==
    ASSUME memory \in [0 .. BufLen -> Cell], NEW m \in Message, Len(m) <= 1 + MAX_BIZ_MSG_SIZE,
           memory' = Filled(m)
    PROVE  Holds(m)' /\ memory'[0] = m[1]
<1>1. Len(m) \in Nat /\ MAX_BIZ_MSG_SIZE \in Nat /\ BufLen = 1 + MAX_BIZ_MSG_SIZE
  BY PipelineAssumption DEF Message, BufLen
<1>2. Filled(m)[0] = m[1] /\ \A o \in 0 .. BufLen : o < Len(m) => Filled(m)[o] = m[o + 1]
  BY FilledFacts
<1>3. \A o \in 0 .. Len(m) - 1 : memory'[o] = m[o + 1]
  BY <1>1, <1>2
<1>. QED
  BY <1>2, <1>3 DEF Holds

\* What is pushed of it is the message.
LEMMA HeldCells ==
    ASSUME memory \in [0 .. BufLen -> Cell], NEW m \in Message, Len(m) <= 1 + MAX_BIZ_MSG_SIZE, Holds(m)
    PROVE  Cells(0, Len(m)) = m
<1>1. Len(m) \in Nat /\ MAX_BIZ_MSG_SIZE \in Nat /\ BufLen = 1 + MAX_BIZ_MSG_SIZE /\ m \in Seq(Cell)
  BY PipelineAssumption DEF Message, BufLen
<1>2. /\ Cells(0, Len(m)) \in Seq(Cell) /\ Len(Cells(0, Len(m))) = Len(m)
      /\ \A k \in 1 .. Len(m) : 0 + k - 1 <= BufLen => Cells(0, Len(m))[k] = memory[0 + k - 1]
  BY <1>1, CellsFacts
<1>3. ASSUME NEW k \in 1 .. Len(m) PROVE Cells(0, Len(m))[k] = m[k]
  <2>1. PICK o \in 0 .. Len(m) - 1 : o = k - 1 /\ o + 1 = k
    <3>1. k - 1 \in 0 .. Len(m) - 1 /\ (k - 1) + 1 = k
      BY <1>1
    <3>. QED
      BY <3>1, Zenon
  <2>2. 0 + k - 1 = o /\ o <= BufLen
    BY <1>1, <2>1
  <2>3. memory[o] = m[o + 1]
    BY <2>1 DEF Holds
  <2>. QED
    BY <1>2, <2>1, <2>2, <2>3
<1>. QED
  BY <1>1, <1>2, <1>3

\* What is read of it behind the head are its other cells.
LEMMA HeldTail ==
    ASSUME memory \in [0 .. BufLen -> Cell], NEW m \in Message, NEW l \in Nat, Len(m) = 1 + l,
           Len(m) <= 1 + MAX_BIZ_MSG_SIZE, Holds(m)
    PROVE  Cells(1, l) = Tail(m) /\ Tail(m) \in Seq(Cell)
<1>1. MAX_BIZ_MSG_SIZE \in Nat /\ BufLen = 1 + MAX_BIZ_MSG_SIZE /\ m \in Seq(Cell) /\ l <= MAX_BIZ_MSG_SIZE
  BY PipelineAssumption DEF Message, BufLen
<1>2. /\ Cells(1, l) \in Seq(Cell) /\ Len(Cells(1, l)) = l
      /\ \A k \in 1 .. l : 1 + k - 1 <= BufLen => Cells(1, l)[k] = memory[1 + k - 1]
  BY CellsFacts
<1>3. /\ Tail(m) \in Seq(Cell) /\ Len(Tail(m)) = l
      /\ \A k \in 1 .. l : Tail(m)[k] = m[k + 1]
  BY <1>1
<1>4. ASSUME NEW k \in 1 .. l PROVE Cells(1, l)[k] = Tail(m)[k]
  <2>1. 1 + k - 1 = k /\ k <= BufLen /\ k \in 0 .. Len(m) - 1
    BY <1>1
  <2>2. memory[k] = m[k + 1]
    BY <2>1 DEF Holds
  <2>3. Cells(1, l)[k] = memory[k]
    BY <1>2, <2>1
  <2>. QED
    BY <1>3, <2>2, <2>3, Zenon
<1>. QED
  BY <1>2, <1>3, <1>4

\* Events are never too long, nor empty.
LEMMA NewsLength ==
    ASSUME Turns, NEW n \in News, n.data \in Texts => Length[n.data] <= MAX_BIZ_MSG_SIZE
    PROVE  Length[n.data] \in 1 .. MAX_BIZ_MSG_SIZE
<1>1. Length[n.data] \in Nat /\ MAX_BIZ_MSG_SIZE \in Nat
  BY RecvCellsFacts, PipelineAssumption
<1>2. CASE n.data \in Texts
  BY <1>1, <1>2 DEF Turns
<1>3. CASE n.data \notin Texts
  BY <1>3, PipelineAssumption DEF News
<1>. QED
  BY <1>2, <1>3
-------------------------------------------------------------------------------
\* News are heard as they were sent.

\* A step that has to do with other things.
LEMMA NewsFrame ==
    ASSUME NewsInv, UNCHANGED <<heard, notified, m_oN2MQueue>>,
           mpc' = "read" <=> mpc = "read",
           mpc' = "read" => UNCHANGED memory,
           npc' = "push" => npc = "push" /\ UNCHANGED <<memory, news>>
    PROVE  NewsInv'
<1>1. Reading' = Reading
  BY DEF Reading
<1>2. (mpc = "read" => Holds(notified[Len(heard) + 1]))'
  BY DEF NewsInv, Holds
<1>3. (npc = "push" => Length[news.data] \in 1 .. MAX_BIZ_MSG_SIZE /\ Holds(RecvCells(news)))'
  BY DEF NewsInv, Holds
<1>. QED
  BY <1>1, <1>2, <1>3 DEF NewsInv

\* News are put into the buffer.
LEMMA NewsFilled ==
    ASSUME TypeInv, NewsInv, UNCHANGED <<heard, notified, m_oN2MQueue, mpc>>, mpc = "idle",
           NEW n \in News, Length[n.data] \in 1 .. MAX_BIZ_MSG_SIZE, NEW to, SendN2MMsg(n, to)
    PROVE  NewsInv' /\ Holds(RecvCells(n))'
<1>1. Reading' = Reading
  BY DEF Reading
<1>2. memory' = Filled(RecvCells(n)) /\ news' = n
  BY DEF SendN2MMsg
<1>3. PICK m \in Message : m = RecvCells(n) /\ Len(m) <= 1 + MAX_BIZ_MSG_SIZE
  <2>1. RecvCells(n) \in Message /\ Len(RecvCells(n)) = 1 + Length[n.data]
    BY RecvCellsFacts
  <2>2. Len(RecvCells(n)) <= 1 + MAX_BIZ_MSG_SIZE
    BY <2>1, PipelineAssumption
  <2>. QED
    BY <2>1, <2>2, Zenon
<1>4. Holds(m)'
  BY <1>2, <1>3, FilledHolds DEF TypeInv
<1>5. Holds(RecvCells(n))'
  BY <1>3, <1>4
<1>. QED
  BY <1>1, <1>2, <1>5 DEF NewsInv

\* One more is heard.
LEMMA HeardOneMore ==
    ASSUME NEW q \in Seq(Seq(Cell)), NEW s \in Seq(Cell)
    PROVE  /\ Append(q, s) \in Seq(Seq(Cell)) /\ Len(Append(q, s)) = Len(q) + 1
           /\ \A k \in 1 .. Len(q) : Append(q, s)[k] = q[k]
           /\ Append(q, s)[Len(q) + 1] = s
  OBVIOUS

\* It was sent, as those before it.
LEMMA OneMoreAsSent ==
    ASSUME NEW h \in Nat, NEW old, NEW new, NEW sent,
           \A k \in 1 .. h : new[k] = old[k] /\ old[k] \in {sent[k], Tail(sent[k])},
           new[h + 1] \in {sent[h + 1], Tail(sent[h + 1])}
    PROVE  \A k \in 1 .. h + 1 : new[k] \in {sent[k], Tail(sent[k])}
<1>1. TAKE k \in 1 .. h + 1
<1>2. k \in 1 .. h \/ k = h + 1
  OBVIOUS
<1>. QED
  BY <1>2, Zenon

\* The main thread takes the next news, by itself or into the buffer.
LEMMA NewsTaken ==
    ASSUME Turns, TypeInv, NewsInv, PopN2M \/ RecvMsgPop
    PROVE  NewsInv'
<1>1. /\ m_oN2MQueue \in Seq(Message) /\ m_oN2MQueue # <<>> /\ m_oN2MQueue' = Tail(m_oN2MQueue)
      /\ UNCHANGED <<npc, news, notified>> /\ mpc = "idle" /\ Reading = 0
  BY DEF PopN2M, RecvMsgPop, MainBegins, up, TypeInv, Reading
<1>2. PICK first \in Message : /\ first = Head(m_oN2MQueue) /\ first = m_oN2MQueue[1]
                               /\ Len(m_oN2MQueue) > 0
  BY <1>1, QueueFacts
<1>3. /\ Len(m_oN2MQueue) \in Nat /\ Len(m_oN2MQueue') = Len(m_oN2MQueue) - 1
      /\ \A k \in 1 .. Len(m_oN2MQueue) - 1 : m_oN2MQueue'[k] = m_oN2MQueue[k + 1]
  BY <1>1, QueueFacts
<1>4. PICK h \in Nat : h = Len(heard)
  <2>1. Len(heard) \in Nat
    BY DEF NewsInv
  <2>. QED
    BY <2>1, Zenon
<1>5. /\ heard \in Seq(Seq(Cell)) /\ notified \in Seq(Message)
      /\ Len(notified) = h + Len(m_oN2MQueue)
      /\ \A k \in 1 .. h : heard[k] \in {notified[k], Tail(notified[k])}
      /\ \A k \in 1 .. Len(m_oN2MQueue) : m_oN2MQueue[k] = notified[h + k]
  BY <1>1, <1>4 DEF NewsInv
<1>6. first = notified[h + 1]
  BY <1>2, <1>3, <1>5
<1>7. \A k \in 1 .. Len(m_oN2MQueue') : m_oN2MQueue'[k] = notified[h + 1 + k]
  <2>1. TAKE k \in 1 .. Len(m_oN2MQueue')
  <2>2. k \in 1 .. Len(m_oN2MQueue) - 1 /\ k + 1 \in 1 .. Len(m_oN2MQueue) /\ h + (k + 1) = h + 1 + k
    BY <1>3, <1>4
  <2>3. m_oN2MQueue'[k] = m_oN2MQueue[k + 1] /\ m_oN2MQueue[k + 1] = notified[h + (k + 1)]
    BY <1>3, <1>5, <2>2
  <2>. QED
    BY <2>2, <2>3
<1>8. Len(notified) = h + 1 + Len(m_oN2MQueue')
  BY <1>3, <1>4, <1>5
<1>9. CASE PopN2M
  <2>1. heard' = Append(heard, first) /\ UNCHANGED <<memory, mpc>>
    BY <1>2, <1>9 DEF PopN2M, main
  <2>2. /\ heard' \in Seq(Seq(Cell)) /\ Len(heard') = h + 1
        /\ \A k \in 1 .. h : heard'[k] = heard[k]
        /\ heard'[h + 1] = first
    BY <1>2, <1>4, <1>5, <2>1, HeardOneMore DEF Message
  <2>3. \A k \in 1 .. h + 1 : heard'[k] \in {notified[k], Tail(notified[k])}
    <3>1. \A k \in 1 .. h : heard'[k] = heard[k] /\ heard[k] \in {notified[k], Tail(notified[k])}
      BY <1>5, <2>2, Zenon
    <3>2. heard'[h + 1] \in {notified[h + 1], Tail(notified[h + 1])}
      BY <1>6, <2>2, Zenon
    <3>. QED
      BY <3>1, <3>2, OneMoreAsSent, Zenon
  <2>4. Reading' = 0 /\ mpc' = "idle"
    BY <1>1, <2>1 DEF Reading
  <2>5. (npc = "push" => Length[news.data] \in 1 .. MAX_BIZ_MSG_SIZE /\ Holds(RecvCells(news)))'
    BY <1>1, <2>1 DEF NewsInv, Holds
  <2>6. \A k \in 1 .. Len(notified') : \E n \in News :
          Length[n.data] \in 1 .. MAX_BIZ_MSG_SIZE /\ notified'[k] = RecvCells(n)
    BY <1>1 DEF NewsInv
  <2>7. /\ heard' \in Seq(Seq(Cell)) /\ notified' \in Seq(Message)
        /\ Len(notified') = Len(heard') + Reading' + Len(m_oN2MQueue')
        /\ \A k \in 1 .. Len(heard') : heard'[k] \in {notified'[k], Tail(notified'[k])}
        /\ \A k \in 1 .. Len(m_oN2MQueue') : m_oN2MQueue'[k] = notified'[Len(heard') + Reading' + k]
    BY <1>1, <1>3, <1>4, <1>5, <1>7, <1>8, <2>2, <2>3, <2>4
  <2>. QED
    BY <2>4, <2>5, <2>6, <2>7, Zenon DEF NewsInv
<1>10. CASE RecvMsgPop
  <2>1. npc' = "io"
    BY <1>1, <1>10 DEF RecvMsgPop, MainBegins, Turns
  <2>2. heard' = heard /\ memory' = Filled(first) /\ mpc' = "read" /\ Reading' = 1
    BY <1>2, <1>10 DEF RecvMsgPop, up, Reading
  <2>3. Len(first) <= 1 + MAX_BIZ_MSG_SIZE
    <3>1. h + 1 \in 1 .. Len(notified)
      BY <1>2, <1>3, <1>4, <1>5
    <3>2. PICK n \in News : Length[n.data] \in 1 .. MAX_BIZ_MSG_SIZE /\ notified[h + 1] = RecvCells(n)
      BY <3>1 DEF NewsInv
    <3>3. Len(first) = 1 + Length[n.data]
      BY <1>6, <3>2, RecvCellsFacts
    <3>. QED
      BY <3>2, <3>3, PipelineAssumption
  <2>4. Holds(first)'
    BY <1>1, <2>2, <2>3, FilledHolds DEF TypeInv
  <2>5. (mpc = "read" => Holds(notified[Len(heard) + 1]))'
    <3>1. notified'[Len(heard') + 1] = first
      BY <1>1, <1>4, <1>6, <2>2
    <3>. QED
      BY <2>4, <3>1 DEF Holds
  <2>6. \A k \in 1 .. Len(notified') : \E n \in News :
          Length[n.data] \in 1 .. MAX_BIZ_MSG_SIZE /\ notified'[k] = RecvCells(n)
    BY <1>1 DEF NewsInv
  <2>7. /\ heard' \in Seq(Seq(Cell)) /\ notified' \in Seq(Message)
        /\ Len(notified') = Len(heard') + Reading' + Len(m_oN2MQueue')
        /\ \A k \in 1 .. Len(heard') : heard'[k] \in {notified'[k], Tail(notified'[k])}
        /\ \A k \in 1 .. Len(m_oN2MQueue') : m_oN2MQueue'[k] = notified'[Len(heard') + Reading' + k]
    BY <1>1, <1>3, <1>4, <1>5, <1>7, <1>8, <2>2
  <2>8. npc' # "push"
    BY <2>1
  <2>. QED
    BY <2>5, <2>6, <2>7, <2>8, Zenon DEF NewsInv
<1>. QED
  BY <1>9, <1>10

\* RecvMsg copies the news out of the buffer.
LEMMA NewsRead ==
    ASSUME TypeInv, NewsInv, RecvMsgRead
    PROVE  NewsInv'
<1>1. /\ mpc = "read" /\ mpc' = "idle" /\ UNCHANGED <<m_oN2MQueue, memory, npc, news, notified>>
  BY DEF RecvMsgRead
<1>2. Reading = 1 /\ Reading' = 0
  BY <1>1 DEF Reading
<1>3. PICK h \in Nat : h = Len(heard)
  <2>1. Len(heard) \in Nat
    BY DEF NewsInv
  <2>. QED
    BY <2>1, Zenon
<1>4. /\ heard \in Seq(Seq(Cell)) /\ notified \in Seq(Message)
      /\ Len(notified) = h + 1 + Len(m_oN2MQueue)
      /\ \A k \in 1 .. h : heard[k] \in {notified[k], Tail(notified[k])}
      /\ \A k \in 1 .. Len(m_oN2MQueue) : m_oN2MQueue[k] = notified[h + 1 + k]
      /\ Holds(notified[h + 1])
  BY <1>1, <1>2, <1>3 DEF NewsInv
<1>5. Len(m_oN2MQueue) \in Nat
  BY DEF TypeInv
<1>6. h + 1 \in 1 .. Len(notified)
  BY <1>3, <1>4, <1>5
<1>7. PICK n \in News : Length[n.data] \in 1 .. MAX_BIZ_MSG_SIZE /\ notified[h + 1] = RecvCells(n)
  BY <1>6 DEF NewsInv
<1>8. PICK m \in Message : m = notified[h + 1]
  BY <1>4, <1>6
<1>9. /\ Len(m) = 1 + Length[n.data] /\ Length[n.data] \in Nat
      /\ m[1] = RecvHead(n.type, n.conn, Length[n.data]) /\ Len(m) <= 1 + MAX_BIZ_MSG_SIZE
  BY <1>7, <1>8, RecvCellsFacts, PipelineAssumption, SMTT(30)
<1>10. Holds(m)
  BY <1>4, <1>8
<1>11. memory[0] = m[1]
  <2>1. 0 \in 0 .. Len(m) - 1 /\ 0 + 1 = 1
    BY <1>9
  <2>. QED
    BY <1>10, <2>1 DEF Holds
<1>12. ~ IsSend /\ memory[0].iDataLen = Length[n.data]
  BY <1>9, <1>11 DEF RecvHead, IsSend
<1>13. Cells(1, Length[n.data]) = Tail(m) /\ Tail(m) \in Seq(Cell)
  <2>1. memory \in [0 .. BufLen -> Cell] /\ Len(m) = 1 + Length[n.data]
        /\ Len(m) <= 1 + MAX_BIZ_MSG_SIZE /\ Length[n.data] \in Nat
    BY <1>9 DEF TypeInv
  <2>2. PICK l \in Nat : l = Length[n.data]
    BY <2>1, Zenon
  <2>. QED
    BY <1>10, <2>1, <2>2, HeldTail
<1>14. heard' = Append(heard, Tail(m))
  <2>1. heard' = Append(heard, Cells(1, memory[0].iDataLen))
    BY <1>7, <1>12 DEF RecvMsgRead
  <2>. QED
    BY <1>12, <1>13, <2>1, Zenon
<1>15. /\ heard' \in Seq(Seq(Cell)) /\ Len(heard') = h + 1
       /\ \A k \in 1 .. h : heard'[k] = heard[k]
       /\ heard'[h + 1] = Tail(m)
  BY <1>3, <1>4, <1>13, <1>14, HeardOneMore
<1>16. \A k \in 1 .. h + 1 : heard'[k] \in {notified[k], Tail(notified[k])}
  <2>1. \A k \in 1 .. h : heard'[k] = heard[k] /\ heard[k] \in {notified[k], Tail(notified[k])}
    BY <1>4, <1>15, Zenon
  <2>2. heard'[h + 1] \in {notified[h + 1], Tail(notified[h + 1])}
    BY <1>8, <1>15, Zenon
  <2>. QED
    BY <2>1, <2>2, OneMoreAsSent, Zenon
<1>17. (npc = "push" => Length[news.data] \in 1 .. MAX_BIZ_MSG_SIZE /\ Holds(RecvCells(news)))'
  BY <1>1 DEF NewsInv, Holds
<1>18. \A k \in 1 .. Len(notified') : \E e \in News :
          Length[e.data] \in 1 .. MAX_BIZ_MSG_SIZE /\ notified'[k] = RecvCells(e)
  BY <1>1 DEF NewsInv
<1>19. /\ heard' \in Seq(Seq(Cell)) /\ notified' \in Seq(Message)
       /\ Len(notified') = Len(heard') + Reading' + Len(m_oN2MQueue')
       /\ \A k \in 1 .. Len(heard') : heard'[k] \in {notified'[k], Tail(notified'[k])}
       /\ \A k \in 1 .. Len(m_oN2MQueue') : m_oN2MQueue'[k] = notified'[Len(heard') + Reading' + k]
  BY <1>1, <1>2, <1>3, <1>4, <1>5, <1>15, <1>16
<1>20. mpc' # "read"
  BY <1>1
<1>. QED
  BY <1>17, <1>18, <1>19, <1>20, Zenon DEF NewsInv

\* The news in the buffer are the message that is pushed.
LEMMA PushedCells ==
    ASSUME TypeInv, NewsInv, npc = "push"
    PROVE  /\ news \in News /\ Length[news.data] \in 1 .. MAX_BIZ_MSG_SIZE
           /\ RecvCells(news) \in Message
           /\ Cells(0, 1 + Length[news.data]) = RecvCells(news)
           /\ memory[0] = RecvHead(news.type, news.conn, Length[news.data])
<1>1. /\ news \in News /\ Length[news.data] \in 1 .. MAX_BIZ_MSG_SIZE /\ Holds(RecvCells(news))
      /\ memory \in [0 .. BufLen -> Cell]
  BY DEF TypeInv, NewsInv
<1>2. PICK m \in Message :
         m = RecvCells(news) /\ Len(m) = 1 + Length[news.data] /\ m[1] = RecvHead(news.type, news.conn, Length[news.data])
  <2>1. /\ RecvCells(news) \in Message /\ Len(RecvCells(news)) = 1 + Length[news.data]
        /\ RecvCells(news)[1] = RecvHead(news.type, news.conn, Length[news.data])
    BY <1>1, RecvCellsFacts
  <2>. QED
    BY <2>1, Zenon
<1>3. Len(m) <= 1 + MAX_BIZ_MSG_SIZE
  BY <1>1, <1>2, PipelineAssumption
<1>4. Cells(0, Len(m)) = m
  BY <1>1, <1>2, <1>3, HeldCells
<1>5. memory[0] = m[1]
  <2>1. 0 \in 0 .. Len(m) - 1 /\ 0 + 1 = 1
    BY <1>1, <1>2
  <2>. QED
    BY <1>1, <1>2, <2>1 DEF Holds
<1>. QED
  BY <1>1, <1>2, <1>4, <1>5

\* They are pushed, or refused.
LEMMA NewsPushed ==
    ASSUME TypeInv, Alone, NewsInv, SendN2MPush
    PROVE  NewsInv'
<1>1. /\ npc = "push" /\ npc' = ret /\ ret \in {"io", "each"} /\ mpc = "idle" /\ mpc' = "idle"
      /\ heard' = heard /\ Reading = 0 /\ Reading' = 0
  BY DEF SendN2MPush, Alone, TypeInv, TypeOK, main, Reading
<1>2. CASE Len(m_oN2MQueue) < QueueLen
  <2>1. PICK m \in Message : m = RecvCells(news)
    BY <1>1, PushedCells
  <2>2. m_oN2MQueue' = Append(m_oN2MQueue, m) /\ notified' = Append(notified, m)
    BY <1>1, <1>2, <2>1, PushedCells DEF SendN2MPush
  <2>3. PICK h \in Nat : h = Len(heard)
    <3>1. Len(heard) \in Nat
      BY DEF NewsInv
    <3>. QED
      BY <3>1, Zenon
  <2>4. PICK l \in Nat : l = Len(m_oN2MQueue)
    <3>1. Len(m_oN2MQueue) \in Nat
      BY DEF TypeInv
    <3>. QED
      BY <3>1, Zenon
  <2>5. /\ heard \in Seq(Seq(Cell)) /\ notified \in Seq(Message) /\ m_oN2MQueue \in Seq(Message)
        /\ Len(notified) = h + l
        /\ \A k \in 1 .. h : heard[k] \in {notified[k], Tail(notified[k])}
        /\ \A k \in 1 .. l : m_oN2MQueue[k] = notified[h + k]
    <3>1. m_oN2MQueue \in Seq(Message)
      BY DEF TypeInv
    <3>2. Len(heard) + Reading = h
      BY <1>1, <2>3
    <3>. QED
      BY <2>3, <2>4, <3>1, <3>2 DEF NewsInv
  <2>6. /\ m_oN2MQueue' \in Seq(Message) /\ Len(m_oN2MQueue') = l + 1
        /\ \A k \in 1 .. l : m_oN2MQueue'[k] = m_oN2MQueue[k]
        /\ m_oN2MQueue'[l + 1] = m
    BY <2>2, <2>4, <2>5, QueueFacts
  <2>7. /\ notified' \in Seq(Message) /\ Len(notified') = h + l + 1
        /\ \A k \in 1 .. h + l : notified'[k] = notified[k]
        /\ notified'[h + l + 1] = m
    BY <2>2, <2>5, QueueFacts
  <2>8. \A k \in 1 .. l + 1 : m_oN2MQueue'[k] = notified'[h + k]
    <3>1. TAKE k \in 1 .. l + 1
    <3>2. CASE k = l + 1
      BY <2>3, <2>4, <2>6, <2>7, <3>2
    <3>3. CASE k # l + 1
      <4>1. k \in 1 .. l /\ h + k \in 1 .. h + l
        BY <2>3, <2>4, <3>3
      <4>. QED
        BY <2>5, <2>6, <2>7, <4>1
    <3>. QED
      BY <3>2, <3>3
  <2>9. \A k \in 1 .. h : heard[k] \in {notified'[k], Tail(notified'[k])}
    <3>1. TAKE k \in 1 .. h
    <3>2. k \in 1 .. h + l
      BY <2>3, <2>4
    <3>3. heard[k] \in {notified[k], Tail(notified[k])} /\ notified'[k] = notified[k]
      BY <2>5, <2>7, <3>2
    <3>. QED
      BY <3>3, Zenon
  <2>10. \A k \in 1 .. h + l + 1 : \E n \in News :
            Length[n.data] \in 1 .. MAX_BIZ_MSG_SIZE /\ notified'[k] = RecvCells(n)
    <3>1. TAKE k \in 1 .. h + l + 1
    <3>2. CASE k = h + l + 1
      BY <1>1, <2>1, <2>7, <3>2, PushedCells
    <3>3. CASE k # h + l + 1
      <4>1. k \in 1 .. h + l
        BY <2>3, <2>4, <3>3
      <4>2. \E n \in News : Length[n.data] \in 1 .. MAX_BIZ_MSG_SIZE /\ notified[k] = RecvCells(n)
        BY <2>5, <4>1 DEF NewsInv
      <4>. QED
        BY <2>7, <4>1, <4>2
    <3>. QED
      BY <3>2, <3>3
  <2>11. /\ heard' \in Seq(Seq(Cell)) /\ notified' \in Seq(Message)
         /\ Len(notified') = Len(heard') + Reading' + Len(m_oN2MQueue')
         /\ \A k \in 1 .. Len(heard') : heard'[k] \in {notified'[k], Tail(notified'[k])}
         /\ \A k \in 1 .. Len(m_oN2MQueue') : m_oN2MQueue'[k] = notified'[Len(heard') + Reading' + k]
         /\ \A k \in 1 .. Len(notified') : \E n \in News :
               Length[n.data] \in 1 .. MAX_BIZ_MSG_SIZE /\ notified'[k] = RecvCells(n)
    <3>1. Len(heard') = h /\ Len(m_oN2MQueue') = l + 1 /\ Len(notified') = h + l + 1 /\ Reading' = 0
      BY <1>1, <2>3, <2>6, <2>7
    <3>2. heard' \in Seq(Seq(Cell)) /\ notified' \in Seq(Message)
      BY <1>1, <2>5, <2>7
    <3>3. Len(notified') = Len(heard') + Reading' + Len(m_oN2MQueue')
      BY <2>3, <2>4, <3>1
    <3>4. \A k \in 1 .. Len(heard') : heard'[k] \in {notified'[k], Tail(notified'[k])}
      BY <1>1, <2>9, <3>1, Zenon
    <3>5. \A k \in 1 .. Len(m_oN2MQueue') : m_oN2MQueue'[k] = notified'[Len(heard') + Reading' + k]
      <4>1. Len(heard') + Reading' = h
        BY <2>3, <3>1
      <4>. QED
        BY <2>8, <3>1, <4>1, Zenon
    <3>6. \A k \in 1 .. Len(notified') : \E n \in News :
             Length[n.data] \in 1 .. MAX_BIZ_MSG_SIZE /\ notified'[k] = RecvCells(n)
      BY <2>10, <3>1, Zenon
    <3>. QED
      BY <3>2, <3>3, <3>4, <3>5, <3>6
  <2>12. mpc' # "read" /\ npc' # "push"
    BY <1>1
  <2>. QED
    BY <2>11, <2>12, Zenon DEF NewsInv
<1>3. CASE ~ (Len(m_oN2MQueue) < QueueLen)
  <2>1. UNCHANGED <<m_oN2MQueue, notified, heard>>
    BY <1>1, <1>3 DEF SendN2MPush
  <2>2. mpc' # "read" /\ npc' # "push" /\ mpc # "read"
    BY <1>1
  <2>. QED
    BY <2>1, <2>2, NewsFrame
<1>. QED
  BY <1>2, <1>3

\* The steps that neither send nor hear news.
LEMMA NewsOther ==
    ASSUME Turns, TypeInv, Alone, NewsInv,
           \/ \E r \in Requests : PushM2N(r)
           \/ \E l \in Lists, d \in Texts : SendMsg(l, d)
           \/ SendMsgPush
           \/ \E c \in Conns : ConnFree(c)
           \/ ProcM2NMsg \/ Leave \/ Take \/ Check
           \/ EachEnd \/ EachUnknown \/ EachInvalid \/ EachProto
    PROVE  NewsInv'
<1>1. UNCHANGED <<heard, notified, m_oN2MQueue>>
  BY DEF PushM2N, SendMsg, SendMsgPush, ConnFree, ProcM2NMsg, Leave, Take, Check,
         EachEnd, EachUnknown, EachInvalid, EachProto, Each, up
<1>2. mpc' = "read" <=> mpc = "read"
  BY DEF PushM2N, SendMsg, SendMsgPush, ConnFree, ProcM2NMsg, Leave, Take, Check,
         EachEnd, EachUnknown, EachInvalid, EachProto, Each, main, MainBegins
<1>3. mpc = "read" => UNCHANGED memory
  <2>1. \/ UNCHANGED memory
        \/ mpc = "idle"
        \/ npc # "io"
    BY DEF PushM2N, SendMsg, SendMsgPush, ConnFree, ProcM2NMsg, Leave, Take, Check,
         EachEnd, EachUnknown, EachInvalid, EachProto, Each, main, MainBegins
  <2>. QED
    BY <2>1 DEF Alone
<1>4. npc' = "push" => npc = "push" /\ UNCHANGED <<memory, news>>
  BY DEF PushM2N, SendMsg, SendMsgPush, ConnFree, ProcM2NMsg, Leave, Take, Check, Turns,
         EachEnd, EachUnknown, EachInvalid, EachProto, Each, main, MainBegins, NetBegins
<1>. QED
  BY <1>1, <1>2, <1>3, <1>4, NewsFrame

\* A connection's news and data are put into the buffer.
LEMMA NewsOfConn ==
    ASSUME Turns, TypeInv, NewsInv, NEW c \in Conns,
           (\E e \in Phases : ConnEvent(c, e)) \/ (\E d \in Texts : ConnData(c, d))
    PROVE  NewsInv'
<1>1. /\ UNCHANGED <<heard, notified, m_oN2MQueue, mpc>> /\ mpc = "idle"
  BY DEF ConnEvent, ConnData, NetBegins, SendN2MMsg, NotifyConnEvent, Turns, main, up
<1>2. PICK n \in News : /\ n.data \in Texts => Length[n.data] <= MAX_BIZ_MSG_SIZE
                        /\ SendN2MMsg(n, "io")
  <2>1. CASE \E e \in Phases : ConnEvent(c, e)
    <3>1. PICK e \in Phases : SendN2MMsg([type |-> "EVENT", conn |-> c, data |-> e], "io")
      BY <2>1 DEF ConnEvent, NotifyConnEvent
    <3>2. [type |-> "EVENT", conn |-> c, data |-> e] \in News
      BY DEF News, Events
    <3>3. Length[e] <= MAX_BIZ_MSG_SIZE
      BY PipelineAssumption DEF Events
    <3>. QED
      BY <3>1, <3>2, <3>3
  <2>2. CASE \E d \in Texts : ConnData(c, d)
    <3>1. PICK d \in Texts : /\ SendN2MMsg([type |-> "PROTO", conn |-> c, data |-> d], "io")
                             /\ Length[d] <= MAX_BIZ_MSG_SIZE
      BY <2>2 DEF ConnData
    <3>2. [type |-> "PROTO", conn |-> c, data |-> d] \in News
      BY DEF News
    <3>. QED
      BY <3>1, <3>2
  <2>. QED
    BY <2>1, <2>2
<1>3. Length[n.data] \in 1 .. MAX_BIZ_MSG_SIZE
  BY <1>2, NewsLength
<1>. QED
  BY <1>1, <1>2, <1>3, NewsFilled

\* Binding and closing say so, unless there is nothing to say.
LEMMA NewsOfEach ==
    ASSUME Turns, TypeInv, Alone, NewsInv, EachBind \/ EachClose
    PROVE  NewsInv'
<1>1. /\ UNCHANGED <<heard, notified, m_oN2MQueue, mpc>> /\ mpc = "idle" /\ npc = "each"
      /\ ThisConn \in Conns
  BY DEF EachBind, EachClose, Each, up, main, Alone, TypeInv, TypeOK
<1>2. CASE UNCHANGED <<memory, npc, ret, news>>
  BY <1>1, <1>2, NewsFrame
<1>3. CASE ~ UNCHANGED <<memory, npc, ret, news>>
  <2>1. PICK e \in Events : SendN2MMsg([type |-> "EVENT", conn |-> ThisConn, data |-> e], "each")
    BY <1>3 DEF EachBind, EachClose, NotifyConnEvent, Events, Phases
  <2>2. PICK n \in News : n = [type |-> "EVENT", conn |-> ThisConn, data |-> e]
    <3>1. [type |-> "EVENT", conn |-> ThisConn, data |-> e] \in News
      BY <1>1 DEF News
    <3>. QED
      BY <3>1, Zenon
  <2>3. Length[n.data] \in 1 .. MAX_BIZ_MSG_SIZE
    BY <2>2, PipelineAssumption
  <2>. QED
    BY <1>1, <2>1, <2>2, <2>3, NewsFilled
<1>. QED
  BY <1>2, <1>3

LEMMA NewsNext ==
    ASSUME Turns, TypeInv, Alone, NewsInv, Next
    PROVE  NewsInv'
<1>1. CASE PopN2M \/ RecvMsgPop
  BY <1>1, NewsTaken
<1>2. CASE RecvMsgRead
  BY <1>2, NewsRead
<1>3. CASE SendN2MPush
  BY <1>3, NewsPushed
<1>4. CASE \E c \in Conns : (\E e \in Phases : ConnEvent(c, e)) \/ (\E d \in Texts : ConnData(c, d))
  BY <1>4, NewsOfConn
<1>5. CASE EachBind \/ EachClose
  BY <1>5, NewsOfEach
<1>. QED
  BY <1>1, <1>2, <1>3, <1>4, <1>5, NewsOther DEF Next, Main, Net

LEMMA NewsInit == Init => NewsInv /\ Alone
<1> SUFFICES ASSUME Init PROVE NewsInv /\ Alone
  OBVIOUS
<1>1. /\ heard = <<>> /\ notified = <<>> /\ m_oN2MQueue = <<>> /\ mpc = "idle" /\ npc = "io"
      /\ Reading = 0
  BY DEF Init, Reading
<1>2. 1 .. 0 = {} /\ Len(<<>>) = 0 /\ <<>> \in Seq(Message)
  OBVIOUS
<1>3. Len(notified) = Len(heard) + Reading + Len(m_oN2MQueue)
  BY <1>1, <1>2
<1>. QED
  BY <1>1, <1>2, <1>3 DEF NewsInv, Alone

LEMMA NewsStep == Turns /\ TypeInv /\ Alone /\ NewsInv /\ [Next]_vars => Alone' /\ NewsInv'
<1> SUFFICES ASSUME Turns, TypeInv, Alone, NewsInv, [Next]_vars PROVE Alone' /\ NewsInv'
  OBVIOUS
<1>1. CASE UNCHANGED vars
  <2>1. UNCHANGED <<heard, notified, m_oN2MQueue, mpc, npc, memory, news>>
    BY <1>1, Zenon DEF vars, main, up
  <2>2. Alone'
    BY <2>1 DEF Alone
  <2>. QED
    BY <2>1, <2>2, NewsFrame
<1>. QED
  BY <1>1, AloneNext, NewsNext

\* The main thread gets the news that were sent, each once and in order, whole or all
\* but the head, unless its calls overlap with the net thread's (HeardAsSent).
THEOREM HeardInOrder ==
    ASSUME Turns
    PROVE  Spec => []HeardAsSent
<1>1. TypeInv /\ NewsInv => HeardAsSent
  <2>1. SUFFICES ASSUME TypeInv, NewsInv PROVE HeardAsSent
    OBVIOUS
  <2>2. /\ heard \in Seq(Seq(Cell)) /\ m_oN2MQueue \in Seq(Message)
        /\ Len(notified) = Len(heard) + Reading + Len(m_oN2MQueue)
        /\ \A k \in 1 .. Len(heard) : heard[k] \in {notified[k], Tail(notified[k])}
    BY <2>1, Zenon DEF NewsInv, TypeInv
  <2>3. Len(heard) \in Nat /\ Len(m_oN2MQueue) \in Nat /\ Reading \in {0, 1}
    BY <2>2 DEF Reading
  <2>4. Len(heard) <= Len(notified)
    BY <2>2, <2>3
  <2>. QED
    BY <2>2, <2>4, Zenon DEF HeardAsSent
<1>. QED
  BY <1>1, TypeInit, TypeNext, NewsInit, NewsStep, PTL DEF Spec
-------------------------------------------------------------------------------
\* The main thread is told the truth.

\* News of a connection.
LEMMA AboutFacts ==
    ASSUME NEW n \in News, Length[n.data] \in 1 .. MAX_BIZ_MSG_SIZE
    PROVE  /\ RecvCells(n)[2].data = n.data
           /\ \A c \in Conns : IsAbout(RecvCells(n), c) <=>
                                   n.type = "EVENT" /\ n.conn = c /\ n.data \in Phases
           /\ \A c \in Conns : ~IsAbout(Tail(RecvCells(n)), c)
<1>1. RecvCells(n)[1] = RecvHead(n.type, n.conn, Length[n.data])
  BY RecvCellsFacts
<1>2. RecvCells(n)[1 + 1] = [data |-> n.data, at |-> 1]
  <2>1. 1 \in 1 .. Length[n.data]
    BY PipelineAssumption
  <2>. QED
    BY <2>1, RecvCellsFacts
<1>3. RecvCells(n)[2].data = n.data
  BY <1>2
<1>4. /\ RecvCells(n)[1].type = n.type /\ RecvCells(n)[1].ulConnID = n.conn
      /\ "head" \in DOMAIN RecvCells(n)[1]
  BY <1>1 DEF RecvHead
<1>5. "head" \notin DOMAIN (Tail(RecvCells(n))[1])
  <2>1. PICK m \in Message : m = RecvCells(n) /\ Len(m) = 1 + Length[n.data]
    BY RecvCellsFacts
  <2>2. Tail(m)[1] = m[1 + 1]
    BY <2>1 DEF Message
  <2>3. Tail(RecvCells(n))[1] = [data |-> n.data, at |-> 1]
    BY <1>2, <2>1, <2>2
  <2>. QED
    BY <2>3
<1>. QED
  BY <1>3, <1>4, <1>5, Zenon DEF IsAbout

\* A step that has to do with other things.
LEMMA ToldFrame ==
    ASSUME ToldInv, UNCHANGED <<told, notified, lost, news>>, npc' = "push" <=> npc = "push"
    PROVE  ToldInv'
<1>1. \A c \in Conns : Said(c)' <=> Said(c)
  BY DEF Said
<1>2. RecvCells(news)' = RecvCells(news)
  OBVIOUS
<1>. QED
  BY <1>1, <1>2, Zenon DEF ToldInv

\* An event of a connection, or news of another kind, are put into the buffer.
LEMMA ToldFilled ==
    ASSUME ToldInv, UNCHANGED <<notified, lost>>, npc # "push", NEW n \in News, NEW to, SendN2MMsg(n, to),
           Length[n.data] \in 1 .. MAX_BIZ_MSG_SIZE, told \in [Conns -> Phases \cup {"nothing"}],
           \/ UNCHANGED told /\ ~ (n.type = "EVENT" /\ n.data \in Phases)
           \/ told' = [told EXCEPT ![n.conn] = n.data] /\ n.type = "EVENT" /\ n.data \in Phases
    PROVE  ToldInv'
<1>1. npc' = "push" /\ news' = n
  BY DEF SendN2MMsg
<1>2. \A c \in Conns : IsAbout(RecvCells(n), c) <=> n.type = "EVENT" /\ n.conn = c /\ n.data \in Phases
  BY AboutFacts
<1>3. SUFFICES ASSUME NEW c \in Conns, c \notin lost
               PROVE  IF IsAbout(RecvCells(n), c) THEN told'[c] = n.data ELSE Said(c)'
  BY <1>1, Zenon DEF ToldInv
<1>4. Said(c)
  BY <1>3 DEF ToldInv
<1>5. CASE IsAbout(RecvCells(n), c)
  <2>1. n.conn = c /\ told' = [told EXCEPT ![c] = n.data]
    BY <1>2, <1>5
  <2>. QED
    BY <1>5, <2>1
<1>6. CASE ~ IsAbout(RecvCells(n), c)
  <2>1. told'[c] = told[c]
    BY <1>2, <1>6
  <2>2. Said(c)'
    BY <1>4, <2>1 DEF Said
  <2>. QED
    BY <1>6, <2>2
<1>. QED
  BY <1>5, <1>6

\* The news are pushed, or refused.
LEMMA ToldPushed ==
    ASSUME TypeInv, Alone, NewsInv, ToldInv, SendN2MPush
    PROVE  ToldInv'
<1>1. npc = "push" /\ npc' # "push" /\ told' = told
  BY DEF SendN2MPush, conns, TypeInv, TypeOK
<1>2. PICK n \in News : n = news /\ Length[n.data] \in 1 .. MAX_BIZ_MSG_SIZE
  BY <1>1, PushedCells
<1>3. /\ RecvCells(n)[2].data = n.data
      /\ \A c \in Conns : IsAbout(RecvCells(n), c) <=> n.type = "EVENT" /\ n.conn = c /\ n.data \in Phases
  BY <1>2, AboutFacts
<1>4. SUFFICES ASSUME NEW c \in Conns, c \notin lost' PROVE Said(c)'
  BY <1>1 DEF ToldInv
<1>5. CASE Len(m_oN2MQueue) < QueueLen
  <2>1. PICK m \in Message : m = RecvCells(n)
    BY <1>2, RecvCellsFacts
  <2>2. notified' = Append(notified, m) /\ lost' = lost
    BY <1>1, <1>2, <1>5, <2>1, PushedCells DEF SendN2MPush
  <2>3. notified \in Seq(Message)
    BY DEF NewsInv
  <2>4. PICK l \in Nat : l = Len(notified)
    <3>1. Len(notified) \in Nat
      BY <2>3
    <3>. QED
      BY <3>1, Zenon
  <2>5. /\ Len(notified') = l + 1
        /\ \A k \in 1 .. l : notified'[k] = notified[k]
        /\ notified'[l + 1] = m
    BY <2>2, <2>3, <2>4, QueueFacts
  <2>6. CASE IsAbout(m, c)
    <3>1. told[c] = m[2].data
      BY <1>1, <1>2, <1>3, <1>4, <2>1, <2>2, <2>6 DEF ToldInv
    <3>2. l + 1 \in 1 .. Len(notified') /\ (l + 1) + 1 .. Len(notified') = {}
      BY <2>4, <2>5
    <3>3. IsAbout(notified'[l + 1], c) /\ notified'[l + 1][2].data = told'[c]
      BY <1>1, <2>5, <2>6, <3>1
    <3>. QED
      BY <3>2, <3>3, Zenon DEF Said
  <2>7. CASE ~ IsAbout(m, c)
    <3>1. Said(c)
      BY <1>1, <1>2, <1>4, <2>1, <2>2, <2>7 DEF ToldInv
    <3>2. CASE told[c] = "nothing" /\ \A k \in 1 .. Len(notified) : ~IsAbout(notified[k], c)
      <4>1. \A k \in 1 .. l + 1 : ~IsAbout(notified'[k], c)
        BY <2>4, <2>5, <2>7, <3>2
      <4>. QED
        BY <1>1, <2>5, <3>2, <4>1 DEF Said
    <3>3. CASE \E k \in 1 .. Len(notified) :
                  /\ IsAbout(notified[k], c) /\ notified[k][2].data = told[c]
                  /\ \A j \in k + 1 .. Len(notified) : ~IsAbout(notified[j], c)
      <4>1. PICK k \in 1 .. l :
                  /\ IsAbout(notified[k], c) /\ notified[k][2].data = told[c]
                  /\ \A j \in k + 1 .. l : ~IsAbout(notified[j], c)
        BY <2>4, <3>3
      <4>2. \A j \in k + 1 .. l + 1 : ~IsAbout(notified'[j], c)
        BY <2>4, <2>5, <2>7, <4>1
      <4>3. k \in 1 .. Len(notified') /\ notified'[k] = notified[k]
        BY <2>4, <2>5
      <4>. QED
        BY <1>1, <2>5, <4>1, <4>2, <4>3 DEF Said
    <3>. QED
      BY <3>1, <3>2, <3>3 DEF Said
  <2>. QED
    BY <2>6, <2>7
<1>6. CASE ~ (Len(m_oN2MQueue) < QueueLen)
  <2>1. lost' = lost \cup {n.conn} /\ notified' = notified
    BY <1>2, <1>6 DEF SendN2MPush
  <2>2. Said(c)
    BY <1>1, <1>2, <1>3, <1>4, <2>1 DEF ToldInv
  <2>. QED
    BY <1>1, <2>1, <2>2 DEF Said
<1>. QED
  BY <1>5, <1>6

LEMMA ToldNext ==
    ASSUME Turns, TypeInv, Alone, NewsInv, ToldInv, Next
    PROVE  ToldInv'
<1>1. told \in [Conns -> Phases \cup {"nothing"}]
  BY DEF TypeInv, TypeOK
<1>2. CASE SendN2MPush
  BY <1>2, ToldPushed
<1>3. CASE \E c \in Conns, e \in Phases : ConnEvent(c, e)
  <2>1. PICK c \in Conns, e \in Phases : ConnEvent(c, e)
    BY <1>3
  <2>2. PICK n \in News : n = [type |-> "EVENT", conn |-> c, data |-> e]
    <3>1. [type |-> "EVENT", conn |-> c, data |-> e] \in News
      BY DEF News, Events
    <3>. QED
      BY <3>1, Zenon
  <2>3. /\ SendN2MMsg(n, "io") /\ UNCHANGED <<notified, lost>> /\ npc # "push"
        /\ told' = [told EXCEPT ![c] = e]
    BY <2>1, <2>2 DEF ConnEvent, NotifyConnEvent, NetBegins, up
  <2>4. Length[n.data] \in 1 .. MAX_BIZ_MSG_SIZE
    BY <2>2, PipelineAssumption DEF Events
  <2>5. told' = [told EXCEPT ![n.conn] = n.data] /\ n.type = "EVENT" /\ n.data \in Phases
    BY <2>2, <2>3
  <2>. QED
    BY <1>1, <2>3, <2>4, <2>5, ToldFilled
<1>4. CASE \E c \in Conns, d \in Texts : ConnData(c, d)
  <2>1. PICK c \in Conns, d \in Texts : ConnData(c, d)
    BY <1>4
  <2>2. PICK n \in News : n = [type |-> "PROTO", conn |-> c, data |-> d]
    <3>1. [type |-> "PROTO", conn |-> c, data |-> d] \in News
      BY DEF News
    <3>. QED
      BY <3>1, Zenon
  <2>3. SendN2MMsg(n, "io") /\ UNCHANGED <<notified, lost, told>> /\ npc # "push" /\ n.type # "EVENT"
    BY <2>1, <2>2 DEF ConnData, NetBegins, up, conns
  <2>4. Length[n.data] \in 1 .. MAX_BIZ_MSG_SIZE
    BY <2>1, <2>2, NewsLength DEF ConnData
  <2>. QED
    BY <1>1, <2>3, <2>4, ToldFilled
<1>5. CASE EachBind \/ EachClose
  <2>1. npc = "each" /\ ThisConn \in Conns /\ UNCHANGED <<notified, lost>>
    BY <1>5 DEF EachBind, EachClose, Each, up, TypeInv, TypeOK
  <2>2. CASE UNCHANGED <<npc, news, told>>
    BY <2>1, <2>2, ToldFrame
  <2>3. CASE ~ UNCHANGED <<npc, news, told>>
    <3>1. PICK e \in Events : /\ SendN2MMsg([type |-> "EVENT", conn |-> ThisConn, data |-> e], "each")
                              /\ \/ UNCHANGED told /\ e = "bind"
                                 \/ told' = [told EXCEPT ![ThisConn] = e] /\ e = "closed"
      BY <1>5, <2>3 DEF EachBind, EachClose, NotifyConnEvent, Events, Phases
    <3>2. PICK n \in News : n = [type |-> "EVENT", conn |-> ThisConn, data |-> e]
      <4>1. [type |-> "EVENT", conn |-> ThisConn, data |-> e] \in News
        BY <2>1 DEF News
      <4>. QED
        BY <4>1, Zenon
    <3>3. Length[n.data] \in 1 .. MAX_BIZ_MSG_SIZE
      BY <3>2, PipelineAssumption
    <3>4. \/ UNCHANGED told /\ ~ (n.type = "EVENT" /\ n.data \in Phases)
          \/ told' = [told EXCEPT ![n.conn] = n.data] /\ n.type = "EVENT" /\ n.data \in Phases
      BY <3>1, <3>2 DEF Phases
    <3>5. SendN2MMsg(n, "each")
      BY <3>1, <3>2
    <3>. QED
      BY <1>1, <2>1, <3>3, <3>4, <3>5, ToldFilled
  <2>. QED
    BY <2>2, <2>3
<1>6. CASE \/ Main
           \/ \E c \in Conns : ConnFree(c)
           \/ ProcM2NMsg \/ Leave \/ Take \/ Check
           \/ EachEnd \/ EachUnknown \/ EachInvalid \/ EachProto
  <2>1. UNCHANGED <<told, notified, lost, news>>
    BY <1>6 DEF Main, PushM2N, SendMsg, SendMsgPush, PopN2M, RecvMsgPop, RecvMsgRead,
         ConnFree, ProcM2NMsg, Leave, Take, Check,
         EachEnd, EachUnknown, EachInvalid, EachProto, Each, up, conns
  <2>2. npc' = "push" <=> npc = "push"
    BY <1>6 DEF Main, PushM2N, SendMsg, SendMsgPush, PopN2M, RecvMsgPop, RecvMsgRead,
         ConnFree, ProcM2NMsg, Leave, Take, Check, NetBegins,
         EachEnd, EachUnknown, EachInvalid, EachProto, Each
  <2>. QED
    BY <2>1, <2>2, ToldFrame
<1>. QED
  BY <1>2, <1>3, <1>4, <1>5, <1>6 DEF Next, Net

LEMMA ToldInit == Init => ToldInv
<1> SUFFICES ASSUME Init PROVE ToldInv
  OBVIOUS
<1>1. npc = "io" /\ notified = <<>> /\ told = [c \in Conns |-> "nothing"]
  BY DEF Init
<1>2. 1 .. Len(notified) = {}
  BY <1>1
<1>. QED
  BY <1>1, <1>2 DEF ToldInv, Said

LEMMA ToldStep == Turns /\ TypeInv /\ Alone /\ NewsInv /\ ToldInv /\ [Next]_vars => ToldInv'
<1> SUFFICES ASSUME Turns, TypeInv, Alone, NewsInv, ToldInv, [Next]_vars PROVE ToldInv'
  OBVIOUS
<1>1. CASE UNCHANGED vars
  <2>1. UNCHANGED <<told, notified, lost, news, npc>>
    BY <1>1, Zenon DEF vars, up, conns
  <2>. QED
    BY <2>1, ToldFrame
<1>. QED
  BY <1>1, ToldNext

\* Of the first n messages of s, the last news of c said d; or there were none.
LastSaid(s, n, c, d) ==
    \/ d = "nothing" /\ \A k \in 1 .. n : ~IsAbout(s[k], c)
    \/ \E k \in 1 .. n :
          /\ IsAbout(s[k], c) /\ s[k][2].data = d
          /\ \A j \in k + 1 .. n : ~IsAbout(s[j], c)

\* What e says may follow what the first n messages of s said last.
MayFollow(s, n, c, e) == \E d : LastSaid(s, n, c, d) /\ <<d, e>> \in CE!Follows

\* News come in the order that ConnEvents allows, those in the buffer too.
OrderInv ==
    \A c \in Conns \ lost :
        /\ \A k \in 1 .. Len(notified) :
              IsAbout(notified[k], c) => MayFollow(notified, k - 1, c, notified[k][2].data)
        /\ npc = "push" /\ IsAbout(RecvCells(news), c) =>
              MayFollow(notified, Len(notified), c, news.data)

\* What is said last of c depends on the messages about c only.
LEMMA SameSaid ==
    ASSUME NEW s, NEW t, NEW n \in Nat, NEW c, NEW d,
           \A k \in 1 .. n : s[k] = t[k] \/ (~IsAbout(s[k], c) /\ ~IsAbout(t[k], c)),
           LastSaid(s, n, c, d)
    PROVE  LastSaid(t, n, c, d)
<1>1. CASE d = "nothing" /\ \A k \in 1 .. n : ~IsAbout(s[k], c)
  BY <1>1, Zenon DEF LastSaid
<1>2. CASE \E k \in 1 .. n : /\ IsAbout(s[k], c) /\ s[k][2].data = d
                             /\ \A j \in k + 1 .. n : ~IsAbout(s[j], c)
  <2>1. PICK k \in 1 .. n : /\ IsAbout(s[k], c) /\ s[k][2].data = d
                            /\ \A j \in k + 1 .. n : ~IsAbout(s[j], c)
    BY <1>2
  <2>2. s[k] = t[k]
    BY <2>1, Zenon
  <2>3. \A j \in k + 1 .. n : j \in 1 .. n
    OBVIOUS
  <2>4. \A j \in k + 1 .. n : ~IsAbout(t[j], c)
    BY <2>1, <2>3, Zenon
  <2>. QED
    BY <2>1, <2>2, <2>4, Zenon DEF LastSaid
<1>. QED
  BY <1>1, <1>2, Zenon DEF LastSaid

LEMMA SameFollow ==
    ASSUME NEW s, NEW t, NEW n \in Nat, NEW c, NEW e,
           \A k \in 1 .. n : s[k] = t[k] \/ (~IsAbout(s[k], c) /\ ~IsAbout(t[k], c)),
           MayFollow(s, n, c, e)
    PROVE  MayFollow(t, n, c, e)
<1>1. PICK d : LastSaid(s, n, c, d) /\ <<d, e>> \in CE!Follows
  BY Zenon DEF MayFollow
<1>2. LastSaid(t, n, c, d)
  BY <1>1, SameSaid, Zenon
<1>. QED
  BY <1>1, <1>2, Zenon DEF MayFollow

\* What the last news of c say, and may be said next.
LEMMA SaidLast ==
    ASSUME NEW c \in Conns, Said(c), NEW e, <<told[c], e>> \in CE!Follows
    PROVE  MayFollow(notified, Len(notified), c, e)
<1>1. LastSaid(notified, Len(notified), c, told[c])
  BY Zenon DEF Said, LastSaid
<1>. QED
  BY <1>1, Zenon DEF MayFollow

\* A step that has to do with other things.
LEMMA OrderFrame ==
    ASSUME OrderInv, UNCHANGED <<notified, lost, news>>, npc' = "push" <=> npc = "push"
    PROVE  OrderInv'
<1>1. RecvCells(news)' = RecvCells(news) /\ news' = news /\ notified' = notified /\ lost' = lost
  OBVIOUS
<1>. QED
  BY <1>1, Zenon DEF OrderInv

\* An event of a connection that may follow, or other news, are put into the buffer.
LEMMA OrderFilled ==
    ASSUME OrderInv, ToldInv, UNCHANGED <<notified, lost>>, npc # "push",
           NEW n \in News, NEW to, SendN2MMsg(n, to), Length[n.data] \in 1 .. MAX_BIZ_MSG_SIZE,
           n.type = "EVENT" /\ n.data \in Phases => <<told[n.conn], n.data>> \in CE!Follows
    PROVE  OrderInv'
<1>1. npc' = "push" /\ news' = n /\ notified' = notified /\ lost' = lost
  BY DEF SendN2MMsg
<1>2. \A c \in Conns : IsAbout(RecvCells(n), c) <=> n.type = "EVENT" /\ n.conn = c /\ n.data \in Phases
  BY AboutFacts
<1>3. ASSUME NEW c \in Conns, c \notin lost, IsAbout(RecvCells(n), c)
      PROVE  MayFollow(notified, Len(notified), c, n.data)
  <2>1. Said(c)
    BY <1>3 DEF ToldInv
  <2>2. <<told[c], n.data>> \in CE!Follows
    BY <1>2, <1>3
  <2>. QED
    BY <2>1, <2>2, SaidLast
<1>4. \A c \in Conns \ lost : IsAbout(RecvCells(n), c) => MayFollow(notified, Len(notified), c, n.data)
  BY <1>3, Zenon
<1>5. RecvCells(news)' = RecvCells(n)
  BY <1>1
<1>. QED
  BY <1>1, <1>4, <1>5, Zenon DEF OrderInv

\* The news are pushed, or refused.
LEMMA OrderPushed ==
    ASSUME TypeInv, NewsInv, OrderInv, SendN2MPush
    PROVE  OrderInv'
<1>1. npc = "push" /\ npc' # "push"
  BY DEF SendN2MPush, TypeInv, TypeOK
<1>2. PICK n \in News : n = news /\ Length[n.data] \in 1 .. MAX_BIZ_MSG_SIZE
  BY <1>1, PushedCells
<1>3. SUFFICES ASSUME NEW c \in Conns, c \notin lost', NEW k \in 1 .. Len(notified'),
                      IsAbout(notified'[k], c)
               PROVE  MayFollow(notified', k - 1, c, notified'[k][2].data)
  BY <1>1 DEF OrderInv
<1>4. CASE Len(m_oN2MQueue) < QueueLen
  <2>1. PICK m \in Message : m = RecvCells(n)
    BY <1>2, RecvCellsFacts
  <2>2. notified' = Append(notified, m) /\ lost' = lost
    BY <1>1, <1>2, <1>4, <2>1, PushedCells DEF SendN2MPush
  <2>3. notified \in Seq(Message)
    BY DEF NewsInv
  <2>4. PICK l \in Nat : l = Len(notified)
    <3>1. Len(notified) \in Nat
      BY <2>3
    <3>. QED
      BY <3>1, Zenon
  <2>5. /\ Len(notified') = l + 1
        /\ \A j \in 1 .. l : notified[j] = notified'[j]
        /\ notified'[l + 1] = m
    BY <2>2, <2>3, <2>4, QueueFacts
  <2>6. CASE k \in 1 .. l
    <3>1. MayFollow(notified, k - 1, c, notified[k][2].data)
      BY <1>3, <2>2, <2>4, <2>5, <2>6 DEF OrderInv
    <3>2. k - 1 \in Nat /\ \A j \in 1 .. k - 1 : notified[j] = notified'[j]
      BY <2>4, <2>5, <2>6
    <3>3. notified'[k] = notified[k]
      BY <2>5, <2>6
    <3>. QED
      BY <3>1, <3>2, <3>3, SameFollow
  <2>7. CASE k = l + 1
    <3>1. IsAbout(RecvCells(news), c) /\ notified'[k][2].data = news.data
      <4>1. RecvCells(n)[2].data = n.data
        BY <1>2, AboutFacts
      <4>. QED
        BY <1>2, <1>3, <2>1, <2>5, <2>7, <4>1
    <3>2. MayFollow(notified, l, c, news.data)
      BY <1>1, <1>3, <2>2, <2>4, <3>1 DEF OrderInv
    <3>3. MayFollow(notified', l, c, news.data)
      BY <2>4, <2>5, <3>2, SameFollow
    <3>4. k - 1 = l
      BY <2>4, <2>7
    <3>. QED
      BY <3>1, <3>3, <3>4
  <2>. QED
    BY <1>3, <2>4, <2>5, <2>6, <2>7
<1>5. CASE ~ (Len(m_oN2MQueue) < QueueLen)
  <2>1. c \notin lost /\ notified' = notified
    BY <1>2, <1>3, <1>5 DEF SendN2MPush
  <2>. QED
    BY <1>3, <2>1 DEF OrderInv
<1>. QED
  BY <1>4, <1>5

LEMMA OrderNext ==
    ASSUME Turns, TypeInv, NewsInv, ToldInv, OrderInv, Next
    PROVE  OrderInv'
<1>1. CASE SendN2MPush
  BY <1>1, OrderPushed
<1>2. CASE \E c \in Conns, e \in Phases : ConnEvent(c, e)
  <2>1. PICK c \in Conns, e \in Phases : ConnEvent(c, e)
    BY <1>2
  <2>2. PICK n \in News : n = [type |-> "EVENT", conn |-> c, data |-> e]
    <3>1. [type |-> "EVENT", conn |-> c, data |-> e] \in News
      BY DEF News, Events
    <3>. QED
      BY <3>1, Zenon
  <2>3. /\ SendN2MMsg(n, "io") /\ UNCHANGED <<notified, lost>> /\ npc # "push"
        /\ <<told[n.conn], n.data>> \in CE!Follows
    BY <2>1, <2>2 DEF ConnEvent, NotifyConnEvent, NetBegins, up
  <2>4. Length[n.data] \in 1 .. MAX_BIZ_MSG_SIZE
    BY <2>2, PipelineAssumption DEF Events
  <2>. QED
    BY <2>3, <2>4, OrderFilled
<1>3. CASE \E c \in Conns, d \in Texts : ConnData(c, d)
  <2>1. PICK c \in Conns, d \in Texts : ConnData(c, d)
    BY <1>3
  <2>2. PICK n \in News : n = [type |-> "PROTO", conn |-> c, data |-> d]
    <3>1. [type |-> "PROTO", conn |-> c, data |-> d] \in News
      BY DEF News
    <3>. QED
      BY <3>1, Zenon
  <2>3. SendN2MMsg(n, "io") /\ UNCHANGED <<notified, lost>> /\ npc # "push" /\ n.type # "EVENT"
    BY <2>1, <2>2 DEF ConnData, NetBegins, up
  <2>4. Length[n.data] \in 1 .. MAX_BIZ_MSG_SIZE
    BY <2>1, <2>2, NewsLength DEF ConnData
  <2>. QED
    BY <2>3, <2>4, OrderFilled
<1>4. CASE EachBind \/ EachClose
  <2>1. npc = "each" /\ ThisConn \in Conns /\ UNCHANGED <<notified, lost>>
    BY <1>4 DEF EachBind, EachClose, Each, up, TypeInv, TypeOK
  <2>2. CASE UNCHANGED <<npc, news>>
    BY <2>1, <2>2, OrderFrame
  <2>3. CASE ~ UNCHANGED <<npc, news>>
    <3>1. PICK e \in Events : /\ SendN2MMsg([type |-> "EVENT", conn |-> ThisConn, data |-> e], "each")
                              /\ \/ e = "bind"
                                 \/ told[ThisConn] = "disconnected" /\ e = "closed"
      BY <1>4, <2>3 DEF EachBind, EachClose, NotifyConnEvent, Events, Phases
    <3>2. PICK n \in News : n = [type |-> "EVENT", conn |-> ThisConn, data |-> e]
      <4>1. [type |-> "EVENT", conn |-> ThisConn, data |-> e] \in News
        BY <2>1 DEF News
      <4>. QED
        BY <4>1, Zenon
    <3>3. Length[n.data] \in 1 .. MAX_BIZ_MSG_SIZE
      BY <3>2, PipelineAssumption
    <3>4. n.type = "EVENT" /\ n.data \in Phases => <<told[n.conn], n.data>> \in CE!Follows
      BY <3>1, <3>2 DEF Phases, CE!Follows
    <3>5. SendN2MMsg(n, "each")
      BY <3>1, <3>2
    <3>. QED
      BY <2>1, <3>3, <3>4, <3>5, OrderFilled
  <2>. QED
    BY <2>2, <2>3
<1>5. CASE \/ Main
           \/ \E c \in Conns : ConnFree(c)
           \/ ProcM2NMsg \/ Leave \/ Take \/ Check
           \/ EachEnd \/ EachUnknown \/ EachInvalid \/ EachProto
  <2>1. UNCHANGED <<notified, lost, news>>
    BY <1>5 DEF Main, PushM2N, SendMsg, SendMsgPush, PopN2M, RecvMsgPop, RecvMsgRead,
         ConnFree, ProcM2NMsg, Leave, Take, Check,
         EachEnd, EachUnknown, EachInvalid, EachProto, Each, up, conns
  <2>2. npc' = "push" <=> npc = "push"
    BY <1>5 DEF Main, PushM2N, SendMsg, SendMsgPush, PopN2M, RecvMsgPop, RecvMsgRead,
         ConnFree, ProcM2NMsg, Leave, Take, Check, NetBegins,
         EachEnd, EachUnknown, EachInvalid, EachProto, Each
  <2>. QED
    BY <2>1, <2>2, OrderFrame
<1>. QED
  BY <1>1, <1>2, <1>3, <1>4, <1>5 DEF Next, Net

LEMMA OrderInit == Init => OrderInv
<1> SUFFICES ASSUME Init PROVE OrderInv
  OBVIOUS
<1>1. npc = "io" /\ notified = <<>>
  BY DEF Init
<1>2. 1 .. Len(notified) = {}
  BY <1>1
<1>. QED
  BY <1>1, <1>2 DEF OrderInv

LEMMA OrderStep == Turns /\ TypeInv /\ NewsInv /\ ToldInv /\ OrderInv /\ [Next]_vars => OrderInv'
<1> SUFFICES ASSUME Turns, TypeInv, NewsInv, ToldInv, OrderInv, [Next]_vars PROVE OrderInv'
  OBVIOUS
<1>1. CASE UNCHANGED vars
  <2>1. UNCHANGED <<notified, lost, news, npc>>
    BY <1>1, Zenon DEF vars, up
  <2>. QED
    BY <2>1, OrderFrame
<1>. QED
  BY <1>1, OrderNext

\* What the main thread believes is what the messages it heard said last.
LEMMA BelievedSaid ==
    ASSUME NEW c \in Conns, NEW n \in Nat, NEW d, LastSaid(heard, n, c, d)
    PROVE  Believed(c, n) = d
<1>1. CASE d = "nothing" /\ \A k \in 1 .. n : ~IsAbout(heard[k], c)
  <2>1. {k \in 1 .. n : IsAbout(heard[k], c)} = {}
    BY <1>1
  <2>. QED
    BY <1>1, <2>1 DEF Believed
<1>2. CASE \E k \in 1 .. n : /\ IsAbout(heard[k], c) /\ heard[k][2].data = d
                             /\ \A j \in k + 1 .. n : ~IsAbout(heard[j], c)
  <2>1. PICK k \in 1 .. n : /\ IsAbout(heard[k], c) /\ heard[k][2].data = d
                            /\ \A j \in k + 1 .. n : ~IsAbout(heard[j], c)
    BY <1>2
  <2>2. PICK about \in SUBSET (1 .. n) : about = {j \in 1 .. n : IsAbout(heard[j], c)}
    OBVIOUS
  <2>3. k \in about /\ \A j \in about : k >= j
    <3>1. SUFFICES ASSUME NEW j \in about, ~ (k >= j) PROVE FALSE
      BY <2>1, <2>2
    <3>2. j \in k + 1 .. n /\ IsAbout(heard[j], c)
      BY <2>2, <3>1
    <3>. QED
      BY <2>1, <3>2
  <2>4. Max(about) \in about /\ \A j \in about : Max(about) >= j
    BY <2>3, Zenon DEF Max
  <2>5. Max(about) = k
    <3>1. PICK m \in 1 .. n : m = Max(about)
      BY <2>2, <2>4
    <3>2. m >= k /\ k >= m
      BY <2>3, <2>4, <3>1
    <3>3. m = k
      BY <3>2
    <3>. QED
      BY <3>1, <3>3
  <2>6. Believed(c, n) = heard[Max(about)][2].data
    BY <2>2, <2>3 DEF Believed
  <2>. QED
    BY <2>1, <2>5, <2>6
<1>. QED
  BY <1>1, <1>2, Zenon DEF LastSaid

\* The main thread hears of a connection in an order that ConnEvents allows, and
\* believes what it was told last once it has heard all, unless the queue has refused
\* news of it or they have come without their head.
LEMMA ToldBelieved ==
    ASSUME TypeInv, NewsInv, ToldInv, OrderInv, NEW c \in Conns, c \notin lost, ~Nameless(c)
    PROVE  /\ \A k \in 1 .. Len(heard) : IsAbout(heard[k], c) =>
                 <<Believed(c, k - 1), heard[k][2].data>> \in CE!Follows
           /\ m_oN2MQueue = <<>> /\ npc # "push" /\ mpc # "read" => Believed(c, Len(heard)) = told[c]
<1>1. PICK h \in Nat : h = Len(heard)
  <2>1. Len(heard) \in Nat
    BY DEF NewsInv
  <2>. QED
    BY <2>1, Zenon
<1>2. /\ Len(notified) = h + Reading + Len(m_oN2MQueue)
      /\ \A k \in 1 .. h : heard[k] \in {notified[k], Tail(notified[k])}
      /\ Reading \in {0, 1} /\ Len(m_oN2MQueue) \in Nat /\ Len(notified) \in Nat
  BY <1>1 DEF NewsInv, TypeInv, Reading
<1>3. \A k \in 1 .. h : k \in 1 .. Len(notified)
  BY <1>2
<1>4. ASSUME NEW k \in 1 .. h
      PROVE  notified[k] = heard[k] \/ (~IsAbout(notified[k], c) /\ ~IsAbout(heard[k], c))
  <2>1. PICK n \in News : Length[n.data] \in 1 .. MAX_BIZ_MSG_SIZE /\ notified[k] = RecvCells(n)
    BY <1>3, Zenon DEF NewsInv
  <2>2. ~IsAbout(Tail(notified[k]), c)
    BY <2>1, AboutFacts
  <2>3. IsAbout(notified[k], c) => IsAbout(heard[k], c)
    BY <1>1, Zenon DEF Nameless
  <2>. QED
    BY <1>2, <2>2, <2>3, Zenon
<1>5. ASSUME NEW k \in 1 .. h, IsAbout(heard[k], c)
      PROVE  <<Believed(c, k - 1), heard[k][2].data>> \in CE!Follows
  <2>1. heard[k] = notified[k] /\ k - 1 \in Nat
    BY <1>4, <1>5
  <2>2. MayFollow(notified, k - 1, c, notified[k][2].data)
    BY <1>3, <1>5, <2>1 DEF OrderInv
  <2>3. \A j \in 1 .. k - 1 : notified[j] = heard[j] \/ (~IsAbout(notified[j], c) /\ ~IsAbout(heard[j], c))
    <3>1. \A j \in 1 .. k - 1 : j \in 1 .. h
      OBVIOUS
    <3>. QED
      BY <1>4, <3>1, Zenon
  <2>4. MayFollow(heard, k - 1, c, heard[k][2].data)
    BY <2>1, <2>2, <2>3, SameFollow
  <2>5. PICK d : LastSaid(heard, k - 1, c, d) /\ <<d, heard[k][2].data>> \in CE!Follows
    BY <2>4, Zenon DEF MayFollow
  <2>6. Believed(c, k - 1) = d
    BY <2>1, <2>5, BelievedSaid
  <2>. QED
    BY <2>5, <2>6
<1>6. ASSUME m_oN2MQueue = <<>>, npc # "push", mpc # "read"
      PROVE  Believed(c, h) = told[c]
  <2>1. Len(notified) = h
    BY <1>2, <1>6 DEF Reading
  <2>2. Said(c)
    BY <1>6 DEF ToldInv
  <2>3. LastSaid(notified, h, c, told[c])
    BY <2>1, <2>2, Zenon DEF Said, LastSaid
  <2>4. LastSaid(heard, h, c, told[c])
    BY <1>4, <2>3, SameSaid
  <2>. QED
    BY <2>4, BelievedSaid
<1>. QED
  BY <1>1, <1>5, <1>6, Zenon
-------------------------------------------------------------------------------
\* Requests are carried out.

\* Lists of one id for what makes an event: it overwrites the message with the list.
SingleEvents == \A r \in Requests : r.type # "PROTO" => Len(r.conns) = 1

\* What a request asks.
LEMMA OneByOneFacts ==
    ASSUME NEW r, WellFormed(r)
    PROVE  /\ OneByOne(r) \in Seq(Item) /\ Len(OneByOne(r)) = Len(r.conns) /\ Len(r.conns) \in Nat
           /\ \A n \in 1 .. Len(r.conns) :
                 OneByOne(r)[n] = [type |-> r.type, conn |-> r.conns[n], data |-> Data(r.data)]
<1>1. r.type \in Types /\ r.conns \in Seq(Conns) /\ Data(r.data) \in Seq(Cell)
  BY WellTyped, DataFacts
<1>2. \A n \in 1 .. Len(r.conns) : [type |-> r.type, conn |-> r.conns[n], data |-> Data(r.data)] \in Item
  <2>1. TAKE n \in 1 .. Len(r.conns)
  <2>2. r.conns[n] \in Conns
    BY <1>1
  <2>3. r.conns[n] \in Nat
    BY <2>2, PipelineAssumption
  <2>. QED
    BY <1>1, <2>3 DEF Item
<1>3. Len(r.conns) \in Nat
  BY <1>1
<1>. QED
  BY <1>2, <1>3 DEF OneByOne

\* A request in the buffer is read as it was written.
LEMMA HeldRequest ==
    ASSUME memory \in [0 .. BufLen -> Cell], NEW r, WellFormed(r), Holds(SendCells(r))
    PROVE  /\ IsSend /\ Type = r.type /\ ConnCnt = Len(r.conns) /\ DataLen = Length[r.data]
           /\ \A j \in 0 .. Len(r.conns) - 1 : At(1 + j) = [id |-> r.conns[j + 1]]
           /\ Cells(1 + Len(r.conns), Length[r.data]) = Data(r.data)
           /\ Len(SendCells(r)) <= 1 + MAX_BIZ_MSG_SIZE
<1>1. PICK n \in Nat, l \in Nat : /\ n = Len(r.conns) /\ l = Length[r.data]
                                  /\ n > 0 /\ l > 0 /\ 1 + n + l <= MAX_BIZ_MSG_SIZE
  <2>1. Len(r.conns) \in Nat /\ Length[r.data] \in Nat
    BY WellTyped, DataFacts
  <2>2. Len(r.conns) > 0 /\ Length[r.data] > 0 /\ 1 + Len(r.conns) + Length[r.data] <= MAX_BIZ_MSG_SIZE
    BY DEF WellFormed
  <2>. QED
    BY <2>1, <2>2, Zenon
<1>2. /\ SendCells(r) \in Message
      /\ Len(SendCells(r)) = 1 + n + l
      /\ SendCells(r)[1] = SendHead(r.type, n, l)
      /\ \A k \in 1 .. n : SendCells(r)[1 + k] = [id |-> r.conns[k]]
      /\ \A k \in 1 .. l : SendCells(r)[1 + n + k] = [data |-> r.data, at |-> k]
  BY <1>1, WellTyped, SendCellsFacts
<1>3. MAX_BIZ_MSG_SIZE \in Nat /\ BufLen = 1 + MAX_BIZ_MSG_SIZE
  BY PipelineAssumption DEF BufLen
<1>4. \A o \in 0 .. n + l : memory[o] = SendCells(r)[o + 1]
  <2>1. 0 .. Len(SendCells(r)) - 1 = 0 .. n + l
    BY <1>1, <1>2
  <2>. QED
    BY <2>1 DEF Holds
<1>5. memory[0] = SendHead(r.type, n, l)
  BY <1>1, <1>2, <1>4
<1>6. IsSend /\ Type = r.type /\ ConnCnt = n /\ DataLen = l
  BY <1>5 DEF IsSend, Type, ConnCnt, DataLen, SendHead
<1>7. ASSUME NEW j \in 0 .. n - 1 PROVE At(1 + j) = [id |-> r.conns[j + 1]]
  <2>1. 1 + j \in 0 .. n + l /\ 1 + j \in 0 .. BufLen /\ j + 1 \in 1 .. n /\ (1 + j) + 1 = 1 + (j + 1)
    BY <1>1, <1>3
  <2>2. memory[1 + j] = SendCells(r)[1 + (j + 1)]
    BY <1>4, <2>1
  <2>. QED
    BY <1>2, <2>1, <2>2 DEF At
<1>8. Cells(1 + n, l) = Data(r.data)
  <2>1. /\ Cells(1 + n, l) \in Seq(Cell) /\ Len(Cells(1 + n, l)) = l
        /\ \A k \in 1 .. l : (1 + n) + k - 1 <= BufLen => Cells(1 + n, l)[k] = memory[(1 + n) + k - 1]
    <3>1. 1 + n \in Nat
      BY <1>1
    <3>2. PICK p \in Nat : p = 1 + n
      BY <3>1, Zenon
    <3>3. /\ Cells(p, l) \in Seq(Cell) /\ Len(Cells(p, l)) = l
          /\ \A k \in 1 .. l : p + k - 1 <= BufLen => Cells(p, l)[k] = memory[p + k - 1]
      BY CellsFacts
    <3>. QED
      BY <3>2, <3>3, Zenon
  <2>2. /\ Data(r.data) \in Seq(Cell) /\ Len(Data(r.data)) = l
        /\ \A k \in 1 .. l : Data(r.data)[k] = [data |-> r.data, at |-> k]
    BY <1>1, WellTyped, DataFacts
  <2>3. ASSUME NEW k \in 1 .. l PROVE Cells(1 + n, l)[k] = Data(r.data)[k]
    <3>1. (1 + n) + k - 1 = n + k /\ n + k <= BufLen /\ n + k \in 0 .. n + l /\ (n + k) + 1 = 1 + n + k
      BY <1>1, <1>3, SMTT(30)
    <3>2. memory[n + k] = SendCells(r)[1 + n + k]
      BY <1>4, <3>1
    <3>. QED
      BY <1>2, <2>1, <2>2, <3>1, <3>2, ZenonT(40)
  <2>. QED
    BY <2>1, <2>2, <2>3
<1>9. 1 + n + l <= 1 + MAX_BIZ_MSG_SIZE
  BY <1>1, <1>3
<1>. QED
  BY <1>1, <1>2, <1>6, <1>7, <1>8, <1>9

\* One more of what a request asks is carried out.
LEMMA OneMore ==
    ASSUME memory \in [0 .. BufLen -> Cell], NEW r, WellFormed(r), Holds(SendCells(r)),
           looked \in Seq(Seq(Item)), NEW d \in Nat \ {0}, d = Len(looked),
           i \in Nat, i < ConnCnt, ptrData = 1 + Len(r.conns),
           looked[d] = SubSeq(OneByOne(r), 1, i)
    PROVE  /\ IsSend /\ IsId /\ Type = r.type /\ ConnCnt = Len(r.conns)
           /\ LookedAt(Asked) \in Seq(Seq(Item)) /\ Len(LookedAt(Asked)) = d
           /\ \A k \in 1 .. d - 1 : LookedAt(Asked)[k] = looked[k]
           /\ LookedAt(Asked)[d] = SubSeq(OneByOne(r), 1, i + 1)
<1>1. /\ IsSend /\ Type = r.type /\ ConnCnt = Len(r.conns) /\ DataLen = Length[r.data]
      /\ \A j \in 0 .. Len(r.conns) - 1 : At(1 + j) = [id |-> r.conns[j + 1]]
      /\ Cells(1 + Len(r.conns), Length[r.data]) = Data(r.data)
  BY HeldRequest
<1>2. /\ OneByOne(r) \in Seq(Item) /\ Len(OneByOne(r)) = Len(r.conns) /\ Len(r.conns) \in Nat
      /\ \A n \in 1 .. Len(r.conns) :
            OneByOne(r)[n] = [type |-> r.type, conn |-> r.conns[n], data |-> Data(r.data)]
  BY OneByOneFacts
<1>3. i \in 0 .. Len(r.conns) - 1 /\ i + 1 \in 1 .. Len(r.conns)
  BY <1>1, <1>2
<1>4. AtI = [id |-> r.conns[i + 1]]
  BY <1>1, <1>3 DEF AtI
<1>5. IsId /\ ThisConn = r.conns[i + 1]
  BY <1>4 DEF IsId, ThisConn
<1>6. Asked = OneByOne(r)[i + 1]
  BY <1>1, <1>2, <1>3, <1>5 DEF Asked
<1>7. PICK a \in Item : a = Asked /\ a = OneByOne(r)[i + 1]
  BY <1>2, <1>3, <1>6
<1>8. d \in 1 .. Len(looked) /\ looked[d] \in Seq(Item)
  <2>1. d \in 1 .. Len(looked)
    OBVIOUS
  <2>. QED
    BY <2>1
<1>9. PICK b \in Seq(Item) : b = Append(looked[d], a)
  <2>1. Append(looked[d], a) \in Seq(Item)
    BY <1>8
  <2>. QED
    BY <2>1, Zenon
<1>10. LookedAt(Asked) = [looked EXCEPT ![d] = b]
  BY <1>7, <1>9 DEF LookedAt
<1>11. /\ LookedAt(Asked) \in Seq(Seq(Item)) /\ Len(LookedAt(Asked)) = d
       /\ \A k \in 1 .. d - 1 : LookedAt(Asked)[k] = looked[k]
       /\ LookedAt(Asked)[d] = b
  BY <1>8, <1>10
<1>12. b = SubSeq(OneByOne(r), 1, i + 1)
  <2>1. PICK s \in Seq(Item) : s = OneByOne(r) /\ i + 1 <= Len(s) /\ a = s[i + 1]
    BY <1>2, <1>3, <1>7
  <2>2. b = Append(SubSeq(s, 1, i), a)
    BY <1>9, <2>1
  <2>3. /\ SubSeq(s, 1, i) \in Seq(Item) /\ Len(SubSeq(s, 1, i)) = i
        /\ \A k \in 1 .. i : SubSeq(s, 1, i)[k] = s[k]
    BY <2>1
  <2>4. /\ SubSeq(s, 1, i + 1) \in Seq(Item) /\ Len(SubSeq(s, 1, i + 1)) = i + 1
        /\ \A k \in 1 .. i + 1 : SubSeq(s, 1, i + 1)[k] = s[k]
    BY <2>1
  <2>5. Len(b) = i + 1 /\ b[i + 1] = a /\ \A k \in 1 .. i : b[k] = s[k]
    BY <2>2, <2>3
  <2>6. \A k \in 1 .. i + 1 : b[k] = SubSeq(s, 1, i + 1)[k]
    <3>1. TAKE k \in 1 .. i + 1
    <3>2. k \in 1 .. i \/ k = i + 1
      OBVIOUS
    <3>. QED
      BY <2>1, <2>4, <2>5, <3>2
  <2>7. b = SubSeq(s, 1, i + 1)
    BY <2>4, <2>5, <2>6
  <2>. QED
    BY <2>1, <2>7
<1>. QED
  BY <1>1, <1>5, <1>11, <1>12
-------------------------------------------------------------------------------
\* The queue of requests.

\* Requests are well-formed, and so is what they ask.
LEMMA RequestFacts ==
    ASSUME NEW r \in Requests
    PROVE  WellFormed(r) /\ SendCells(r) \in Message
<1>1. WellFormed(r)
  BY PipelineAssumption
<1>2. r.type \in Types /\ r.conns \in Seq(Conns) /\ r.data \in DataOf
  BY <1>1, WellTyped
<1>. QED
  BY <1>1, <1>2, SendCellsFacts

\* A request joins the queue.
LEMMA RequestJoins ==
    ASSUME NEW queue \in Seq(Message), NEW requested \in Seq(Requests), NEW done \in 0 .. Len(requested),
           NEW r \in Requests, Waiting(queue, requested, done)
    PROVE  Waiting(Append(queue, SendCells(r)), Append(requested, r), done)
<1>1. PICK cnt : Counts(queue, requested, done, cnt)
  BY DEF Waiting
<1>2. PICK l \in Nat, a \in Nat : l = Len(queue) /\ a = Len(requested)
  <2>1. Len(queue) \in Nat /\ Len(requested) \in Nat
    OBVIOUS
  <2>. QED
    BY <2>1, Zenon
<1>3. PICK m \in Message : m = SendCells(r)
  BY RequestFacts
<1>4. PICK q : q = Append(queue, m) /\ q \in Seq(Message) /\ Len(q) = l + 1
               /\ (\A k \in 1 .. l : q[k] = queue[k]) /\ q[l + 1] = m
  <2>1. /\ Append(queue, m) \in Seq(Message) /\ Len(Append(queue, m)) = l + 1
        /\ (\A k \in 1 .. l : Append(queue, m)[k] = queue[k]) /\ Append(queue, m)[l + 1] = m
    BY <1>2, QueueFacts
  <2>. QED
    BY <2>1, Zenon
<1>5. PICK s : s = Append(requested, r) /\ s \in Seq(Requests) /\ Len(s) = a + 1
               /\ (\A k \in 1 .. a : s[k] = requested[k]) /\ s[a + 1] = r
  <2>1. /\ Append(requested, r) \in Seq(Requests) /\ Len(Append(requested, r)) = a + 1
        /\ (\A k \in 1 .. a : Append(requested, r)[k] = requested[k]) /\ Append(requested, r)[a + 1] = r
    BY <1>2
  <2>. QED
    BY <2>1, Zenon
<1>6. PICK c : c = [k \in 0 .. l + 1 |-> IF k = l + 1 THEN a + 1 ELSE cnt[k]]
  OBVIOUS
<1>7. /\ cnt \in [0 .. l -> 0 .. a] /\ cnt[0] = done /\ cnt[l] = a
      /\ \A k \in 0 .. l - 1 :
            \/ cnt[k + 1] = cnt[k] + 1 /\ queue[k + 1] = SendCells(requested[cnt[k] + 1])
            \/ cnt[k + 1] = cnt[k] /\ Dud(queue[k + 1])
  BY <1>1, <1>2 DEF Counts
<1>8. c \in [0 .. l + 1 -> 0 .. a + 1] /\ c[0] = done /\ c[l + 1] = a + 1
  <2>1. \A k \in 0 .. l + 1 : (IF k = l + 1 THEN a + 1 ELSE cnt[k]) \in 0 .. a + 1
    <3>1. TAKE k \in 0 .. l + 1
    <3>2. k = l + 1 \/ (k \in 0 .. l /\ k # l + 1)
      BY <1>2
    <3>3. CASE k = l + 1
      BY <1>2, <3>3
    <3>4. CASE k \in 0 .. l /\ k # l + 1
      <4>1. cnt[k] \in 0 .. a
        BY <1>7, <3>4
      <4>. QED
        BY <1>2, <3>4, <4>1
    <3>. QED
      BY <3>2, <3>3, <3>4
  <2>2. c \in [0 .. l + 1 -> 0 .. a + 1]
    BY <1>6, <2>1
  <2>3. 0 \in 0 .. l + 1 /\ 0 # l + 1 /\ l + 1 \in 0 .. l + 1
    BY <1>2
  <2>. QED
    BY <1>6, <1>7, <2>2, <2>3
<1>9. ASSUME NEW k \in 0 .. l
      PROVE  \/ c[k + 1] = c[k] + 1 /\ q[k + 1] = SendCells(s[c[k] + 1])
             \/ c[k + 1] = c[k] /\ Dud(q[k + 1])
  <2>1. CASE k = l
    BY <1>2, <1>3, <1>4, <1>5, <1>6, <1>7, <2>1
  <2>2. CASE k # l
    <3>0. k \in 0 .. l - 1 /\ k + 1 \in 1 .. l /\ k \in 0 .. l /\ k + 1 \in 0 .. l
          /\ k \in 0 .. l + 1 /\ k + 1 \in 0 .. l + 1 /\ k # l + 1 /\ k + 1 # l + 1
      BY <1>2, <2>2
    <3>1. k \in 0 .. l - 1 /\ k + 1 \in 1 .. l /\ c[k] = cnt[k] /\ c[k + 1] = cnt[k + 1] /\ cnt[k] \in 0 .. a
          /\ cnt[k + 1] \in 0 .. a
      BY <1>6, <1>7, <3>0
    <3>2. q[k + 1] = queue[k + 1]
      BY <1>4, <3>1
    <3>3. CASE cnt[k + 1] = cnt[k] + 1 /\ queue[k + 1] = SendCells(requested[cnt[k] + 1])
      <4>1. s[cnt[k] + 1] = requested[cnt[k] + 1]
        BY <1>2, <1>5, <3>1, <3>3
      <4>. QED
        BY <3>1, <3>2, <3>3, <4>1
    <3>4. CASE cnt[k + 1] = cnt[k] /\ Dud(queue[k + 1])
      BY <3>1, <3>2, <3>4
    <3>. QED
      BY <1>7, <3>1, <3>3, <3>4
  <2>. QED
    BY <2>1, <2>2
<1>10. (l + 1) - 1 = l
  BY <1>2
<1>11. Counts(q, s, done, c)
  BY <1>4, <1>5, <1>8, <1>9, <1>10 DEF Counts
<1>12. Waiting(q, s, done)
  BY <1>11 DEF Waiting
<1>. QED
  BY <1>3, <1>4, <1>5, <1>12

\* A message of SendMsg or BroadcastMsg joins the queue.
LEMMA DudJoins ==
    ASSUME NEW queue \in Seq(Message), NEW requested \in Seq(Requests), NEW done \in 0 .. Len(requested),
           NEW m \in Message, Dud(m), Waiting(queue, requested, done)
    PROVE  Waiting(Append(queue, m), requested, done)
<1>1. PICK cnt : Counts(queue, requested, done, cnt)
  BY DEF Waiting
<1>2. PICK l \in Nat, a \in Nat : l = Len(queue) /\ a = Len(requested)
  <2>1. Len(queue) \in Nat /\ Len(requested) \in Nat
    OBVIOUS
  <2>. QED
    BY <2>1, Zenon
<1>3. PICK q : q = Append(queue, m) /\ q \in Seq(Message) /\ Len(q) = l + 1
               /\ (\A k \in 1 .. l : q[k] = queue[k]) /\ q[l + 1] = m
  <2>1. /\ Append(queue, m) \in Seq(Message) /\ Len(Append(queue, m)) = l + 1
        /\ (\A k \in 1 .. l : Append(queue, m)[k] = queue[k]) /\ Append(queue, m)[l + 1] = m
    BY <1>2, QueueFacts
  <2>. QED
    BY <2>1, Zenon
<1>4. PICK c : c = [k \in 0 .. l + 1 |-> IF k = l + 1 THEN a ELSE cnt[k]]
  OBVIOUS
<1>5. /\ cnt \in [0 .. l -> 0 .. a] /\ cnt[0] = done /\ cnt[l] = a
      /\ \A k \in 0 .. l - 1 :
            \/ cnt[k + 1] = cnt[k] + 1 /\ queue[k + 1] = SendCells(requested[cnt[k] + 1])
            \/ cnt[k + 1] = cnt[k] /\ Dud(queue[k + 1])
  BY <1>1, <1>2 DEF Counts
<1>6. c \in [0 .. l + 1 -> 0 .. a] /\ c[0] = done /\ c[l + 1] = a
  BY <1>2, <1>4, <1>5
<1>7. ASSUME NEW k \in 0 .. l
      PROVE  \/ c[k + 1] = c[k] + 1 /\ q[k + 1] = SendCells(requested[c[k] + 1])
             \/ c[k + 1] = c[k] /\ Dud(q[k + 1])
  <2>1. CASE k = l
    BY <1>2, <1>3, <1>4, <1>5, <2>1
  <2>2. CASE k # l
    <3>1. k \in 0 .. l - 1 /\ k + 1 \in 1 .. l /\ c[k] = cnt[k] /\ c[k + 1] = cnt[k + 1]
      BY <1>2, <1>4, <1>5, <2>2
    <3>2. q[k + 1] = queue[k + 1]
      BY <1>3, <3>1
    <3>. QED
      BY <1>5, <3>1, <3>2
  <2>. QED
    BY <2>1, <2>2
<1>8. (l + 1) - 1 = l
  BY <1>2
<1>9. Counts(q, requested, done, c)
  BY <1>2, <1>3, <1>6, <1>7, <1>8 DEF Counts
<1>10. Waiting(q, requested, done)
  BY <1>9 DEF Waiting
<1>. QED
  BY <1>3, <1>10

\* The first leaves it: the next request, or a dud.
LEMMA FirstLeaves ==
    ASSUME NEW queue \in Seq(Message), queue # <<>>, NEW requested \in Seq(Requests),
           NEW done \in 0 .. Len(requested), Waiting(queue, requested, done)
    PROVE  \/ /\ done + 1 \in 0 .. Len(requested) /\ queue[1] = SendCells(requested[done + 1])
              /\ Waiting(Tail(queue), requested, done + 1)
           \/ Dud(queue[1]) /\ Waiting(Tail(queue), requested, done)
<1>1. PICK cnt : Counts(queue, requested, done, cnt)
  BY DEF Waiting
<1>2. PICK l \in Nat, a \in Nat : l = Len(queue) /\ a = Len(requested)
  <2>1. Len(queue) \in Nat /\ Len(requested) \in Nat
    OBVIOUS
  <2>. QED
    BY <2>1, Zenon
<1>3. PICK t : t = Tail(queue) /\ Len(t) = l - 1 /\ l > 0 /\ \A k \in 1 .. l - 1 : t[k] = queue[k + 1]
  <2>1. Len(Tail(queue)) = l - 1 /\ l > 0 /\ \A k \in 1 .. l - 1 : Tail(queue)[k] = queue[k + 1]
    BY <1>2, QueueFacts
  <2>. QED
    BY <2>1, Zenon
<1>4. /\ cnt \in [0 .. l -> 0 .. a] /\ cnt[0] = done /\ cnt[l] = a
      /\ \A k \in 0 .. l - 1 :
            \/ cnt[k + 1] = cnt[k] + 1 /\ queue[k + 1] = SendCells(requested[cnt[k] + 1])
            \/ cnt[k + 1] = cnt[k] /\ Dud(queue[k + 1])
  BY <1>1, <1>2 DEF Counts
<1>5. PICK c : c = [k \in 0 .. l - 1 |-> cnt[k + 1]]
  OBVIOUS
<1>6. c \in [0 .. l - 1 -> 0 .. a] /\ c[0] = cnt[1] /\ c[l - 1] = a
  BY <1>2, <1>3, <1>4, <1>5
<1>7. ASSUME NEW k \in 0 .. (l - 1) - 1
      PROVE  \/ c[k + 1] = c[k] + 1 /\ t[k + 1] = SendCells(requested[c[k] + 1])
             \/ c[k + 1] = c[k] /\ Dud(t[k + 1])
  <2>1. PICK j \in 0 .. l - 1 : j = k + 1
    <3>1. k + 1 \in 0 .. l - 1
      BY <1>2
    <3>. QED
      BY <3>1, Zenon
  <2>2. k \in 0 .. l - 1 /\ j \in 1 .. l - 1
    BY <1>2, <2>1
  <2>3. c[k] = cnt[j] /\ c[j] = cnt[j + 1] /\ t[j] = queue[j + 1]
    BY <1>3, <1>5, <2>1, <2>2
  <2>. QED
    BY <1>4, <2>1, <2>3
<1>8. Counts(t, requested, cnt[1], c)
  BY <1>2, <1>3, <1>6, <1>7 DEF Counts
<1>9. Waiting(t, requested, cnt[1])
  BY <1>8 DEF Waiting
<1>10. /\ cnt[1] \in 0 .. a
       /\ \/ cnt[1] = done + 1 /\ queue[1] = SendCells(requested[done + 1])
          \/ cnt[1] = done /\ Dud(queue[1])
  <2>1. 0 \in 0 .. l - 1 /\ 0 + 1 = 1 /\ 1 \in 0 .. l
    BY <1>2, <1>3
  <2>. QED
    BY <1>4, <2>1
<1>. QED
  BY <1>2, <1>3, <1>9, <1>10
-------------------------------------------------------------------------------
\* What leaves the pass alone.

\* The message being looked at stays what it is.
LEMMA StageStays ==
    ASSUME NEW done, Stage(done), UNCHANGED <<npc, looked>>,
           done > 0 => asked'[done] = asked[done],
           npc \in {"check", "each"} => UNCHANGED <<memory, i, ptrData, ulMsgLen>>, done \in Nat,
           looked \in Seq(Seq(Item))
    PROVE  Stage(done)'
<1>1. CASE npc \in {"io", "loop", "push"} /\ done = Len(looked)
  BY <1>1 DEF Stage
<1>2. CASE npc = "check" /\ Checking(done)
  <2>1. /\ UNCHANGED <<memory, ulMsgLen>> /\ IsSend' = IsSend /\ Type' = Type /\ DataLen' = DataLen
        /\ Len(looked) \in Nat
    BY <1>2 DEF IsSend, Type, DataLen
  <2>2. CASE /\ done = Len(looked) + 1
             /\ Holds(SendCells(asked[done])) /\ ulMsgLen = Len(SendCells(asked[done]))
    <3>1. asked'[done] = asked[done]
      BY <2>1, <2>2
    <3>2. Holds(SendCells(asked[done]))'
      BY <2>1, <2>2, <3>1 DEF Holds
    <3>. QED
      BY <1>2, <2>1, <2>2, <3>1, <3>2 DEF Stage, Checking
  <2>3. CASE done = Len(looked) /\ IsSend /\ Type = "PROTO" /\ ulMsgLen = 1 + DataLen
    BY <1>2, <2>1, <2>3 DEF Stage, Checking
  <2>. QED
    BY <1>2, <2>2, <2>3 DEF Checking
<1>3. CASE npc = "each" /\ Walking(done)
  <2>1. /\ UNCHANGED <<memory, i, ptrData>> /\ IsSend' = IsSend /\ Type' = Type
        /\ done = Len(looked) /\ done > 0 /\ asked'[done] = asked[done]
    BY <1>3 DEF IsSend, Type, Walking
  <2>2. CASE /\ Holds(SendCells(asked[done]))
             /\ ptrData = 1 + Len(asked[done].conns) /\ i <= Len(asked[done].conns)
             /\ looked[done] = SubSeq(OneByOne(asked[done]), 1, i)
    <3>1. Holds(SendCells(asked[done]))'
      BY <2>1, <2>2 DEF Holds
    <3>. QED
      BY <1>3, <2>1, <2>2, <3>1 DEF Stage, Walking
  <2>3. CASE ~IsSend /\ Type = "EVENT" /\ looked[done] = OneByOne(asked[done])
    BY <1>3, <2>1, <2>3 DEF Stage, Walking
  <2>. QED
    BY <1>3, <2>2, <2>3 DEF Walking
<1>. QED
  BY <1>1, <1>2, <1>3 DEF Stage

\* Steps that neither ask for anything nor look at a message.
LEMMA ServedFrame ==
    ASSUME ServedInv, UNCHANGED <<asked, looked, m_oM2NQueue>>,
           \/ npc' = npc /\ (npc \in {"check", "each"} => UNCHANGED <<memory, i, ptrData, ulMsgLen>>)
           \/ npc \in {"io", "loop", "push"} /\ npc' \in {"io", "loop", "push"},
           mpc' = "push" => mpc = "push" /\ UNCHANGED <<memory, mlen>>,
           npc' = "push" /\ ret' = "each" => npc = "push" /\ UNCHANGED <<ret, news>>
    PROVE  ServedInv'
<1>1. PICK done \in 0 .. Len(asked) : Waiting(m_oM2NQueue, asked, done) /\ Stage(done)
  BY DEF ServedInv
<1>2. done \in Nat /\ looked \in Seq(Seq(Item)) /\ asked \in Seq(Requests)
  BY DEF ServedInv
<1>3. Stage(done)'
  <2>1. CASE npc' = npc /\ (npc \in {"check", "each"} => UNCHANGED <<memory, i, ptrData, ulMsgLen>>)
    BY <1>1, <1>2, <2>1, StageStays
  <2>2. CASE npc \in {"io", "loop", "push"} /\ npc' \in {"io", "loop", "push"}
    BY <1>1, <2>2 DEF Stage
  <2>. QED
    BY <2>1, <2>2
<1>4. \E e \in 0 .. Len(asked') : Waiting(m_oM2NQueue', asked', e) /\ Stage(e)'
  BY <1>1, <1>3
<1>5. Complete'
  BY DEF Complete, ServedInv
<1>6. (mpc = "push" => IsSend /\ Type = "PROTO" /\ mlen = 1 + DataLen)'
  BY DEF ServedInv, IsSend, Type, DataLen
<1>7. (npc = "push" /\ ret = "each" => news.type = "EVENT" /\ Len(looked) > 0)'
  BY DEF ServedInv
<1>. QED
  BY <1>2, <1>4, <1>5, <1>6, <1>7 DEF ServedInv

LEMMA ServedOther ==
    ASSUME Turns, TypeInv, Alone, ServedInv,
           \/ PopN2M \/ RecvMsgPop \/ RecvMsgRead
           \/ \E c \in Conns, e \in Phases : ConnEvent(c, e)
           \/ \E c \in Conns, d \in Texts : ConnData(c, d)
           \/ \E c \in Conns : ConnFree(c)
           \/ ProcM2NMsg \/ Leave
           \/ SendN2MPush /\ ret = "io"
           \/ UNCHANGED vars
    PROVE  ServedInv'
<1>1. CASE PopN2M
  BY <1>1, ServedFrame DEF PopN2M, requests, main, pass
<1>2. CASE RecvMsgPop
  <2>1. npc = "io" /\ mpc' = "read" /\ UNCHANGED <<npc, asked, looked, m_oM2NQueue>>
    BY <1>2 DEF RecvMsgPop, MainBegins, Turns, requests
  <2>. QED
    BY <2>1, ServedFrame
<1>3. CASE RecvMsgRead
  BY <1>3, ServedFrame DEF RecvMsgRead, requests, main, pass
<1>4. CASE (\E c \in Conns, e \in Phases : ConnEvent(c, e)) \/ (\E c \in Conns, d \in Texts : ConnData(c, d))
  <2>1. /\ npc = "io" /\ mpc = "idle" /\ mpc' = mpc /\ npc' = "push" /\ ret' = "io"
        /\ UNCHANGED <<asked, looked, m_oM2NQueue>>
    BY <1>4 DEF ConnEvent, ConnData, NetBegins, SendN2MMsg, NotifyConnEvent, Turns, main, requests
  <2>. QED
    BY <2>1, ServedFrame
<1>5. CASE \E c \in Conns : ConnFree(c)
  BY <1>5, ServedFrame DEF ConnFree, requests, main, pass
<1>6. CASE ProcM2NMsg \/ Leave
  <2>1. /\ npc \in {"io", "loop"} /\ npc' \in {"io", "loop"}
        /\ UNCHANGED <<asked, looked, m_oM2NQueue, mpc, memory, mlen>>
    BY <1>6 DEF ProcM2NMsg, Leave, NetBegins, requests, main
  <2>. QED
    BY <2>1, ServedFrame
<1>7. CASE SendN2MPush /\ ret = "io"
  <2>1. /\ npc = "push" /\ npc' = "io" /\ UNCHANGED <<asked, looked, m_oM2NQueue, mpc, memory, mlen>>
    BY <1>7 DEF SendN2MPush, requests, main
  <2>. QED
    BY <2>1, ServedFrame
<1>8. CASE UNCHANGED vars
  <2>1. UNCHANGED <<asked, looked, m_oM2NQueue, npc, memory, i, ptrData, ulMsgLen, mpc, mlen, ret, news>>
    BY <1>8, Zenon DEF vars, main, pass, requests
  <2>. QED
    BY <2>1, ServedFrame
<1>. QED
  BY <1>1, <1>2, <1>3, <1>4, <1>5, <1>6, <1>7, <1>8
-------------------------------------------------------------------------------
\* What the main thread asks for.

LEMMA ServedPushM2N ==
    ASSUME TypeInv, ServedInv, NEW r \in Requests, PushM2N(r)
    PROVE  ServedInv'
<1>1. PICK done \in 0 .. Len(asked) : Waiting(m_oM2NQueue, asked, done) /\ Stage(done)
  BY DEF ServedInv
<1>2. /\ done \in Nat /\ looked \in Seq(Seq(Item)) /\ asked \in Seq(Requests) /\ m_oM2NQueue \in Seq(Message)
  BY DEF ServedInv, TypeInv
<1>3. /\ m_oM2NQueue' = Append(m_oM2NQueue, SendCells(r)) /\ asked' = Append(asked, r)
      /\ mpc = "idle"
      /\ UNCHANGED <<looked, npc, memory, i, ptrData, ulMsgLen, mpc, ret, news>>
  BY DEF PushM2N, main, pass
<1>4. Waiting(m_oM2NQueue', asked', done)
  BY <1>1, <1>2, <1>3, RequestJoins
<1>5. /\ asked' \in Seq(Requests) /\ Len(asked') = Len(asked) + 1 /\ Len(asked) \in Nat
      /\ \A k \in 1 .. Len(asked) : asked'[k] = asked[k]
  BY <1>2, <1>3
<1>6. done > 0 => asked'[done] = asked[done]
  BY <1>2, <1>5
<1>7. Stage(done)'
  BY <1>1, <1>2, <1>3, <1>6, StageStays
<1>8. done \in 0 .. Len(asked')
  BY <1>2, <1>5
<1>9. Complete'
  <2>1. Len(looked) <= Len(asked)
    BY <1>1, <1>2, <1>5 DEF Stage, Checking, Walking
  <2>2. \A k \in 1 .. Len(looked) : asked'[k] = asked[k]
    BY <1>2, <1>5, <2>1, SMTT(30)
  <2>. QED
    BY <1>3, <2>2 DEF Complete, ServedInv
<1>10. (npc = "push" /\ ret = "each" => news.type = "EVENT" /\ Len(looked) > 0)'
  BY <1>3 DEF ServedInv
<1>. QED
  BY <1>2, <1>3, <1>4, <1>5, <1>7, <1>8, <1>9, <1>10 DEF ServedInv

\* SendMsg and BroadcastMsg leave a head for a text in the buffer ...
LEMMA ServedSendMsg ==
    ASSUME Turns, TypeInv, ServedInv, NEW list \in Lists, NEW d \in Texts, SendMsg(list, d)
    PROVE  ServedInv'
<1>1. PICK done \in 0 .. Len(asked) : Waiting(m_oM2NQueue, asked, done) /\ Stage(done)
  BY DEF ServedInv
<1>2. looked \in Seq(Seq(Item)) /\ asked \in Seq(Requests)
  BY DEF ServedInv
<1>3. /\ npc = "io" /\ npc' = "io" /\ UNCHANGED <<looked, asked, m_oM2NQueue>>
      /\ mlen' = Length[d] + 1
  BY DEF SendMsg, MainBegins, Turns, requests
<1>4. PICK r : /\ r = [type |-> "PROTO", conns |-> list, data |-> d]
               /\ r.type \in Types /\ r.type = "PROTO" /\ r.conns \in Seq(Conns)
               /\ r.data \in DataOf /\ r.data = d /\ r.conns = list
  <2>1. PICK r : r = [type |-> "PROTO", conns |-> list, data |-> d]
    OBVIOUS
  <2>2. r.type = "PROTO" /\ r.conns = list /\ r.data = d
    BY <2>1
  <2>3. "PROTO" \in Types /\ list \in Seq(Conns) /\ d \in DataOf
    BY PipelineAssumption DEF Types, DataOf
  <2>. QED
    BY <2>1, <2>2, <2>3, Zenon
<1>5. memory' = Filled(SendCells(r))
  BY <1>4 DEF SendMsg
<1>6. /\ SendCells(r) \in Message /\ SendCells(r)[1] = SendHead(r.type, Len(r.conns), Length[r.data])
      /\ Length[d] \in Nat
  BY <1>4, SendCellsFacts, DataFacts
<1>7. memory'[0] = SendHead("PROTO", Len(list), Length[d])
  <2>1. memory'[0] = SendCells(r)[1]
    BY <1>5, <1>6, FilledFacts DEF TypeInv
  <2>. QED
    BY <1>4, <1>6, <2>1
<1>8. IsSend' /\ Type' = "PROTO" /\ DataLen' = Length[d]
  BY <1>7 DEF IsSend, Type, DataLen, SendHead
<1>9. Stage(done)'
  BY <1>1, <1>3 DEF Stage
<1>10. Complete'
  BY <1>3 DEF Complete, ServedInv
<1>11. mlen' = 1 + DataLen'
  BY <1>3, <1>6, <1>8
<1>. QED
  BY <1>1, <1>2, <1>3, <1>8, <1>9, <1>10, <1>11 DEF ServedInv

\* ... and push a dud.
LEMMA ServedSendMsgPush ==
    ASSUME TypeInv, ServedInv, SendMsgPush
    PROVE  ServedInv'
<1>1. PICK done \in 0 .. Len(asked) : Waiting(m_oM2NQueue, asked, done) /\ Stage(done)
  BY DEF ServedInv
<1>2. /\ done \in Nat /\ looked \in Seq(Seq(Item)) /\ asked \in Seq(Requests) /\ m_oM2NQueue \in Seq(Message)
  BY DEF ServedInv, TypeInv
<1>3. /\ mpc = "push" /\ mpc' = "idle"
      /\ UNCHANGED <<looked, asked, npc, memory, i, ptrData, ulMsgLen, ret, news>>
  BY DEF SendMsgPush, pass, requests
<1>4. Waiting(m_oM2NQueue', asked, done)
  <2>1. CASE Len(m_oM2NQueue) < QueueLen
    <3>1. /\ mlen \in Nat \ {0} /\ memory \in [0 .. BufLen -> Cell] /\ memory[0] \in Heads
          /\ IsSend /\ Type = "PROTO" /\ mlen = 1 + DataLen
      BY <1>3 DEF TypeInv, ServedInv
    <3>2. PICK m \in Message : m = Cells(0, mlen) /\ Len(m) = mlen /\ m[1] = memory[0]
      BY <3>1, CellsMessage
    <3>3. Dud(m)
      BY <3>1, <3>2 DEF Dud, IsSend, Type, DataLen
    <3>4. m_oM2NQueue' = Append(m_oM2NQueue, m)
      BY <2>1, <3>2 DEF SendMsgPush
    <3>. QED
      BY <1>1, <1>2, <3>3, <3>4, DudJoins
  <2>2. CASE ~ (Len(m_oM2NQueue) < QueueLen)
    BY <1>1, <2>2 DEF SendMsgPush
  <2>. QED
    BY <2>1, <2>2
<1>5. Stage(done)'
  BY <1>1, <1>2, <1>3, StageStays
<1>6. Complete'
  BY <1>3 DEF Complete, ServedInv
<1>7. (npc = "push" /\ ret = "each" => news.type = "EVENT" /\ Len(looked) > 0)'
  BY <1>3 DEF ServedInv
<1>8. \E e \in 0 .. Len(asked') : Waiting(m_oM2NQueue', asked', e) /\ Stage(e)'
  BY <1>1, <1>3, <1>4, <1>5
<1>. QED
  BY <1>2, <1>3, <1>6, <1>7, <1>8 DEF ServedInv
-------------------------------------------------------------------------------
\* What ProcM2NMsg does about it.

\* The oldest message is popped.
LEMMA ServedTake ==
    ASSUME Turns, TypeInv, Alone, ServedInv, Take
    PROVE  ServedInv'
<1>1. PICK done \in 0 .. Len(asked) : Waiting(m_oM2NQueue, asked, done) /\ Stage(done)
  BY DEF ServedInv
<1>2. /\ looked \in Seq(Seq(Item)) /\ asked \in Seq(Requests) /\ m_oM2NQueue \in Seq(Message)
      /\ memory \in [0 .. BufLen -> Cell]
  BY DEF ServedInv, TypeInv
<1>3. /\ npc = "loop" /\ npc' = "check" /\ m_oM2NQueue # <<>> /\ UNCHANGED <<looked, asked, mpc>>
      /\ mpc = "idle"
      /\ memory' = Filled(Head(m_oM2NQueue)) /\ ulMsgLen' = Len(Head(m_oM2NQueue))
      /\ m_oM2NQueue' = Tail(m_oM2NQueue)
  BY DEF Take, Alone, main, requests
<1>4. PICK m \in Message : m = Head(m_oM2NQueue) /\ m = m_oM2NQueue[1]
  BY <1>2, <1>3, QueueFacts
<1>5. done = Len(looked)
  BY <1>1, <1>3 DEF Stage
<1>6. Complete'
  BY <1>3 DEF Complete, ServedInv
<1>7. SUFFICES \E e \in 0 .. Len(asked) : Waiting(m_oM2NQueue', asked, e) /\ Stage(e)'
  BY <1>2, <1>3, <1>6 DEF ServedInv
<1>8. \/ /\ done + 1 \in 0 .. Len(asked) /\ m = SendCells(asked[done + 1])
         /\ Waiting(m_oM2NQueue', asked, done + 1)
      \/ Dud(m) /\ Waiting(m_oM2NQueue', asked, done)
  BY <1>1, <1>2, <1>3, <1>4, FirstLeaves
<1>9. CASE /\ done + 1 \in 0 .. Len(asked) /\ m = SendCells(asked[done + 1])
           /\ Waiting(m_oM2NQueue', asked, done + 1)
  <2>1. PICK e \in 0 .. Len(asked) : e = done + 1
    BY <1>9, Zenon
  <2>2. PICK r \in Requests : r = asked[e]
    <3>1. e \in 1 .. Len(asked)
      BY <1>2, <2>1
    <3>. QED
      BY <1>2, <3>1
  <2>3. Len(m) <= 1 + MAX_BIZ_MSG_SIZE
    <3>1. WellFormed(r)
      BY RequestFacts
    <3>2. Len(m) = 1 + Len(r.conns) + Length[r.data]
      BY <1>9, <2>1, <2>2, <3>1, WellTyped, SendCellsFacts
    <3>3. Len(r.conns) \in Nat /\ Length[r.data] \in Nat /\ MAX_BIZ_MSG_SIZE \in Nat
      BY <3>1, WellTyped, DataFacts, PipelineAssumption
    <3>. QED
      BY <3>1, <3>2, <3>3 DEF WellFormed
  <2>4. Holds(m)'
    BY <1>2, <1>3, <1>4, <2>3, FilledHolds
  <2>5. Holds(SendCells(asked[e]))' /\ ulMsgLen' = Len(SendCells(asked'[e]))
    BY <1>3, <1>4, <1>9, <2>1, <2>4 DEF Holds
  <2>6. Checking(e)'
    BY <1>3, <1>5, <2>1, <2>5 DEF Checking
  <2>7. Stage(e)'
    BY <1>3, <2>6 DEF Stage
  <2>. QED
    BY <1>9, <2>1, <2>7
<1>10. CASE Dud(m) /\ Waiting(m_oM2NQueue', asked, done)
  <2>1. memory'[0] = m[1]
    BY <1>2, <1>3, <1>4, FilledFacts
  <2>2. IsSend' /\ Type' = "PROTO" /\ DataLen' = m[1].iDataLen /\ ulMsgLen' = 1 + m[1].iDataLen
    BY <1>3, <1>4, <1>10, <2>1 DEF Dud, IsSend, Type, DataLen
  <2>3. Stage(done)'
    BY <1>3, <1>5, <2>2 DEF Stage, Checking
  <2>. QED
    BY <1>10, <2>3
<1>. QED
  BY <1>8, <1>9, <1>10

\* A request is valid, a dud is not.
LEMMA ServedCheck ==
    ASSUME TypeInv, Alone, ServedInv, Check
    PROVE  ServedInv'
<1>1. PICK done \in 0 .. Len(asked) : Waiting(m_oM2NQueue, asked, done) /\ Stage(done)
  BY DEF ServedInv
<1>2. /\ looked \in Seq(Seq(Item)) /\ asked \in Seq(Requests)
      /\ memory \in [0 .. BufLen -> Cell] /\ memory[0] \in Heads
  BY DEF ServedInv, TypeInv
<1>3. /\ npc = "check" /\ UNCHANGED <<memory, asked, m_oM2NQueue, mpc>> /\ mpc = "idle"
  BY DEF Check, Alone, main, requests
<1>4. Checking(done)
  BY <1>1, <1>3 DEF Stage
<1>5. CASE /\ done = Len(looked) + 1
           /\ Holds(SendCells(asked[done])) /\ ulMsgLen = Len(SendCells(asked[done]))
  <2>1. PICK r \in Requests : r = asked[done]
    <3>1. done \in 1 .. Len(asked)
      BY <1>2, <1>5
    <3>. QED
      BY <1>2, <3>1
  <2>2. WellFormed(r) /\ Holds(SendCells(r)) /\ ulMsgLen = Len(SendCells(r))
    BY <1>5, <2>1, RequestFacts
  <2>3. PICK n \in Nat, l \in Nat : n = Len(r.conns) /\ l = Length[r.data] /\ n > 0 /\ l > 0
    <3>1. Len(r.conns) \in Nat /\ Length[r.data] \in Nat
      BY <2>2, WellTyped, DataFacts
    <3>2. Len(r.conns) > 0 /\ Length[r.data] > 0
      BY <2>2 DEF WellFormed
    <3>. QED
      BY <3>1, <3>2, Zenon
  <2>4. Type = r.type /\ ConnCnt = n /\ DataLen = l
    BY <1>2, <2>2, <2>3, HeldRequest
  <2>5. ulMsgLen = 1 + n + l
    BY <2>2, <2>3, WellTyped, SendCellsFacts
  <2>6. Type \in {"PROTO", "BIND", "CLOSE"} /\ (Type = "BIND" => l = Length["bind"])
        /\ (Type = "CLOSE" => l = Length["close"])
    BY <2>2, <2>3, <2>4, PipelineAssumption DEF WellFormed, CloseMsgs
  <2>7. Valid
    <3>1. ulMsgLen >= 1 /\ ulMsgLen - 1 - n = l
      BY <2>3, <2>5
    <3>. QED
      BY <2>3, <2>4, <2>6, <3>1 DEF Valid
  <2>8. npc' = "each" /\ ptrData' = 1 + n /\ i' = 0 /\ looked' = Append(looked, <<>>)
    BY <2>4, <2>7 DEF Check
  <2>9. /\ looked' \in Seq(Seq(Item)) /\ Len(looked') = Len(looked) + 1 /\ Len(looked) \in Nat
        /\ \A k \in 1 .. Len(looked) : looked'[k] = looked[k]
        /\ looked'[done] = <<>>
    <3>1. <<>> \in Seq(Item)
      OBVIOUS
    <3>. QED
      BY <1>2, <1>5, <2>8, <3>1
  <2>10. Complete'
    <3>1. ASSUME NEW k \in 1 .. Len(looked'), k < Len(looked') PROVE looked'[k] = OneByOne(asked'[k])
      <4>1. k \in 1 .. Len(looked)
        BY <2>9, <3>1
      <4>. QED
        BY <1>3, <2>9, <4>1 DEF Complete, ServedInv
    <3>. QED
      BY <2>8, <3>1 DEF Complete
  <2>11. looked'[done] = SubSeq(OneByOne(r), 1, 0)
    <3>1. OneByOne(r) \in Seq(Item)
      BY <2>2, OneByOneFacts
    <3>2. SubSeq(OneByOne(r), 1, 0) = <<>>
      BY <3>1
    <3>. QED
      BY <2>9, <3>2
  <2>12. Holds(SendCells(asked[done]))'
    BY <1>3, <1>5 DEF Holds
  <2>13. Walking(done)'
    <3>1. done = Len(looked') /\ done > 0
      BY <1>5, <2>9
    <3>2. ptrData' = 1 + Len(asked'[done].conns) /\ i' <= Len(asked'[done].conns)
      BY <1>3, <2>1, <2>3, <2>8
    <3>3. looked'[done] = SubSeq(OneByOne(asked'[done]), 1, i')
      BY <1>3, <2>1, <2>8, <2>11
    <3>. QED
      BY <2>12, <3>1, <3>2, <3>3 DEF Walking
  <2>14. Stage(done)'
    BY <2>8, <2>13 DEF Stage
  <2>15. \E e \in 0 .. Len(asked') : Waiting(m_oM2NQueue', asked', e) /\ Stage(e)'
    BY <1>1, <1>3, <2>14
  <2>. QED
    BY <1>2, <1>3, <2>8, <2>9, <2>10, <2>15 DEF ServedInv
<1>6. CASE done = Len(looked) /\ IsSend /\ Type = "PROTO" /\ ulMsgLen = 1 + DataLen
  <2>1. ConnCnt \in Nat /\ DataLen \in Nat
    BY <1>2, HeadFacts
  <2>2. ~ Valid
    <3>1. SUFFICES ASSUME ConnCnt > 0, (ulMsgLen - 1) - ConnCnt = DataLen PROVE FALSE
      BY DEF Valid
    <3>. QED
      BY <1>6, <2>1, <3>1
  <2>3. npc' = "loop" /\ UNCHANGED looked
    BY <2>2 DEF Check
  <2>4. Stage(done)'
    BY <1>6, <2>3 DEF Stage
  <2>5. Complete'
    BY <1>3, <2>3 DEF Complete, ServedInv
  <2>6. \E e \in 0 .. Len(asked') : Waiting(m_oM2NQueue', asked', e) /\ Stage(e)'
    BY <1>1, <1>3, <2>4
  <2>. QED
    BY <1>2, <1>3, <2>3, <2>5, <2>6 DEF ServedInv
<1>. QED
  BY <1>4, <1>5, <1>6 DEF Checking

\* One more id of the list of a request; an event comes of the only one.
LEMMA ServedOneMore ==
    ASSUME SingleEvents, TypeInv, Alone, ServedInv, npc = "each", i < ConnCnt,
           NEW done \in 0 .. Len(asked), Waiting(m_oM2NQueue, asked, done), done = Len(looked), done > 0,
           Holds(SendCells(asked[done])), ptrData = 1 + Len(asked[done].conns),
           looked[done] = SubSeq(OneByOne(asked[done]), 1, i),
           looked' = LookedAt(Asked), i' = i + 1,
           UNCHANGED <<asked, m_oM2NQueue, mpc, ptrData>>,
           \/ npc' = "each" /\ UNCHANGED memory
           \/ npc' = "push" /\ news'.type = "EVENT" /\ Type # "PROTO"
    PROVE  ServedInv'
<1>1. /\ looked \in Seq(Seq(Item)) /\ asked \in Seq(Requests)
      /\ memory \in [0 .. BufLen -> Cell] /\ i \in Nat /\ mpc = "idle"
  BY DEF ServedInv, TypeInv, TypeOK, Alone
<1>2. PICK r \in Requests : r = asked[done]
  <2>1. done \in 1 .. Len(asked)
    BY <1>1
  <2>. QED
    BY <1>1, <2>1
<1>3. PICK d \in Nat \ {0} : d = done
  <2>1. done \in Nat \ {0}
    BY <1>1
  <2>. QED
    BY <2>1, Zenon
<1>4. WellFormed(r) /\ Holds(SendCells(r)) /\ looked[d] = SubSeq(OneByOne(r), 1, i) /\ ptrData = 1 + Len(r.conns)
  BY <1>2, <1>3, RequestFacts
<1>5. /\ Type = r.type /\ ConnCnt = Len(r.conns)
      /\ looked' \in Seq(Seq(Item)) /\ Len(looked') = d
      /\ \A k \in 1 .. d - 1 : looked'[k] = looked[k]
      /\ looked'[d] = SubSeq(OneByOne(r), 1, i + 1)
  BY <1>1, <1>3, <1>4, OneMore
<1>6. PICK n \in Nat : n = Len(r.conns)
  <2>1. Len(r.conns) \in Nat
    BY <1>4, WellTyped
  <2>. QED
    BY <2>1, Zenon
<1>7. ASSUME NEW k \in 1 .. Len(looked'), k < Len(looked') PROVE looked'[k] = OneByOne(asked'[k])
  <2>1. k \in 1 .. Len(looked) /\ k < Len(looked) /\ k \in 1 .. d - 1
    BY <1>3, <1>5, <1>7
  <2>2. looked[k] = OneByOne(asked[k])
    BY <2>1 DEF ServedInv, Complete
  <2>. QED
    BY <1>5, <2>1, <2>2
<1>8. CASE npc' = "each" /\ UNCHANGED memory
  <2>1. Holds(SendCells(asked[done]))'
    BY <1>8 DEF Holds
  <2>2. i' <= n
    BY <1>1, <1>5, <1>6
  <2>3. Walking(done)'
    BY <1>2, <1>3, <1>4, <1>5, <1>6, <2>1, <2>2 DEF Walking
  <2>4. Stage(done)'
    BY <1>8, <2>3 DEF Stage
  <2>5. Complete'
    BY <1>7, <1>8 DEF Complete
  <2>6. \E e \in 0 .. Len(asked') : Waiting(m_oM2NQueue', asked', e) /\ Stage(e)'
    BY <2>4
  <2>. QED
    BY <1>1, <1>5, <1>8, <2>5, <2>6 DEF ServedInv
<1>9. CASE npc' = "push" /\ news'.type = "EVENT" /\ Type # "PROTO"
  <2>1. n = 1 /\ i = 0
    <3>1. r.type # "PROTO" /\ Len(r.conns) = 1
      BY <1>5, <1>9, Zenon DEF SingleEvents
    <3>2. n = 1 /\ i < n
      BY <1>5, <1>6, <3>1
    <3>. QED
      BY <1>1, <3>2
  <2>2. looked'[d] = OneByOne(r)
    <3>1. PICK s \in Seq(Item) : s = OneByOne(r) /\ Len(s) = 1
      BY <1>4, <1>6, <2>1, OneByOneFacts
    <3>2. SubSeq(s, 1, 1) = s
      BY <3>1
    <3>3. looked'[d] = SubSeq(s, 1, 1)
      BY <1>5, <2>1, <3>1
    <3>. QED
      BY <3>1, <3>2, <3>3
  <2>3. Complete'
    <3>1. ASSUME NEW k \in 1 .. Len(looked') PROVE looked'[k] = OneByOne(asked'[k])
      <4>1. k < Len(looked') \/ k = d
        BY <1>5
      <4>2. CASE k = d
        BY <1>2, <1>3, <2>2, <4>2
      <4>. QED
        BY <1>7, <4>1, <4>2
    <3>. QED
      BY <3>1 DEF Complete
  <2>4. Stage(done)'
    BY <1>3, <1>5, <1>9 DEF Stage
  <2>5. \E e \in 0 .. Len(asked') : Waiting(m_oM2NQueue', asked', e) /\ Stage(e)'
    BY <2>4
  <2>6. Len(looked') > 0
    BY <1>3, <1>5
  <2>. QED
    BY <1>1, <1>5, <1>9, <2>3, <2>5, <2>6 DEF ServedInv
<1>. QED
  BY <1>8, <1>9

\* The list is at its end, or what the type is read from is an event.
LEMMA ServedLeft ==
    ASSUME TypeInv, Alone, ServedInv, EachEnd \/ EachInvalid
    PROVE  ServedInv'
<1>1. PICK done \in 0 .. Len(asked) : Waiting(m_oM2NQueue, asked, done) /\ Stage(done)
  BY DEF ServedInv
<1>2. /\ looked \in Seq(Seq(Item)) /\ asked \in Seq(Requests)
      /\ memory \in [0 .. BufLen -> Cell] /\ i \in Nat
  BY DEF ServedInv, TypeInv, TypeOK
<1>3. /\ npc = "each" /\ npc' = "loop" /\ UNCHANGED <<asked, looked, m_oM2NQueue, mpc>> /\ mpc = "idle"
      /\ i >= ConnCnt \/ Type \notin {"PROTO", "BIND", "CLOSE"}
  BY DEF EachEnd, EachInvalid, Alone, main, requests
<1>4. Walking(done)
  BY <1>1, <1>3 DEF Stage
<1>5. done = Len(looked) /\ done > 0
  BY <1>4 DEF Walking
<1>6. looked[done] = OneByOne(asked[done])
  <2>1. CASE ~IsSend /\ Type = "EVENT" /\ looked[done] = OneByOne(asked[done])
    BY <2>1
  <2>2. CASE /\ Holds(SendCells(asked[done]))
             /\ ptrData = 1 + Len(asked[done].conns) /\ i <= Len(asked[done].conns)
             /\ looked[done] = SubSeq(OneByOne(asked[done]), 1, i)
    <3>1. PICK r \in Requests : r = asked[done]
      <4>1. done \in 1 .. Len(asked)
        BY <1>2, <1>5
      <4>. QED
        BY <1>2, <4>1
    <3>2. WellFormed(r) /\ Holds(SendCells(r))
      BY <2>2, <3>1, RequestFacts
    <3>3. Type = r.type /\ ConnCnt = Len(r.conns)
      BY <1>2, <3>2, HeldRequest
    <3>4. r.type \in {"PROTO", "BIND", "CLOSE"}
      BY <3>2 DEF WellFormed
    <3>5. PICK s \in Seq(Item) : s = OneByOne(r) /\ Len(s) = Len(r.conns) /\ Len(r.conns) \in Nat
      BY <3>2, OneByOneFacts
    <3>6. i = Len(s)
      BY <1>2, <1>3, <2>2, <3>1, <3>3, <3>4, <3>5
    <3>7. SubSeq(s, 1, Len(s)) = s
      OBVIOUS
    <3>. QED
      BY <2>2, <3>1, <3>5, <3>6, <3>7
  <2>. QED
    BY <1>4, <2>1, <2>2 DEF Walking
<1>7. Complete'
  <2>1. ASSUME NEW k \in 1 .. Len(looked) PROVE looked[k] = OneByOne(asked[k])
    <3>1. k < Len(looked) \/ k = done
      BY <1>2, <1>5
    <3>2. CASE k < Len(looked)
      BY <3>2 DEF ServedInv, Complete
    <3>. QED
      BY <1>6, <3>1, <3>2
  <2>. QED
    BY <1>3, <2>1 DEF Complete
<1>8. Stage(done)'
  BY <1>3, <1>5 DEF Stage
<1>9. \E e \in 0 .. Len(asked') : Waiting(m_oM2NQueue', asked', e) /\ Stage(e)'
  BY <1>1, <1>3, <1>8
<1>. QED
  BY <1>2, <1>3, <1>7, <1>9 DEF ServedInv

\* The list, one id after the other.
LEMMA ServedEach ==
    ASSUME SingleEvents, TypeInv, Alone, ServedInv,
           EachUnknown \/ EachProto \/ EachBind \/ EachClose
    PROVE  ServedInv'
<1>1. PICK done \in 0 .. Len(asked) : Waiting(m_oM2NQueue, asked, done) /\ Stage(done)
  BY DEF ServedInv
<1>2. /\ looked \in Seq(Seq(Item)) /\ asked \in Seq(Requests)
      /\ memory \in [0 .. BufLen -> Cell] /\ i \in Nat
  BY DEF ServedInv, TypeInv, TypeOK
<1>3. /\ npc = "each" /\ i < ConnCnt /\ i' = i + 1
      /\ UNCHANGED <<asked, m_oM2NQueue, mpc, ptrData>> /\ mpc = "idle"
  BY DEF EachUnknown, EachProto, EachBind, EachClose, Each, Alone, main, requests
<1>0. /\ IsId /\ IsSend => looked' = LookedAt(Asked)
      /\ ~ IsSend /\ Type \notin {"PROTO", "BIND", "CLOSE"} => UNCHANGED looked
  BY DEF EachUnknown, EachProto, EachBind, EachClose, Each
<1>4. \/ npc' = "each" /\ UNCHANGED memory
      \/ npc' = "push" /\ news'.type = "EVENT" /\ Type \in {"BIND", "CLOSE"}
  BY <1>3 DEF EachUnknown, EachProto, EachBind, EachClose, Each, NotifyConnEvent, SendN2MMsg
<1>5. Walking(done)
  BY <1>1, <1>3 DEF Stage
<1>6. done = Len(looked) /\ done > 0
  BY <1>5 DEF Walking
<1>7. CASE /\ Holds(SendCells(asked[done]))
           /\ ptrData = 1 + Len(asked[done].conns) /\ i <= Len(asked[done].conns)
           /\ looked[done] = SubSeq(OneByOne(asked[done]), 1, i)
  <2>1. PICK r \in Requests : r = asked[done]
    <3>1. done \in 1 .. Len(asked)
      BY <1>2, <1>6
    <3>. QED
      BY <1>2, <3>1
  <2>2. PICK d \in Nat \ {0} : d = done
    <3>1. done \in Nat \ {0}
      BY <1>2, <1>6
    <3>. QED
      BY <3>1, Zenon
  <2>3. /\ WellFormed(r) /\ Holds(SendCells(r)) /\ looked[d] = SubSeq(OneByOne(r), 1, i)
        /\ ptrData = 1 + Len(r.conns) /\ d = Len(looked)
    BY <1>6, <1>7, <2>1, <2>2, RequestFacts
  <2>4. IsId /\ IsSend
    BY <1>2, <1>3, <2>3, OneMore
  <2>5. looked' = LookedAt(Asked)
    BY <1>0, <2>4
  <2>6. \/ npc' = "each" /\ UNCHANGED memory
        \/ npc' = "push" /\ news'.type = "EVENT" /\ Type # "PROTO"
    BY <1>4
  <2>. QED
    BY <1>1, <1>3, <1>6, <1>7, <2>5, <2>6, ServedOneMore
<1>8. CASE ~IsSend /\ Type = "EVENT" /\ looked[done] = OneByOne(asked[done])
  <2>1. UNCHANGED <<looked, memory>> /\ npc' = "each"
    BY <1>0, <1>4, <1>8
  <2>2. IsSend' = IsSend /\ Type' = Type
    BY <2>1 DEF IsSend, Type
  <2>3. Walking(done)'
    BY <1>3, <1>6, <1>8, <2>1, <2>2 DEF Walking
  <2>4. Stage(done)'
    BY <2>1, <2>3 DEF Stage
  <2>5. Complete'
    BY <1>3, <2>1 DEF Complete, ServedInv
  <2>6. \E e \in 0 .. Len(asked') : Waiting(m_oM2NQueue', asked', e) /\ Stage(e)'
    BY <1>1, <1>3, <2>4
  <2>. QED
    BY <1>2, <1>3, <2>1, <2>5, <2>6 DEF ServedInv
<1>. QED
  BY <1>5, <1>7, <1>8 DEF Walking

\* The event is pushed, and the list goes on with what is left in the buffer.
LEMMA ServedPushed ==
    ASSUME TypeInv, Alone, NewsInv, ServedInv, SendN2MPush, ret = "each"
    PROVE  ServedInv'
<1>1. PICK done \in 0 .. Len(asked) : Waiting(m_oM2NQueue, asked, done) /\ Stage(done)
  BY DEF ServedInv
<1>2. /\ looked \in Seq(Seq(Item)) /\ asked \in Seq(Requests)
      /\ news.type = "EVENT" /\ Len(looked) > 0
  BY DEF ServedInv, SendN2MPush
<1>3. /\ npc = "push" /\ npc' = "each" /\ UNCHANGED <<asked, looked, m_oM2NQueue, mpc, memory>> /\ mpc = "idle"
  BY DEF SendN2MPush, Alone, main, requests
<1>4. memory[0] = RecvHead("EVENT", news.conn, Length[news.data])
  BY <1>2, <1>3, PushedCells
<1>5. ~ IsSend' /\ Type' = "EVENT"
  BY <1>3, <1>4 DEF IsSend, Type, RecvHead
<1>6. done = Len(looked)
  BY <1>1, <1>3 DEF Stage
<1>7. looked[done] = OneByOne(asked[done])
  <2>1. done \in 1 .. Len(looked)
    BY <1>2, <1>6
  <2>. QED
    BY <1>3, <2>1 DEF ServedInv, Complete
<1>8. Walking(done)'
  BY <1>2, <1>3, <1>5, <1>6, <1>7 DEF Walking
<1>9. Stage(done)'
  BY <1>3, <1>8 DEF Stage
<1>10. Complete'
  BY <1>3 DEF Complete, ServedInv
<1>11. \E e \in 0 .. Len(asked') : Waiting(m_oM2NQueue', asked', e) /\ Stage(e)'
  BY <1>1, <1>3, <1>9
<1>. QED
  BY <1>2, <1>3, <1>10, <1>11 DEF ServedInv
-------------------------------------------------------------------------------
LEMMA ServedInit == Init => ServedInv
<1> SUFFICES ASSUME Init PROVE ServedInv
  OBVIOUS
<1>1. /\ asked = <<>> /\ looked = <<>> /\ m_oM2NQueue = <<>> /\ mpc = "idle" /\ npc = "io"
  BY DEF Init
<1>2. <<>> \in Seq(Requests) /\ <<>> \in Seq(Seq(Item)) /\ Len(<<>>) = 0 /\ 1 .. 0 = {} /\ 0 .. 0 - 1 = {}
  OBVIOUS
<1>3. Counts(m_oM2NQueue, asked, 0, [k \in 0 .. 0 |-> 0])
  BY <1>1, <1>2 DEF Counts
<1>4. Waiting(m_oM2NQueue, asked, 0) /\ Stage(0)
  BY <1>1, <1>2, <1>3 DEF Waiting, Stage
<1>5. \E e \in 0 .. Len(asked) : Waiting(m_oM2NQueue, asked, e) /\ Stage(e)
  BY <1>1, <1>2, <1>4
<1>. QED
  BY <1>1, <1>2, <1>5 DEF ServedInv, Complete

LEMMA ServedStep ==
    Turns /\ SingleEvents /\ TypeInv /\ Alone /\ NewsInv /\ ServedInv /\ [Next]_vars => ServedInv'
<1> SUFFICES ASSUME Turns, SingleEvents, TypeInv, Alone, NewsInv, ServedInv, [Next]_vars PROVE ServedInv'
  OBVIOUS
<1>1. CASE \E r \in Requests : PushM2N(r)
  BY <1>1, ServedPushM2N
<1>2. CASE \E l \in Lists, d \in Texts : SendMsg(l, d)
  BY <1>2, ServedSendMsg
<1>3. CASE SendMsgPush
  BY <1>3, ServedSendMsgPush
<1>4. CASE Take
  BY <1>4, ServedTake
<1>5. CASE Check
  BY <1>5, ServedCheck
<1>6. CASE EachEnd \/ EachInvalid
  BY <1>6, ServedLeft
<1>7. CASE EachUnknown \/ EachProto \/ EachBind \/ EachClose
  BY <1>7, ServedEach
<1>8. CASE SendN2MPush
  <2>1. ret \in {"io", "each"}
    BY DEF TypeInv, TypeOK
  <2>. QED
    BY <1>8, <2>1, ServedOther, ServedPushed
<1>. QED
  BY <1>1, <1>2, <1>3, <1>4, <1>5, <1>6, <1>7, <1>8, ServedOther DEF Next, Main, Net

\* Every request that m_oM2NQueue accepted is carried out, for every connection of its
\* list, once, in order and with its data, unless the threads' calls overlap, or one
\* request binds or closes several connections: the event of the first is put into the
\* buffer that the list is read from (Served).
THEOREM ServedInOrder ==
    ASSUME Turns, SingleEvents
    PROVE  Spec => []Served
<1>1. TypeInv /\ ServedInv => Served
  <2>1. SUFFICES ASSUME TypeInv, ServedInv PROVE Served
    OBVIOUS
  <2>2. PICK done \in 0 .. Len(asked) : Waiting(m_oM2NQueue, asked, done) /\ Stage(done)
    BY <2>1 DEF ServedInv
  <2>3. /\ looked \in Seq(Seq(Item)) /\ asked \in Seq(Requests)
        /\ Len(looked) \in Nat /\ Len(asked) \in Nat
    BY <2>1 DEF ServedInv
  <2>4. Len(looked) <= done
    BY <2>2, <2>3 DEF Stage, Checking, Walking
  <2>5. Len(looked) <= Len(asked)
    BY <2>3, <2>4
  <2>6. ASSUME NEW k \in 1 .. Len(looked)
        PROVE  /\ npc = "io" \/ k < Len(looked) => looked[k] = OneByOne(asked[k])
               /\ IsPrefix(looked[k], OneByOne(asked[k]))
    <3>1. npc = "io" \/ k < Len(looked) => looked[k] = OneByOne(asked[k])
      BY <2>1 DEF ServedInv, Complete
    <3>2. PICK r \in Requests : r = asked[k]
      <4>1. k \in 1 .. Len(asked)
        BY <2>3, <2>5
      <4>. QED
        BY <2>3, <4>1
    <3>3. PICK s \in Seq(Item) : s = OneByOne(r)
      BY <3>2, RequestFacts, OneByOneFacts
    <3>4. \E j \in 0 .. Len(s) : looked[k] = SubSeq(s, 1, j)
      <4>1. Len(s) \in Nat /\ SubSeq(s, 1, Len(s)) = s
        OBVIOUS
      <4>2. CASE looked[k] = OneByOne(asked[k])
        BY <3>2, <3>3, <4>1, <4>2
      <4>3. CASE looked[k] # OneByOne(asked[k])
        <5>1. npc = "each" /\ k = Len(looked)
          BY <2>1, <2>3, <4>3 DEF ServedInv, Complete
        <5>2. Walking(done)
          BY <2>2, <5>1 DEF Stage
        <5>3. k = done /\ i <= Len(r.conns) /\ looked[k] = SubSeq(s, 1, i)
          BY <3>2, <3>3, <4>3, <5>1, <5>2 DEF Walking
        <5>4. Len(s) = Len(r.conns) /\ Len(r.conns) \in Nat
          BY <3>2, <3>3, RequestFacts, OneByOneFacts
        <5>5. i \in Nat
          BY <2>1 DEF TypeInv, TypeOK
        <5>6. i \in 0 .. Len(s)
          BY <5>3, <5>4, <5>5
        <5>. QED
          BY <5>3, <5>6
      <4>. QED
        BY <4>2, <4>3
    <3>5. PICK j \in 0 .. Len(s) : looked[k] = SubSeq(s, 1, j)
      BY <3>4
    <3>6. PICK p \in Seq(Item) : p = SubSeq(s, 1, j) /\ Len(p) = j /\ SubSeq(p, 1, j) = p /\ j <= Len(s)
      <4>1. SubSeq(s, 1, j) \in Seq(Item) /\ Len(SubSeq(s, 1, j)) = j /\ j <= Len(s)
        OBVIOUS
      <4>2. PICK p \in Seq(Item) : p = SubSeq(s, 1, j) /\ Len(p) = j
        BY <4>1, Zenon
      <4>3. SubSeq(p, 1, j) = p
        BY <4>2
      <4>. QED
        BY <4>1, <4>2, <4>3
    <3>7. IsPrefix(p, s)
      BY <3>6 DEF IsPrefix
    <3>. QED
      BY <3>1, <3>2, <3>3, <3>5, <3>6, <3>7
  <2>7. ASSUME npc = "io", m_oM2NQueue = <<>> PROVE Len(looked) = Len(asked)
    <3>1. done = Len(looked)
      BY <2>2, <2>7 DEF Stage
    <3>2. PICK cnt : Counts(m_oM2NQueue, asked, done, cnt)
      BY <2>2 DEF Waiting
    <3>3. Len(m_oM2NQueue) = 0
      BY <2>7
    <3>4. cnt[0] = done /\ cnt[0] = Len(asked)
      BY <3>2, <3>3 DEF Counts
    <3>. QED
      BY <3>1, <3>4
  <2>. QED
    BY <2>5, <2>6, <2>7 DEF Served
<1>. QED
  BY <1>1, TypeInit, TypeNext, NewsInit, NewsStep, ServedInit, ServedStep, PTL DEF Spec
-------------------------------------------------------------------------------
\* Closed without an event.

\* The connections closed so were told disconnected, and the main thread has asked for it.
SilentInv == \A c \in silent : told[c] = "disconnected" /\ AskedQuietly(c)

\* What the main thread has asked for it does not take back.
LEMMA StillAsked ==
    ASSUME asked \in Seq(Requests), NEW c, AskedQuietly(c),
           UNCHANGED asked \/ \E r \in Requests : asked' = Append(asked, r)
    PROVE  AskedQuietly(c)'
<1>1. PICK k \in 1 .. Len(asked) :
         asked[k].type = "CLOSE" /\ asked[k].data = "quiet" /\ c \in Range(asked[k].conns)
  BY Zenon DEF AskedQuietly
<1>2. k \in 1 .. Len(asked') /\ asked'[k] = asked[k]
  OBVIOUS
<1>. QED
  BY <1>1, <1>2, Zenon DEF AskedQuietly

\* The id in the list that EachClose closes without an event is in a request without a
\* reason.
LEMMA QuietlyAsked ==
    ASSUME TypeInv, ServedInv, Each("CLOSE"), NoReason
    PROVE  AskedQuietly(ThisConn)
<1>1. PICK done \in 0 .. Len(asked) : Waiting(m_oM2NQueue, asked, done) /\ Stage(done)
  BY DEF ServedInv
<1>2. /\ asked \in Seq(Requests) /\ memory \in [0 .. BufLen -> Cell] /\ i \in Nat /\ Len(asked) \in Nat
  BY DEF ServedInv, TypeInv, TypeOK
<1>3. npc = "each" /\ i < ConnCnt /\ Type = "CLOSE"
  BY DEF Each
<1>4. Walking(done)
  BY <1>1, <1>3 DEF Stage
<1>5. done \in 1 .. Len(asked)
  BY <1>2, <1>4 DEF Walking
<1>6. PICK r \in Requests : r = asked[done]
  BY <1>2, <1>5
<1>7. Holds(SendCells(r)) /\ ptrData = 1 + Len(r.conns)
  BY <1>3, <1>4, <1>6 DEF Walking
<1>8. /\ Type = r.type /\ ConnCnt = Len(r.conns) /\ DataLen = Length[r.data]
      /\ \A j \in 0 .. Len(r.conns) - 1 : At(1 + j) = [id |-> r.conns[j + 1]]
      /\ Cells(1 + Len(r.conns), Length[r.data]) = Data(r.data)
  BY <1>2, <1>6, <1>7, RequestFacts, HeldRequest
<1>9. WellFormed(r)
  BY <1>6, RequestFacts
<1>10. PICK n \in Nat, l \in Nat : n = Len(r.conns) /\ l = Length[r.data] /\ l > 0
  <2>1. Len(r.conns) \in Nat /\ Length[r.data] \in Nat
    BY <1>9, WellTyped, DataFacts
  <2>2. Length[r.data] > 0
    BY <1>9 DEF WellFormed
  <2>. QED
    BY <2>1, <2>2, Zenon
<1>11. ThisConn \in Range(r.conns)
  <2>1. i \in 0 .. n - 1 /\ i + 1 \in 1 .. n
    BY <1>2, <1>3, <1>8, <1>10
  <2>2. AtI = [id |-> r.conns[i + 1]]
    BY <1>8, <1>10, <2>1 DEF AtI
  <2>3. ThisConn = r.conns[i + 1]
    BY <2>2 DEF ThisConn
  <2>4. i + 1 \in DOMAIN r.conns
    BY <1>9, <1>10, <2>1, WellTyped
  <2>. QED
    BY <2>3, <2>4, Zenon DEF Range
<1>12. r.data = "quiet"
  <2>1. Data(r.data)[1] = [data |-> r.data, at |-> 1] /\ Data("quiet")[1] = [data |-> "quiet", at |-> 1]
    <3>1. 1 \in 1 .. Length[r.data] /\ 1 \in 1 .. Length["quiet"]
      BY <1>10, PipelineAssumption DEF CloseMsgs
    <3>2. r.data \in DataOf /\ "quiet" \in DataOf
      BY <1>9, WellTyped DEF DataOf, CloseMsgs
    <3>. QED
      BY <3>1, <3>2, DataFacts
  <2>2. Cells(1 + n, l)[1] = At(ptrData)
    <3>1. 1 \in 1 .. l /\ (1 + n) + 1 - 1 = 1 + n
      BY <1>10
    <3>2. ptrData = 1 + n
      BY <1>7, <1>10
    <3>. QED
      BY <3>1, <3>2 DEF Cells
  <2>3. [data |-> r.data, at |-> 1] = [data |-> "quiet", at |-> 1]
    BY <1>8, <1>10, <2>1, <2>2 DEF NoReason
  <2>4. [data |-> r.data, at |-> 1].data = r.data /\ [data |-> "quiet", at |-> 1].data = "quiet"
    OBVIOUS
  <2>. QED
    BY <2>3, <2>4
<1>. QED
  BY <1>3, <1>5, <1>6, <1>8, <1>11, <1>12, Zenon DEF AskedQuietly

LEMMA SilentNext ==
    ASSUME TypeInv, ServedInv, SilentInv, Next
    PROVE  SilentInv'
<1>1. asked \in Seq(Requests)
  BY DEF ServedInv
<1>2. told \in [Conns -> Phases \cup {"nothing"}] /\ silent \subseteq Conns
  BY DEF TypeInv, TypeOK
<1>3. UNCHANGED asked \/ \E r \in Requests : asked' = Append(asked, r)
  BY DEF Next, Main, Net, PushM2N, SendMsg, SendMsgPush, PopN2M, RecvMsgPop, RecvMsgRead,
         ConnEvent, ConnData, ConnFree, SendN2MPush, ProcM2NMsg, Leave, Take, Check,
         EachEnd, EachUnknown, EachInvalid, EachProto, EachBind, EachClose, Each, requests
<1>4. \A c \in silent : told[c] = "disconnected" /\ AskedQuietly(c)'
  BY <1>1, <1>3, StillAsked DEF SilentInv
<1>5. CASE \E c \in Conns, e \in Phases : ConnEvent(c, e)
  <2>1. PICK c \in Conns, e \in Phases : ConnEvent(c, e)
    BY <1>5
  <2>2. c \notin silent /\ silent' = silent /\ told' = [told EXCEPT ![c] = e]
    BY <2>1 DEF ConnEvent
  <2>3. \A o \in silent : told'[o] = told[o]
    BY <1>2, <2>2
  <2>. QED
    BY <1>4, <2>2, <2>3 DEF SilentInv
<1>6. CASE EachClose
  <2>1. Each("CLOSE") /\ UNCHANGED asked
    BY <1>6 DEF EachClose, Each, requests
  <2>2. CASE UNCHANGED <<told, silent>>
    BY <1>4, <2>2 DEF SilentInv
  <2>3. CASE /\ ThisConn \notin silent /\ UNCHANGED silent
             /\ told' = [told EXCEPT ![ThisConn] = "closed"]
    <3>1. \A o \in silent : told'[o] = told[o]
      BY <1>2, <2>3
    <3>. QED
      BY <1>4, <2>3, <3>1 DEF SilentInv
  <2>4. CASE /\ told[ThisConn] = "disconnected" /\ NoReason
             /\ silent' = silent \cup {ThisConn} /\ UNCHANGED told
    <3>1. PICK c : c = ThisConn
      OBVIOUS
    <3>2. AskedQuietly(c)
      BY <2>1, <2>4, <3>1, QuietlyAsked
    <3>3. AskedQuietly(c)'
      BY <1>1, <1>3, <3>2, StillAsked
    <3>4. told'[c] = "disconnected" /\ silent' = silent \cup {c}
      BY <2>4, <3>1
    <3>. QED
      BY <1>4, <2>4, <3>3, <3>4 DEF SilentInv
  <2>. QED
    BY <1>6, <2>2, <2>3, <2>4 DEF EachClose
<1>7. CASE UNCHANGED <<told, silent>>
  BY <1>4, <1>7 DEF SilentInv
<1>8. \/ \E c \in Conns, e \in Phases : ConnEvent(c, e)
      \/ EachClose
      \/ UNCHANGED <<told, silent>>
  BY DEF Next, Main, Net, PushM2N, SendMsg, SendMsgPush, PopN2M, RecvMsgPop, RecvMsgRead,
         ConnData, ConnFree, SendN2MPush, ProcM2NMsg, Leave, Take, Check,
         EachEnd, EachUnknown, EachInvalid, EachProto, EachBind, Each, conns
<1>. QED
  BY <1>5, <1>6, <1>7, <1>8

LEMMA SilentStep == TypeInv /\ ServedInv /\ SilentInv /\ [Next]_vars => SilentInv'
<1> SUFFICES ASSUME TypeInv, ServedInv, SilentInv, [Next]_vars PROVE SilentInv'
  OBVIOUS
<1>1. CASE UNCHANGED vars
  <2>1. UNCHANGED <<told, silent, asked>>
    BY <1>1, Zenon DEF vars, conns, requests
  <2>. QED
    BY <2>1 DEF SilentInv, AskedQuietly
<1>. QED
  BY <1>1, SilentNext

\* Unless the queue has refused news of the connection, or RecvMsg has dropped their
\* head, the main thread hears of it in an order that ConnEvents allows, and believes
\* what is so once it has heard all; a closed connection it takes for disconnected only
\* if it asked itself to close it without a reason (BelievesTheTruth).
THEOREM TruthTold ==
    ASSUME Turns, SingleEvents
    PROVE  Spec => []BelievesTheTruth
<1>1. TypeInv /\ NewsInv /\ ToldInv /\ OrderInv /\ SilentInv => BelievesTheTruth
  <2>1. SUFFICES ASSUME TypeInv, NewsInv, ToldInv, OrderInv, SilentInv,
                        NEW c \in Conns, c \notin lost, ~Nameless(c)
                 PROVE  /\ \A k \in 1 .. Len(heard) : IsAbout(heard[k], c) =>
                              <<Believed(c, k - 1), heard[k][2].data>> \in CE!Follows
                        /\ m_oN2MQueue = <<>> /\ npc # "push" /\ mpc # "read" =>
                              IF c \in silent
                              THEN Believed(c, Len(heard)) = "disconnected" /\ AskedQuietly(c)
                              ELSE Believed(c, Len(heard)) = told[c]
    BY Zenon DEF BelievesTheTruth
  <2>2. /\ \A k \in 1 .. Len(heard) : IsAbout(heard[k], c) =>
              <<Believed(c, k - 1), heard[k][2].data>> \in CE!Follows
        /\ m_oN2MQueue = <<>> /\ npc # "push" /\ mpc # "read" => Believed(c, Len(heard)) = told[c]
    BY <2>1, ToldBelieved
  <2>3. c \in silent => told[c] = "disconnected" /\ AskedQuietly(c)
    BY <2>1 DEF SilentInv
  <2>4. CASE c \in silent
    BY <2>2, <2>3, <2>4
  <2>5. CASE c \notin silent
    BY <2>2, <2>5
  <2>. QED
    BY <2>4, <2>5
<1>2. Init => SilentInv
  BY DEF Init, SilentInv
<1>. QED
  BY <1>1, <1>2, TypeInit, TypeNext, NewsInit, NewsStep, ToldInit, ToldStep, OrderInit, OrderStep,
     ServedInit, ServedStep, SilentStep, PTL DEF Spec
===============================================================================
