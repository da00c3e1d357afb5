------------------------------ MODULE NetConnect ------------------------------
(* The connections of a server: the life of each NetConnect and the tables of  *)
(* NetConnectMgr that find, number and free them.                              *)
(*                                                                             *)
(* Everything here runs on the one net thread, so each packet handler, each    *)
(* message of the main thread, Tick1S and Proc is one action, and they come in *)
(* any order.  A connection is an object of the heap: freed memory may be      *)
(* handed to the next connection, so a pointer left behind in a table refers   *)
(* to freed memory (undefined: a behaviour is followed to the first such use)  *)
(* or to another client's connection.                                          *)
(*                                                                             *)
(* Replies put on the send queue, message payloads, the periodic NETWORK event  *)
(* and what KCP computes are left out; of KCP there remain m_bNeedRecv, and    *)
(* that it may report a dead link or a broken sequence whenever asked.         *)
EXTENDS Integers, FiniteSets

CONSTANTS
    Objs,               \* the heap's places for NetConnect objects
    NoObj,              \* nullptr, or no entry
    Addrs,              \* client addresses
    MaxID,              \* connection ids are 0..MaxID (uint32_t)
    FirstID,            \* m_ulCurID to start from (1 after NetConnectMgr::Init)
    Roams,              \* the pairs <<from, to>> of addresses clients move along
    MainReasons,        \* the reasons the main thread closes with
    ReliableData,       \* whether peers send reliable (KCP) packets
    HEARTBEAT_TIMEOUT, RECONNECT_TIMEOUT, FIN_WAIT_SECONDS, TIME_WAIT_SECONDS,
    BIND_TIMEOUT, CONN_STATE_INTERVAL,
    MAX_CONN_RECV_NUM

ASSUME NetAssumption ==
    /\ NoObj \notin Objs
    /\ Addrs # {}
    /\ MaxID \in Nat \ {0}
    /\ FirstID \in 0 .. MaxID
    /\ Roams \subseteq Addrs \X Addrs
    /\ ReliableData \in BOOLEAN
    /\ {HEARTBEAT_TIMEOUT, RECONNECT_TIMEOUT, FIN_WAIT_SECONDS, TIME_WAIT_SECONDS,
        BIND_TIMEOUT, CONN_STATE_INTERVAL, MAX_CONN_RECV_NUM} \subseteq Nat \ {0}

VARIABLES
    live,               \* objects allocated and not deleted
    m_eState,           \* EnmNetConnState
    m_ulConnID,
    m_stClientAddr,
    m_ullBindData,      \* whether it is not 0
    m_bNeedRecv,        \* KcpWrapper: there is input to read
    age,                \* seconds since the timestamp this state's timeout counts from
    born,               \* seconds since m_tCreateTime
    window,             \* seconds since m_sStatData.tRefreshTime
    ulRecvCnt,          \* m_sStatData.ulRecvCnt (ulRecvSize grows with it and has
                        \* the same test and the same fate: one stands for both)
    m_uiCloseReason,
    told,               \* history: what the last event sent to the main thread said
    m_mapConn,          \* address -> object
    m_mapClosedConn,    \* id -> object waiting to be freed
    m_setExistID,
    m_ulCurID,
    net                 \* what became of the net thread

timeVars == <<age, born, window>>
objVars == <<live, m_eState, m_ulConnID, m_stClientAddr, m_ullBindData, m_bNeedRecv,
             timeVars, ulRecvCnt, m_uiCloseReason, told>>
mgrVars == <<m_mapConn, m_mapClosedConn, m_setExistID, m_ulCurID>>
vars == <<objVars, mgrVars, net>>

IDs == 0 .. MaxID

States == {"ESTABLISHED", "DISCONNET", "FIN_WAIT1", "FIN_WAIT2", "TIME_WAIT", "CLOSE"}

Reasons == {"NONE", "CLIENT_FIN", "DISCONNET_TIMEOUT", "FIN_TIMEOUT", "BIND_TIMEOUT",
            "FLOW_CONTROL"} \union MainReasons

\* The timeout Tick1S checks in a state.
Timeout(state) ==
    CASE state = "ESTABLISHED" -> HEARTBEAT_TIMEOUT
      [] state = "DISCONNET" -> RECONNECT_TIMEOUT
      [] state \in {"FIN_WAIT1", "FIN_WAIT2"} -> FIN_WAIT_SECONDS
      [] state = "TIME_WAIT" -> TIME_WAIT_SECONDS
      [] OTHER -> 0

\* x + 1, not counted past limit: no guard tells larger values apart.
Count(x, limit) == IF x < limit THEN x + 1 ELSE x
-------------------------------------------------------------------------------
(* Connection ids. *)

\* Mutant: the increment does not wrap.
ProbeUnwrapped(k) == m_ulCurID + k

\* AllocID probes MaxID of the MaxID + 1 ids, from m_ulCurID on; the increment
\* wraps as uint32_t does.
Probe(k) == (m_ulCurID + k) % (MaxID + 1)

\* Mutant: m_setExistID is not asked.
AllocatesNext(k) == k = 0

\* It settles on the first probe that is not in use ...
Allocates(k) == /\ Probe(k) \notin m_setExistID
                /\ \A j \in 0 .. k - 1 : Probe(j) \in m_setExistID

\* ... or gives up when all are.
AllocFails == \A k \in 0 .. MaxID - 1 : Probe(k) \in m_setExistID
-------------------------------------------------------------------------------
(* Finding connections. *)

\* The objects that iterations over m_mapConn reach, and those of them that have
\* been deleted.
Visited == {m_mapConn[a] : a \in Addrs} \ {NoObj}

Dangling == Visited \ live

\* GetConnByID scans m_mapConn in no particular order, so that it may find the
\* match before or after it touches a deleted object.
GetConnByID(i) == {o \in Visited \intersect live : m_ulConnID[o] = i}

\* Some handler dereferences a deleted object it found in m_mapConn.
UseDangling ==
    /\ net = "running"
    /\ Dangling # {}
    /\ net' = "used deleted object"
    /\ UNCHANGED <<objVars, mgrVars>>
-------------------------------------------------------------------------------
(* What the handlers do to a connection, or to each connection of a set. *)

\* NotifyConnEvent(CLOSE): said for the first time, or once more.
ToldClose(o) == IF told[o] = "closed" THEN "closed twice" ELSE "closed"

\* Mutant: the closed connections are not filed in m_mapClosedConn.
LoseAndForget(L, S, why) ==
    /\ m_eState' = [o \in Objs |-> IF o \in S THEN "CLOSE"
                                   ELSE IF o \in L THEN "DISCONNET" ELSE m_eState[o]]
    /\ m_bNeedRecv' = [o \in Objs |-> m_bNeedRecv[o] /\ o \notin S]
    /\ m_uiCloseReason' = [o \in Objs |-> IF o \in S THEN why[o] ELSE m_uiCloseReason[o]]
    /\ told' = [o \in Objs |-> IF o \in S /\ why[o] # "NONE" THEN ToldClose(o)
                               ELSE IF o \in L THEN "disconnected" ELSE told[o]]
    /\ age' = [o \in Objs |-> IF o \in L \union S THEN 0 ELSE age[o]]
    /\ UNCHANGED m_mapClosedConn

\* DisConnect of every o in L, all of them ESTABLISHED, and CloseConnect(why[o]) of
\* every o in S, none of them closed before.
LoseAndClose(L, S, why) ==
    /\ m_eState' = [o \in Objs |-> IF o \in S THEN "CLOSE"
                                   ELSE IF o \in L THEN "DISCONNET" ELSE m_eState[o]]
    /\ m_bNeedRecv' = [o \in Objs |-> m_bNeedRecv[o] /\ o \notin S]
    /\ m_uiCloseReason' = [o \in Objs |-> IF o \in S THEN why[o] ELSE m_uiCloseReason[o]]
    /\ told' = [o \in Objs |-> IF o \in S /\ why[o] # "NONE" THEN ToldClose(o)
                               ELSE IF o \in L THEN "disconnected" ELSE told[o]]
    /\ age' = [o \in Objs |-> IF o \in L \union S THEN 0 ELSE age[o]]
    /\ m_mapClosedConn' = [i \in IDs |-> IF \E o \in S : m_ulConnID[o] = i
                                         THEN CHOOSE o \in S : m_ulConnID[o] = i
                                         ELSE m_mapClosedConn[i]]

CloseConnect(c, reason) == LoseAndClose({}, {c}, [o \in Objs |-> reason])

\* DisConnect of every o in S, all of them ESTABLISHED.
DisConnect(S) ==
    /\ m_eState' = [o \in Objs |-> IF o \in S THEN "DISCONNET" ELSE m_eState[o]]
    /\ age' = [o \in Objs |-> IF o \in S THEN 0 ELSE age[o]]
    /\ told' = [o \in Objs |-> IF o \in S THEN "disconnected" ELSE told[o]]

\* Stands for the zeroed address of a deleted object.
SomeAddr == CHOOSE a \in Addrs : TRUE

\* Mutant: InitConnect does not keep the client's address.
NewConnNoAddr(o, id, a) ==
    /\ live' = live \union {o}
    /\ m_eState' = [m_eState EXCEPT ![o] = "ESTABLISHED"]
    /\ m_ulConnID' = [m_ulConnID EXCEPT ![o] = id]
    /\ told' = [told EXCEPT ![o] = "connected"]
    /\ m_mapConn' = [m_mapConn EXCEPT ![a] = o]
    /\ UNCHANGED <<m_stClientAddr, m_ullBindData, m_bNeedRecv, timeVars, ulRecvCnt, m_uiCloseReason>>

\* The object o after CreateNewConn, InitConnect and SetConnAddr, and the CONNECT
\* event its creator sends.  The fields not named here are as the constructor
\* leaves them.
NewConn(o, id, a) ==
    /\ live' = live \union {o}
    /\ m_eState' = [m_eState EXCEPT ![o] = "ESTABLISHED"]
    /\ m_ulConnID' = [m_ulConnID EXCEPT ![o] = id]
    /\ m_stClientAddr' = [m_stClientAddr EXCEPT ![o] = a]
    /\ told' = [told EXCEPT ![o] = "connected"]
    /\ m_mapConn' = [m_mapConn EXCEPT ![a] = o]
    /\ UNCHANGED <<m_ullBindData, m_bNeedRecv, timeVars, ulRecvCnt, m_uiCloseReason>>
-------------------------------------------------------------------------------
(* Packets. *)

\* HandleHandShake2 that passes its checks, from an address with no connection.
\* CreateNewConn fails when no id is free; when the object cannot be initialised
\* (id 0, or a key of the wrong length) the id stays taken.
HandleHandShake2(a) ==
    /\ net = "running" /\ net' = net
    /\ m_mapConn[a] = NoObj
    /\ \/ /\ AllocFails
          /\ m_ulCurID' = Probe(MaxID - 1)
          /\ UNCHANGED <<objVars, m_mapConn, m_mapClosedConn, m_setExistID>>
       \/ \E k \in 0 .. MaxID - 1 :
            /\ Allocates(k)
            /\ m_ulCurID' = Probe(k)
            /\ m_setExistID' = m_setExistID \union {Probe(k)}
            /\ m_mapClosedConn' = m_mapClosedConn
            /\ \/ UNCHANGED <<objVars, m_mapConn>>
               \/ /\ Probe(k) # 0
                  /\ \E o \in Objs \ live : NewConn(o, Probe(k), a)

\* Mutant: the address is not checked for a connection of its own.
HandleReconnectOver(a, i) ==
    /\ net = "running" /\ net' = net
    /\ \E c \in GetConnByID(i) :
         /\ <<m_stClientAddr[c], a>> \in Roams
         /\ m_eState[c] \in {"DISCONNET", "ESTABLISHED"}
         /\ m_eState' = [m_eState EXCEPT ![c] = "ESTABLISHED"]
         /\ m_stClientAddr' = [m_stClientAddr EXCEPT ![c] = a]
         /\ age' = [age EXCEPT ![c] = 0]
         /\ told' = [told EXCEPT ![c] = "connected"]
         /\ m_mapConn' = [m_mapConn EXCEPT ![a] = c]
    /\ UNCHANGED <<live, m_ulConnID, m_ullBindData, m_bNeedRecv, born, window, ulRecvCnt,
                   m_uiCloseReason, m_mapClosedConn, m_setExistID, m_ulCurID>>

\* HandleReconnect from an address with no connection, with the cookie of the
\* connection c it names.  SetConnAddr is handed a reference to c's own address,
\* so the entry it erases is the new one.
HandleReconnect(a, i) ==
    /\ net = "running" /\ net' = net
    /\ m_mapConn[a] = NoObj
    /\ \E c \in GetConnByID(i) :
         /\ <<m_stClientAddr[c], a>> \in Roams
         /\ m_eState[c] \in {"DISCONNET", "ESTABLISHED"}
         /\ m_eState' = [m_eState EXCEPT ![c] = "ESTABLISHED"]
         /\ m_stClientAddr' = [m_stClientAddr EXCEPT ![c] = a]
         /\ age' = [age EXCEPT ![c] = 0]
         /\ told' = [told EXCEPT ![c] = "connected"]
         /\ m_mapConn' = [m_mapConn EXCEPT ![a] = c]
    /\ UNCHANGED <<live, m_ulConnID, m_ullBindData, m_bNeedRecv, born, window, ulRecvCnt,
                   m_uiCloseReason, m_mapClosedConn, m_setExistID, m_ulCurID>>

\* HandleNetData of a packet from address a for a connection that is broken:
\* answered with RST, and the KCP state is dropped.
RecvWhileDisconnected(a) ==
    /\ net = "running"
    /\ m_mapConn[a] \in live
    /\ m_eState[m_mapConn[a]] = "DISCONNET"
    /\ m_bNeedRecv' = [m_bNeedRecv EXCEPT ![m_mapConn[a]] = FALSE]
    /\ UNCHANGED <<live, m_eState, m_ulConnID, m_stClientAddr, m_ullBindData, timeVars,
                   ulRecvCnt, m_uiCloseReason, told, mgrVars, net>>

\* HandleNetData of a packet that c's HandleNetMsg lets through and counts.
Receives(a, c) ==
    /\ net = "running" /\ net' = net
    /\ m_mapConn[a] = c
    /\ c \in live
    /\ m_eState[c] \notin {"DISCONNET", "CLOSE"}
    /\ ulRecvCnt' = [ulRecvCnt EXCEPT ![c] = Count(@, MAX_CONN_RECV_NUM + 1)]

\* Unreliable data, or a packet whose handler rejects it: it is only counted.
RecvUnreliable(a) ==
    \E c \in Objs :
      /\ Receives(a, c)
      /\ UNCHANGED <<live, m_eState, m_ulConnID, m_stClientAddr, m_ullBindData,
                     m_bNeedRecv, timeVars, m_uiCloseReason, told, mgrVars>>

\* Reliable data goes to KCP, which may find its sequence numbers broken.
RecvReliable(a) ==
    \E c \in Objs :
      /\ ReliableData
      /\ Receives(a, c)
      /\ \/ /\ m_bNeedRecv' = [m_bNeedRecv EXCEPT ![c] = TRUE]
            /\ UNCHANGED <<m_eState, age, told>>
         \/ /\ m_bNeedRecv' = [m_bNeedRecv EXCEPT ![c] = FALSE]
            /\ DisConnect({c} \intersect {o \in Objs : m_eState[o] = "ESTABLISHED"})
      /\ UNCHANGED <<live, m_ulConnID, m_stClientAddr, m_ullBindData, born, window,
                     m_uiCloseReason, mgrVars>>

\* HandleHeartBeat.  m_tLastHeartBeat matters only while ESTABLISHED.
HandleHeartBeat(a, i) ==
    \E c \in Objs :
      /\ Receives(a, c)
      /\ i = m_ulConnID[c]
      /\ age' = [age EXCEPT ![c] = IF m_eState[c] = "ESTABLISHED" THEN 0 ELSE @]
      /\ UNCHANGED <<live, m_eState, m_ulConnID, m_stClientAddr, m_ullBindData, m_bNeedRecv,
                     born, window, m_uiCloseReason, told, mgrVars>>

\* The client closes.
RecvClose(a, i) ==
    \E c \in Objs :
      /\ Receives(a, c)
      /\ i = m_ulConnID[c]
      /\ CloseConnect(c, "CLIENT_FIN")
      /\ UNCHANGED <<live, m_ulConnID, m_stClientAddr, m_ullBindData, born, window,
                     m_mapConn, m_setExistID, m_ulCurID>>

\* The client answers the server's FIN: first with FIN_ACK ...
RecvFinAck(a) ==
    \E c \in Objs :
      /\ Receives(a, c)
      /\ m_eState[c] = "FIN_WAIT1"
      /\ m_eState' = [m_eState EXCEPT ![c] = "FIN_WAIT2"]
      /\ UNCHANGED <<live, m_ulConnID, m_stClientAddr, m_ullBindData, m_bNeedRecv,
                     timeVars, m_uiCloseReason, told, mgrVars>>

\* Mutant: a repeated FIN is announced again.
HandleFinAgain(a, i) ==
    \E c \in Objs :
      /\ Receives(a, c)
      /\ m_eState[c] \in {"FIN_WAIT2", "TIME_WAIT"}
      /\ i = m_ulConnID[c]
      /\ m_eState' = [m_eState EXCEPT ![c] = "TIME_WAIT"]
      /\ age' = [age EXCEPT ![c] = 0]
      /\ told' = [told EXCEPT ![c] = ToldClose(c)]
      /\ UNCHANGED <<live, m_ulConnID, m_stClientAddr, m_ullBindData, m_bNeedRecv, born,
                     window, m_uiCloseReason, mgrVars>>

\* ... then with its own FIN (a repeated one is only counted and answered).
HandleFin(a, i) ==
    \E c \in Objs :
      /\ Receives(a, c)
      /\ m_eState[c] = "FIN_WAIT2"
      /\ i = m_ulConnID[c]
      /\ m_eState' = [m_eState EXCEPT ![c] = "TIME_WAIT"]
      /\ age' = [age EXCEPT ![c] = 0]
      /\ told' = [told EXCEPT ![c] = ToldClose(c)]
      /\ UNCHANGED <<live, m_ulConnID, m_stClientAddr, m_ullBindData, m_bNeedRecv, born,
                     window, m_uiCloseReason, mgrVars>>
-------------------------------------------------------------------------------
(* Messages of the main thread (ProcM2NMsg). *)

\* ENM_CONN_MSG_TYPE_BIND; BindConnect asks for no particular state.
BindConnect(i) ==
    /\ net = "running"
    /\ \E c \in GetConnByID(i) :
         /\ ~m_ullBindData[c]
         /\ m_ullBindData' = [m_ullBindData EXCEPT ![c] = TRUE]
    /\ UNCHANGED <<live, m_eState, m_ulConnID, m_stClientAddr, m_bNeedRecv, timeVars,
                   ulRecvCnt, m_uiCloseReason, told, mgrVars, net>>

\* Mutant: a broken connection goes through the FIN exchange too.
FinConnectAny(i, reason) ==
    /\ net = "running"
    /\ \E c \in GetConnByID(i) :
         /\ m_eState[c] \in {"DISCONNET", "ESTABLISHED"}
         /\ m_eState' = [m_eState EXCEPT ![c] = "FIN_WAIT1"]
         /\ m_uiCloseReason' = [m_uiCloseReason EXCEPT ![c] = reason]
         /\ age' = [age EXCEPT ![c] = 0]
    /\ UNCHANGED <<live, m_ulConnID, m_stClientAddr, m_ullBindData, m_bNeedRecv, told, born,
                   window, ulRecvCnt, m_mapConn, m_mapClosedConn, m_setExistID, m_ulCurID, net>>

\* ENM_CONN_MSG_TYPE_CLOSE; FinConnect closes a broken connection at once and
\* lets an active one finish sending first.
FinConnect(i, reason) ==
    /\ net = "running"
    /\ \E c \in GetConnByID(i) :
         \/ /\ m_eState[c] = "DISCONNET"
            /\ CloseConnect(c, reason)
         \/ /\ m_eState[c] = "ESTABLISHED"
            /\ m_eState' = [m_eState EXCEPT ![c] = "FIN_WAIT1"]
            /\ m_uiCloseReason' = [m_uiCloseReason EXCEPT ![c] = reason]
            /\ age' = [age EXCEPT ![c] = 0]
            /\ UNCHANGED <<m_bNeedRecv, told, m_mapClosedConn>>
    /\ UNCHANGED <<live, m_ulConnID, m_stClientAddr, m_ullBindData, born, window, ulRecvCnt,
                   m_mapConn, m_setExistID, m_ulCurID, net>>
-------------------------------------------------------------------------------
(* Time. *)

\* A second goes by.
Second ==
    /\ net = "running"
    /\ age' = [o \in Objs |-> IF o \in live THEN Count(age[o], Timeout(m_eState[o])) ELSE age[o]]
    /\ born' = [o \in Objs |-> IF o \in live THEN Count(born[o], BIND_TIMEOUT) ELSE born[o]]
    /\ window' = [o \in Objs |-> IF o \in live THEN Count(window[o], CONN_STATE_INTERVAL)
                                 ELSE window[o]]
    /\ UNCHANGED <<live, m_eState, m_ulConnID, m_stClientAddr, m_ullBindData, m_bNeedRecv,
                   ulRecvCnt, m_uiCloseReason, told, mgrVars, net>>

TimedOut(o) == age[o] >= Timeout(m_eState[o])

\* Mutant: no timeout in TIME_WAIT.
StateTimeoutNoWait(o) == m_eState[o] \in {"DISCONNET", "FIN_WAIT1", "FIN_WAIT2"} /\ TimedOut(o)

\* The checks of NetConnect::Tick1S that close a connection, in their order: the
\* first that applies gives the reason.
StateTimeout(o) == m_eState[o] \in {"DISCONNET", "FIN_WAIT1", "FIN_WAIT2", "TIME_WAIT"}
                   /\ TimedOut(o)
BindTimeout(o) == ~m_ullBindData[o] /\ born[o] >= BIND_TIMEOUT
FlowControl(o) == window[o] >= CONN_STATE_INTERVAL /\ ulRecvCnt[o] > MAX_CONN_RECV_NUM

\* Mutant: the case of ESTABLISHED returns before the later checks.
TickClosesReturn == {o \in Visited : /\ m_eState[o] \notin {"CLOSE", "ESTABLISHED"}
                                     /\ StateTimeout(o) \/ BindTimeout(o) \/ FlowControl(o)}

TickCloses == {o \in Visited : /\ m_eState[o] # "CLOSE"
                               /\ StateTimeout(o) \/ BindTimeout(o) \/ FlowControl(o)}

TickReason == [o \in Objs |-> CASE m_eState[o] = "DISCONNET" /\ TimedOut(o) -> "DISCONNET_TIMEOUT"
                                [] m_eState[o] = "TIME_WAIT" /\ TimedOut(o) -> "NONE"
                                [] m_eState[o] \in {"FIN_WAIT1", "FIN_WAIT2"} /\ TimedOut(o)
                                     -> "FIN_TIMEOUT"
                                [] ~StateTimeout(o) /\ BindTimeout(o) -> "BIND_TIMEOUT"
                                [] OTHER -> "FLOW_CONTROL"]

\* Connections whose heartbeats stopped, and that no later check of the same tick
\* closes (one that does overrides the DISCONNECT with a CLOSE).
HeartbeatLost == {o \in Visited \ TickCloses : m_eState[o] = "ESTABLISHED" /\ TimedOut(o)}

Tick1S ==
    /\ net = "running"
    /\ Dangling = {}
    /\ LoseAndClose(HeartbeatLost, TickCloses, TickReason)
    /\ window' = [o \in Objs |-> IF o \in Visited /\ window[o] >= CONN_STATE_INTERVAL
                                 THEN 0 ELSE window[o]]
    /\ UNCHANGED <<live, m_ulConnID, m_stClientAddr, m_ullBindData, born, ulRecvCnt,
                   m_mapConn, m_setExistID, m_ulCurID, net>>
-------------------------------------------------------------------------------
(* NetConnectMgr::Proc. *)

\* Connections whose NetConnect::Proc goes past its first check.
Active == {o \in Visited : m_eState[o] \in {"ESTABLISHED", "FIN_WAIT1", "FIN_WAIT2"}}

\* RecvMsgFromKcp keeps the size it peeks in a size_t: -1, "no more messages",
\* passes for an oversized message, and the loop never ends.
ProcSpins ==
    /\ net = "running"
    /\ \E o \in Active : m_bNeedRecv[o]
    /\ net' = "spinning"
    /\ UNCHANGED <<objVars, mgrVars>>

\* The objects ProcClosedConn deletes.
Freed == {m_mapClosedConn[i] : i \in IDs} \ {NoObj}

\* Mutant: the index is erased under no address.
WithoutFreedKept == m_mapConn

\* m_mapConn without the entries under the addresses of the deleted objects.
WithoutFreed == [a \in Addrs |-> IF \E o \in Freed : m_stClientAddr[o] = a THEN NoObj
                                 ELSE m_mapConn[a]]

\* KCP reports dead links for the connections in Dead; then ProcClosedConn deletes
\* the closed ones, and the entries of the address and the id each had.  What a
\* deleted object holds is never read: its fields are put back to zero.
Proc ==
    /\ net = "running" /\ net' = net
    /\ Dangling = {}
    /\ \A o \in Active : ~m_bNeedRecv[o]
    /\ \E Dead \in SUBSET {o \in Visited : m_eState[o] = "ESTABLISHED"} :
         /\ m_eState' = [o \in Objs |-> IF o \in Dead THEN "DISCONNET" ELSE m_eState[o]]
         /\ told' = [o \in Objs |-> IF o \in Freed THEN "nothing"
                                    ELSE IF o \in Dead THEN "disconnected" ELSE told[o]]
         /\ age' = [o \in Objs |-> IF o \in Dead \union Freed THEN 0 ELSE age[o]]
    /\ live' = live \ Freed
    /\ m_mapConn' = WithoutFreed
    /\ m_mapClosedConn' = [i \in IDs |-> NoObj]
    /\ m_setExistID' = m_setExistID \ {m_ulConnID[o] : o \in Freed}
    /\ m_ulConnID' = [o \in Objs |-> IF o \in Freed THEN 0 ELSE m_ulConnID[o]]
    /\ m_stClientAddr' = [o \in Objs |-> IF o \in Freed THEN SomeAddr ELSE m_stClientAddr[o]]
    /\ m_ullBindData' = [o \in Objs |-> m_ullBindData[o] /\ o \notin Freed]
    /\ m_bNeedRecv' = [o \in Objs |-> m_bNeedRecv[o] /\ o \notin Freed]
    /\ born' = [o \in Objs |-> IF o \in Freed THEN 0 ELSE born[o]]
    /\ window' = [o \in Objs |-> IF o \in Freed THEN 0 ELSE window[o]]
    /\ ulRecvCnt' = [o \in Objs |-> IF o \in Freed THEN 0 ELSE ulRecvCnt[o]]
    /\ m_uiCloseReason' = [o \in Objs |-> IF o \in Freed THEN "NONE" ELSE m_uiCloseReason[o]]
    /\ UNCHANGED m_ulCurID

\* After undefined behaviour, or in an endless loop, nothing more is claimed.
Stopped == net # "running" /\ UNCHANGED vars
-------------------------------------------------------------------------------
Init ==
    /\ live = {}
    /\ m_eState = [o \in Objs |-> "CLOSE"]
    /\ m_ulConnID = [o \in Objs |-> 0]
    /\ m_stClientAddr = [o \in Objs |-> SomeAddr]
    /\ m_ullBindData = [o \in Objs |-> FALSE]
    /\ m_bNeedRecv = [o \in Objs |-> FALSE]
    /\ age = [o \in Objs |-> 0]
    /\ born = [o \in Objs |-> 0]
    /\ window = [o \in Objs |-> 0]
    /\ ulRecvCnt = [o \in Objs |-> 0]
    /\ m_uiCloseReason = [o \in Objs |-> "NONE"]
    /\ told = [o \in Objs |-> "nothing"]
    /\ m_mapConn = [a \in Addrs |-> NoObj]
    /\ m_mapClosedConn = [i \in IDs |-> NoObj]
    /\ m_setExistID = {}
    /\ m_ulCurID = FirstID
    /\ net = "running"

Packet(a) ==
    \/ HandleHandShake2(a)
    \/ \E i \in IDs : HandleReconnect(a, i)
    \/ RecvWhileDisconnected(a)
    \/ RecvUnreliable(a)
    \/ RecvReliable(a)
    \/ \E i \in IDs : HandleHeartBeat(a, i)
    \/ \E i \in IDs : RecvClose(a, i)
    \/ RecvFinAck(a)
    \/ \E i \in IDs : HandleFin(a, i)

MainMsg(i) ==
    \/ BindConnect(i)
    \/ \E reason \in MainReasons \union {"NONE"} : FinConnect(i, reason)

Next ==
    \/ \E a \in Addrs : Packet(a)
    \/ \E i \in IDs : MainMsg(i)
    \/ Second
    \/ Tick1S
    \/ Proc
    \/ ProcSpins
    \/ UseDangling
    \/ Stopped

Spec == Init /\ [][Next]_vars

\* NetThread keeps calling Proc and Tick1S, and time goes by; nothing obliges a
\* client or the main thread to send anything, nor KCP to report a dead link.
Fairness == WF_vars(Second) /\ WF_vars(Tick1S) /\ WF_vars(Proc /\ Freed # {})

FairSpec == Spec /\ Fairness
-------------------------------------------------------------------------------
TypeOK ==
    /\ live \subseteq Objs
    /\ m_eState \in [Objs -> States]
    /\ m_ulConnID \in [Objs -> IDs]
    /\ m_stClientAddr \in [Objs -> Addrs]
    /\ m_ullBindData \in [Objs -> BOOLEAN]
    /\ m_bNeedRecv \in [Objs -> BOOLEAN]
    /\ age \in [Objs -> Nat]
    /\ born \in [Objs -> Nat]
    /\ window \in [Objs -> Nat]
    /\ ulRecvCnt \in [Objs -> Nat]
    /\ m_uiCloseReason \in [Objs -> Reasons]
    /\ told \in [Objs -> {"nothing", "connected", "disconnected", "closed", "closed twice"}]
    /\ m_mapConn \in [Addrs -> Objs \union {NoObj}]
    /\ m_mapClosedConn \in [IDs -> Objs \union {NoObj}]
    /\ m_setExistID \subseteq IDs
    /\ m_ulCurID \in IDs
    /\ net \in {"running", "spinning", "used deleted object"}

\* No two connections that exist have the same id, and AllocID knows each of them
\* as taken, whatever was closed, freed, refused or wrapped around before.
IdsUnique ==
    /\ \A o \in live : m_ulConnID[o] \in m_setExistID
    /\ \A o, p \in live : m_ulConnID[o] = m_ulConnID[p] => o = p

\* The objects waiting in m_mapClosedConn are exactly the closed connections, each
\* under its own id: ProcClosedConn deletes none twice and forgets none.
ClosedExact ==
    \A i \in IDs, o \in Objs :
        m_mapClosedConn[i] = o <=> o \in live /\ m_eState[o] = "CLOSE" /\ m_ulConnID[o] = i

\* A connection is found under the address it would answer to, so that two clients
\* never share one and every one is visited by Tick1S and Proc.
ReachedByAddr == \A o \in live : m_mapConn[m_stClientAddr[o]] = o

\* The main thread's last news of a connection agrees with its state; only a
\* close it asked for itself, of a broken connection and without a reason, ends in
\* silence.
ToldTheTruth ==
    \A o \in live :
        /\ m_eState[o] \in {"ESTABLISHED", "FIN_WAIT1", "FIN_WAIT2"} => told[o] = "connected"
        /\ m_eState[o] = "DISCONNET" => told[o] = "disconnected"
        /\ m_eState[o] = "TIME_WAIT" => told[o] = "closed"
        /\ m_eState[o] = "CLOSE" => \/ told[o] \in {"closed", "closed twice"}
                                    \/ told[o] = "disconnected" /\ m_uiCloseReason[o] = "NONE"

\* Memory that holds no connection has announced nothing.
FreeSilent == \A o \in Objs \ live : told[o] = "nothing"

Events == INSTANCE ConnEvents

\* The events of each connection come in the order ConnEvents allows, whatever
\* packets, messages of the main thread, timeouts and KCP failures cross.
EventsInOrder == Events!Spec

\* m_mapConn has no entry but that of each connection's own address (the comment in
\* SetConnAddr: the old index is deleted).
IndexExact ==
    \A a \in Addrs : m_mapConn[a] # NoObj =>
        m_mapConn[a] \in live /\ m_stClientAddr[m_mapConn[a]] = a

\* No handler touches a deleted object.
NoUseAfterDelete == net # "used deleted object"

\* A connection that leaves ESTABLISHED for good, by a timeout, a FIN or a close,
\* is freed in bounded time, whatever the peers do or fail to do.
EndsFreed ==
    \A o \in Objs : (o \in live /\ m_eState[o] # "ESTABLISHED") ~> (o \notin live)

\* A connection the main thread never binds does not stay, even if its client keeps
\* sending heartbeats.
UnboundFreed ==
    \A o \in Objs : (o \in live /\ ~m_ullBindData[o]) ~> (o \notin live \/ m_ullBindData[o])
===============================================================================
