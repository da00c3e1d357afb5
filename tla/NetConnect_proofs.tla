--------------------------- MODULE NetConnect_proofs ---------------------------
(* What holds of the connections and their tables for every number of objects,  *)
(* addresses and ids, every timeout, and whether or not clients change address. *)
EXTENDS NetConnect, TLAPS

-------------------------------------------------------------------------------
(* Type correctness. *)

LEMMA SomeAddrType == SomeAddr \in Addrs
  BY NetAssumption DEF SomeAddr

LEMMA CountType ==
    ASSUME NEW x \in Nat, NEW limit
    PROVE  Count(x, limit) \in Nat
  BY DEF Count

LEMMA ProbeType ==
    ASSUME TypeOK, NEW k \in Nat
    PROVE  Probe(k) \in IDs
  <1>0. m_ulCurID \in IDs
    BY DEF TypeOK
  <1>1. m_ulCurID + k \in Int
    BY <1>0, NetAssumption DEF IDs
  <1>2. MaxID + 1 \in Nat \ {0}
    BY NetAssumption
  <1>3. ASSUME NEW x \in Int, NEW n \in Nat \ {0}  PROVE x % n \in 0 .. n - 1
    OBVIOUS
  <1>4. (m_ulCurID + k) % (MaxID + 1) \in 0 .. (MaxID + 1) - 1
    BY <1>1, <1>2, <1>3
  <1> QED
    BY <1>4, NetAssumption DEF Probe, IDs

LEMMA ToldCloseType ==
    ASSUME NEW o
    PROVE  ToldClose(o) \in {"closed", "closed twice"}
  BY DEF ToldClose

LEMMA VisitedType ==
    ASSUME TypeOK
    PROVE  Visited \subseteq Objs
  <1>1. \A a \in Addrs : m_mapConn[a] \in Objs \union {NoObj}
    BY DEF TypeOK
  <1> QED
    BY <1>1 DEF Visited

LEMMA FreedType ==
    ASSUME TypeOK
    PROVE  Freed \subseteq Objs
  <1>1. \A i \in IDs : m_mapClosedConn[i] \in Objs \union {NoObj}
    BY DEF TypeOK
  <1> QED
    BY <1>1 DEF Freed

\* Closing and breaking sets of connections keeps the types.
LEMMA LoseAndCloseType ==
    ASSUME TypeOK, NEW L, NEW S \in SUBSET Objs, NEW why \in [Objs -> Reasons],
           LoseAndClose(L, S, why)
    PROVE  /\ m_eState' \in [Objs -> States]
           /\ m_bNeedRecv' \in [Objs -> BOOLEAN]
           /\ m_uiCloseReason' \in [Objs -> Reasons]
           /\ told' \in [Objs -> {"nothing", "connected", "disconnected", "closed",
                                  "closed twice"}]
           /\ age' \in [Objs -> Nat]
           /\ m_mapClosedConn' \in [IDs -> Objs \union {NoObj}]
  <1>1. m_eState' \in [Objs -> States]
    BY DEF LoseAndClose, TypeOK, States
  <1>2. m_bNeedRecv' \in [Objs -> BOOLEAN]
    BY DEF LoseAndClose, TypeOK
  <1>3. m_uiCloseReason' \in [Objs -> Reasons]
    BY DEF LoseAndClose, TypeOK
  <1>4. told' \in [Objs -> {"nothing", "connected", "disconnected", "closed", "closed twice"}]
    BY ToldCloseType DEF LoseAndClose, TypeOK
  <1>5. age' \in [Objs -> Nat]
    BY DEF LoseAndClose, TypeOK
  <1>6. m_mapClosedConn' \in [IDs -> Objs \union {NoObj}]
    <2>1. ASSUME NEW i \in IDs, \E o \in S : m_ulConnID[o] = i
          PROVE  (CHOOSE o \in S : m_ulConnID[o] = i) \in Objs
      BY <2>1
    <2> QED
      BY <2>1 DEF LoseAndClose, TypeOK
  <1> QED
    BY <1>1, <1>2, <1>3, <1>4, <1>5, <1>6

LEMMA TickReasonType ==
    ASSUME TypeOK
    PROVE  TickReason \in [Objs -> Reasons]
  BY DEF TickReason, Reasons

LEMMA InitType == Init => TypeOK
  BY NetAssumption, SomeAddrType DEF Init, TypeOK, States, Reasons, IDs

\* Every step keeps the types.
LEMMA TypeStep == TypeOK /\ [Next]_vars => TypeOK'
  <1> SUFFICES ASSUME TypeOK, [Next]_vars
               PROVE  TypeOK'
    OBVIOUS
  <1>1. ASSUME NEW a \in Addrs, HandleHandShake2(a)
        PROVE  TypeOK'
    <2>1. CASE AllocFails /\ m_ulCurID' = Probe(MaxID - 1)
               /\ UNCHANGED <<objVars, m_mapConn, m_mapClosedConn, m_setExistID>>
      <3>1. m_ulCurID' \in IDs
        BY <2>1, ProbeType, NetAssumption
      <3> QED
        BY <1>1, <2>1, <3>1 DEF TypeOK, HandleHandShake2, objVars, timeVars
    <2>2. ASSUME NEW k \in 0 .. MaxID - 1,
                 m_ulCurID' = Probe(k),
                 m_setExistID' = m_setExistID \union {Probe(k)},
                 m_mapClosedConn' = m_mapClosedConn
          PROVE  /\ m_ulCurID' \in IDs
                 /\ m_setExistID' \subseteq IDs
                 /\ m_mapClosedConn' \in [IDs -> Objs \union {NoObj}]
      <3>1. Probe(k) \in IDs
        BY ProbeType, NetAssumption
      <3> QED
        BY <2>2, <3>1 DEF TypeOK
    <2>3. ASSUME NEW k \in 0 .. MaxID - 1,
                 m_ulCurID' = Probe(k),
                 m_setExistID' = m_setExistID \union {Probe(k)},
                 m_mapClosedConn' = m_mapClosedConn,
                 UNCHANGED <<objVars, m_mapConn>>
          PROVE  TypeOK'
      BY <1>1, <2>2, <2>3 DEF TypeOK, HandleHandShake2, objVars, timeVars
    <2>4. ASSUME NEW k \in 0 .. MaxID - 1,
                 m_ulCurID' = Probe(k),
                 m_setExistID' = m_setExistID \union {Probe(k)},
                 m_mapClosedConn' = m_mapClosedConn,
                 NEW o \in Objs \ live, NewConn(o, Probe(k), a)
          PROVE  TypeOK'
      <3>1. Probe(k) \in IDs
        BY ProbeType, NetAssumption
      <3> QED
        BY <1>1, <2>2, <2>4, <3>1 DEF TypeOK, HandleHandShake2, NewConn, timeVars, States
    <2> QED
      BY <1>1, <2>1, <2>3, <2>4 DEF HandleHandShake2
  <1>2. ASSUME NEW a \in Addrs, NEW i \in IDs, HandleReconnect(a, i)
        PROVE  TypeOK'
    <2>1. PICK c \in GetConnByID(i) :
            /\ m_eState' = [m_eState EXCEPT ![c] = "ESTABLISHED"]
            /\ m_stClientAddr' = [m_stClientAddr EXCEPT ![c] = a]
            /\ age' = [age EXCEPT ![c] = 0]
            /\ told' = [told EXCEPT ![c] = "connected"]
            /\ m_mapConn' = [m_mapConn EXCEPT ![a] = c]
      BY <1>2 DEF HandleReconnect
    <2>2. c \in Objs
      BY VisitedType DEF GetConnByID
    <2>3. m_eState' \in [Objs -> States] /\ m_stClientAddr' \in [Objs -> Addrs]
      BY <2>1, <2>2 DEF TypeOK, States
    <2>4. age' \in [Objs -> Nat]
      BY <2>1, <2>2 DEF TypeOK
    <2>5. told' \in [Objs -> {"nothing", "connected", "disconnected", "closed", "closed twice"}]
      BY <2>1, <2>2 DEF TypeOK
    <2>6. m_mapConn' \in [Addrs -> Objs \union {NoObj}]
      BY <2>1, <2>2 DEF TypeOK
    <2> QED
      BY <1>2, <2>3, <2>4, <2>5, <2>6 DEF TypeOK, HandleReconnect
  <1>3. ASSUME NEW a \in Addrs, RecvWhileDisconnected(a)
        PROVE  TypeOK'
    BY <1>3 DEF TypeOK, RecvWhileDisconnected, timeVars, mgrVars
  <1>4. ASSUME NEW a \in Addrs, NEW c \in Objs, Receives(a, c)
        PROVE  ulRecvCnt' \in [Objs -> Nat] /\ net' = net
    BY <1>4, CountType DEF TypeOK, Receives
  <1>5. ASSUME NEW a \in Addrs, RecvUnreliable(a)
        PROVE  TypeOK'
    BY <1>4, <1>5 DEF TypeOK, RecvUnreliable, timeVars, mgrVars
  <1>6. ASSUME NEW a \in Addrs, RecvReliable(a)
        PROVE  TypeOK'
    <2>1. ulRecvCnt' \in [Objs -> Nat] /\ net' = net
      BY <1>4, <1>6 DEF RecvReliable
    <2>2. m_bNeedRecv' \in [Objs -> BOOLEAN]
      BY <1>6 DEF TypeOK, RecvReliable
    <2>3. m_eState' \in [Objs -> States]
      BY <1>6, ZenonT(60) DEF TypeOK, RecvReliable, DisConnect, States
    <2>4. age' \in [Objs -> Nat]
      <3>1. age \in [Objs -> Nat]
        BY DEF TypeOK
      <3>2. age' = age \/ \E S : age' = [o \in Objs |-> IF o \in S THEN 0 ELSE age[o]]
        BY <1>6 DEF RecvReliable, DisConnect
      <3> QED
        BY <3>1, <3>2
    <2>5. told' \in [Objs -> {"nothing", "connected", "disconnected", "closed", "closed twice"}]
      BY <1>6 DEF TypeOK, RecvReliable, DisConnect
    <2> QED
      BY <1>6, <2>1, <2>2, <2>3, <2>4, <2>5 DEF TypeOK, RecvReliable, mgrVars
  <1>7. ASSUME NEW a \in Addrs, NEW i \in IDs, HandleHeartBeat(a, i)
        PROVE  TypeOK'
    <2>1. age' \in [Objs -> Nat]
      <3>1. age \in [Objs -> Nat]
        BY DEF TypeOK
      <3>2. PICK c \in Objs :
              age' = [age EXCEPT ![c] = IF m_eState[c] = "ESTABLISHED" THEN 0 ELSE @]
        BY <1>7 DEF HandleHeartBeat
      <3> QED
        BY <3>1, <3>2
    <2> QED
      BY <1>4, <1>7, <2>1 DEF TypeOK, HandleHeartBeat, mgrVars
  <1>8. ASSUME NEW a \in Addrs, NEW i \in IDs, RecvClose(a, i)
        PROVE  TypeOK'
    <2>1. [o \in Objs |-> "CLIENT_FIN"] \in [Objs -> Reasons]
      BY DEF Reasons
    <2> QED
      BY <1>4, <1>8, <2>1, LoseAndCloseType DEF TypeOK, RecvClose, CloseConnect
  <1>9. ASSUME NEW a \in Addrs, RecvFinAck(a)
        PROVE  TypeOK'
    BY <1>4, <1>9 DEF TypeOK, RecvFinAck, timeVars, mgrVars, States
  <1>10. ASSUME NEW a \in Addrs, NEW i \in IDs, HandleFin(a, i)
         PROVE  TypeOK'
    <2>1. m_eState' \in [Objs -> States]
      BY <1>10 DEF TypeOK, HandleFin, States
    <2>2. age' \in [Objs -> Nat]
      <3>1. age \in [Objs -> Nat]
        BY DEF TypeOK
      <3>2. \E c \in Objs : age' = [age EXCEPT ![c] = 0]
        BY <1>10 DEF HandleFin
      <3> QED
        BY <3>1, <3>2
    <2>3. told' \in [Objs -> {"nothing", "connected", "disconnected", "closed", "closed twice"}]
      BY <1>10, ToldCloseType, ZenonT(60) DEF TypeOK, HandleFin
    <2> QED
      BY <1>4, <1>10, <2>1, <2>2, <2>3 DEF TypeOK, HandleFin, mgrVars
  <1>11. ASSUME NEW i \in IDs, BindConnect(i)
         PROVE  TypeOK'
    BY <1>11 DEF TypeOK, BindConnect, timeVars, mgrVars
  <1>12. ASSUME NEW i \in IDs, NEW reason \in MainReasons \union {"NONE"}, FinConnect(i, reason)
         PROVE  TypeOK'
    <2>1. reason \in Reasons
      BY DEF Reasons
    <2>2. ASSUME NEW c \in GetConnByID(i), CloseConnect(c, reason)
          PROVE  TypeOK'
      <3>1. [o \in Objs |-> reason] \in [Objs -> Reasons] /\ {c} \in SUBSET Objs
        BY <2>1, VisitedType DEF GetConnByID
      <3> QED
        BY <1>12, <2>2, <3>1, LoseAndCloseType DEF TypeOK, FinConnect, CloseConnect
    <2>3. ASSUME NEW c \in GetConnByID(i),
                 m_eState' = [m_eState EXCEPT ![c] = "FIN_WAIT1"],
                 m_uiCloseReason' = [m_uiCloseReason EXCEPT ![c] = reason],
                 age' = [age EXCEPT ![c] = 0],
                 UNCHANGED <<m_bNeedRecv, told, m_mapClosedConn>>
          PROVE  TypeOK'
      BY <1>12, <2>1, <2>3 DEF TypeOK, FinConnect, States
    <2> QED
      BY <1>12, <2>2, <2>3 DEF FinConnect
  <1>13. CASE Second
    BY <1>13, CountType DEF TypeOK, Second, mgrVars
  <1>14. CASE Tick1S
    <2>1. TickCloses \in SUBSET Objs /\ TickReason \in [Objs -> Reasons]
      BY VisitedType, TickReasonType DEF TickCloses
    <2>2. LoseAndClose(HeartbeatLost, TickCloses, TickReason)
      BY <1>14 DEF Tick1S
    <2>3. window' \in [Objs -> Nat]
      BY <1>14 DEF Tick1S, TypeOK
    <2> QED
      BY <1>14, <2>1, <2>2, <2>3, LoseAndCloseType DEF TypeOK, Tick1S
  <1>15. CASE Proc
    <2>1. /\ m_eState' \in [Objs -> States]
          /\ age' \in [Objs -> Nat]
          /\ born' \in [Objs -> Nat]
          /\ window' \in [Objs -> Nat]
          /\ ulRecvCnt' \in [Objs -> Nat]
      <3>1. m_eState' \in [Objs -> States]
        BY <1>15, ZenonT(60) DEF TypeOK, Proc, WithoutFreed, States
      <3>2. age' \in [Objs -> Nat]
        <4>1. age \in [Objs -> Nat]
          BY DEF TypeOK
        <4>2. \E S : age' = [o \in Objs |-> IF o \in S THEN 0 ELSE age[o]]
          BY <1>15 DEF Proc, WithoutFreed
        <4> QED
          BY <4>1, <4>2
      <3>3. /\ born' \in [Objs -> Nat]
            /\ window' \in [Objs -> Nat]
            /\ ulRecvCnt' \in [Objs -> Nat]
        BY <1>15 DEF TypeOK, Proc, WithoutFreed
      <3> QED
        BY <3>1, <3>2, <3>3
    <2>2. told' \in [Objs -> {"nothing", "connected", "disconnected", "closed", "closed twice"}]
      BY <1>15 DEF TypeOK, Proc, WithoutFreed
    <2>3. /\ m_ulConnID' \in [Objs -> IDs]
          /\ m_stClientAddr' \in [Objs -> Addrs]
          /\ m_ullBindData' \in [Objs -> BOOLEAN]
          /\ m_bNeedRecv' \in [Objs -> BOOLEAN]
          /\ m_uiCloseReason' \in [Objs -> Reasons]
      <3>1. m_ulConnID' \in [Objs -> IDs]
        <4>1. 0 \in IDs
          BY NetAssumption DEF IDs
        <4> QED
          BY <1>15, <4>1 DEF TypeOK, Proc, WithoutFreed
      <3>2. m_stClientAddr' \in [Objs -> Addrs]
        BY <1>15, SomeAddrType DEF TypeOK, Proc, WithoutFreed
      <3>3. m_ullBindData' \in [Objs -> BOOLEAN] /\ m_bNeedRecv' \in [Objs -> BOOLEAN]
        BY <1>15 DEF TypeOK, Proc, WithoutFreed
      <3>4. m_uiCloseReason' \in [Objs -> Reasons]
        BY <1>15 DEF TypeOK, Proc, WithoutFreed, Reasons
      <3> QED
        BY <3>1, <3>2, <3>3, <3>4
    <2>4. /\ live' \subseteq Objs
          /\ m_mapConn' \in [Addrs -> Objs \union {NoObj}]
          /\ m_mapClosedConn' \in [IDs -> Objs \union {NoObj}]
          /\ m_setExistID' \subseteq IDs
          /\ m_ulCurID' \in IDs
          /\ net' = net
      BY <1>15 DEF TypeOK, Proc, WithoutFreed
    <2> QED
      BY <2>1, <2>2, <2>3, <2>4 DEF TypeOK
  <1>16. CASE ProcSpins
    BY <1>16 DEF TypeOK, ProcSpins, objVars, timeVars, mgrVars
  <1>17. CASE UseDangling
    BY <1>17 DEF TypeOK, UseDangling, objVars, timeVars, mgrVars
  <1>18. CASE UNCHANGED vars
    BY <1>18 DEF TypeOK, vars, objVars, timeVars, mgrVars
  <1> QED
    BY <1>1, <1>2, <1>3, <1>5, <1>6, <1>7, <1>8, <1>9, <1>10, <1>11, <1>12, <1>13, <1>14,
       <1>15, <1>16, <1>17, <1>18 DEF Next, Packet, MainMsg, Stopped

\* The types hold of every behaviour.
THEOREM TypeCorrect == Spec => []TypeOK
  BY InitType, TypeStep, PTL DEF Spec
-------------------------------------------------------------------------------
(* The tables agree with the connections.  The invariant is inductive as a      *)
(* whole: that closing files a connection under a free place of m_mapClosedConn *)
(* needs the ids to be distinct, that freeing one keeps the others reachable    *)
(* needs addresses to be distinct (ReachedByAddr), and that a new id is not in  *)
(* use needs m_setExistID to know all of them.                                  *)

TablesInv == TypeOK /\ IdsUnique /\ ClosedExact /\ ReachedByAddr

\* Steps that leave the connections' ids alone.
LEMMA KeepIds ==
    ASSUME IdsUnique, UNCHANGED <<live, m_ulConnID>>, m_setExistID \subseteq m_setExistID'
    PROVE  IdsUnique'
  BY DEF IdsUnique

\* Steps that leave the connections' addresses and m_mapConn alone.
LEMMA KeepReached ==
    ASSUME ReachedByAddr, UNCHANGED <<live, m_stClientAddr, m_mapConn>>
    PROVE  ReachedByAddr'
  BY DEF ReachedByAddr

\* Steps that neither close a connection nor reopen one.
LEMMA KeepClosed ==
    ASSUME TypeOK, ClosedExact, UNCHANGED <<live, m_ulConnID, m_mapClosedConn>>,
           \A o \in Objs : m_eState'[o] = "CLOSE" <=> m_eState[o] = "CLOSE"
    PROVE  ClosedExact'
  BY DEF ClosedExact

\* A step that puts one open connection in another open state.
LEMMA OpenToOpen ==
    ASSUME TypeOK, NEW c \in Objs, NEW state, state # "CLOSE", m_eState[c] # "CLOSE",
           m_eState' = [m_eState EXCEPT ![c] = state]
    PROVE  \A o \in Objs : m_eState'[o] = "CLOSE" <=> m_eState[o] = "CLOSE"
  BY DEF TypeOK

\* DisConnect of open connections.
LEMMA DisConnectOpen ==
    ASSUME NEW S, \A o \in S : m_eState[o] = "ESTABLISHED", DisConnect(S)
    PROVE  \A o \in Objs : m_eState'[o] = "CLOSE" <=> m_eState[o] = "CLOSE"
  BY DEF DisConnect

\* Breaking the connections of L and closing those of S.
LEMMA LoseAndCloseTables ==
    ASSUME TablesInv,
           NEW L, \A o \in L : m_eState[o] = "ESTABLISHED",
           NEW S \in SUBSET live, \A o \in S : m_eState[o] # "CLOSE",
           NEW why, LoseAndClose(L, S, why), UNCHANGED <<live, m_ulConnID>>
    PROVE  ClosedExact'
  <1> SUFFICES ASSUME NEW i \in IDs, NEW o \in Objs
               PROVE  m_mapClosedConn'[i] = o
                        <=> o \in live /\ m_eState'[o] = "CLOSE" /\ m_ulConnID[o] = i
    BY DEF ClosedExact
  <1>1. m_eState'[o] = "CLOSE" <=> o \in S \/ m_eState[o] = "CLOSE"
    BY DEF LoseAndClose
  <1>2. \A p, q \in live : m_ulConnID[p] = m_ulConnID[q] => p = q
    BY DEF TablesInv, IdsUnique
  <1>3. m_mapClosedConn[i] = o <=> o \in live /\ m_eState[o] = "CLOSE" /\ m_ulConnID[o] = i
    BY DEF TablesInv, ClosedExact
  <1>4. CASE \E p \in S : m_ulConnID[p] = i
    <2>1. PICK p \in S : m_ulConnID[p] = i
      BY <1>4
    <2>2. (CHOOSE q \in S : m_ulConnID[q] = i) = p
      BY <2>1, <1>2
    <2>3. m_mapClosedConn'[i] = p
      BY <1>4, <2>2 DEF LoseAndClose
    <2> QED
      BY <2>1, <2>3, <1>1, <1>2
  <1>5. CASE ~\E p \in S : m_ulConnID[p] = i
    <2>1. m_mapClosedConn'[i] = m_mapClosedConn[i]
      BY <1>5 DEF LoseAndClose
    <2> QED
      BY <2>1, <1>1, <1>3, <1>5
  <1> QED
    BY <1>4, <1>5

\* A new object, under an unused id and at an address nobody else has.
LEMMA NewConnTables ==
    ASSUME TablesInv, NEW a \in Addrs, m_mapConn[a] = NoObj,
           NEW id \in IDs \ m_setExistID, m_setExistID' = m_setExistID \union {id},
           NEW o \in Objs \ live, NewConn(o, id, a), m_mapClosedConn' = m_mapClosedConn
    PROVE  IdsUnique' /\ ClosedExact' /\ ReachedByAddr'
  <1>0. /\ live \subseteq Objs
        /\ m_eState \in [Objs -> States] /\ m_ulConnID \in [Objs -> IDs]
        /\ m_stClientAddr \in [Objs -> Addrs]
        /\ m_mapConn \in [Addrs -> Objs \union {NoObj}]
    BY DEF TablesInv, TypeOK
  <1>1. /\ live' = live \union {o}
        /\ m_eState'[o] = "ESTABLISHED" /\ m_ulConnID'[o] = id /\ m_stClientAddr'[o] = a
        /\ m_mapConn'[a] = o
    BY <1>0 DEF NewConn
  <1>2. \A p \in Objs \ {o} : /\ m_eState'[p] = m_eState[p]
                              /\ m_ulConnID'[p] = m_ulConnID[p]
                              /\ m_stClientAddr'[p] = m_stClientAddr[p]
    BY <1>0 DEF NewConn
  <1>3. \A b \in Addrs \ {a} : m_mapConn'[b] = m_mapConn[b]
    BY <1>0 DEF NewConn
  <1>4. IdsUnique'
    <2>1. \A p \in live : m_ulConnID[p] \in m_setExistID
      BY DEF TablesInv, IdsUnique
    <2>2. \A p, q \in live : m_ulConnID[p] = m_ulConnID[q] => p = q
      BY DEF TablesInv, IdsUnique
    <2> QED
      BY <1>0, <1>1, <1>2, <2>1, <2>2 DEF IdsUnique
  <1>5. ClosedExact'
    <2>1. \A i \in IDs, p \in Objs :
            m_mapClosedConn[i] = p <=> p \in live /\ m_eState[p] = "CLOSE" /\ m_ulConnID[p] = i
      BY DEF TablesInv, ClosedExact
    <2> SUFFICES ASSUME NEW i \in IDs, NEW p \in Objs
                 PROVE  m_mapClosedConn'[i] = p
                          <=> p \in live' /\ m_eState'[p] = "CLOSE" /\ m_ulConnID'[p] = i
      BY DEF ClosedExact
    <2>2. CASE p = o
      BY <1>1, <2>1, <2>2
    <2>3. CASE p # o
      BY <1>1, <1>2, <2>1, <2>3
    <2> QED
      BY <2>2, <2>3
  <1>6. ReachedByAddr'
    <2>1. \A p \in live : m_mapConn[m_stClientAddr[p]] = p /\ m_stClientAddr[p] # a
      BY <1>0, NetAssumption DEF TablesInv, ReachedByAddr
    <2> SUFFICES ASSUME NEW p \in live'
                 PROVE  m_mapConn'[m_stClientAddr'[p]] = p
      BY DEF ReachedByAddr
    <2>2. CASE p = o
      BY <1>1, <2>2
    <2>3. CASE p # o
      BY <1>0, <1>1, <1>2, <1>3, <2>1, <2>3
    <2> QED
      BY <2>2, <2>3
  <1> QED
    BY <1>4, <1>5, <1>6

\* A reconnected client moves to an address nobody else has.
LEMMA ReconnectTables ==
    ASSUME TablesInv, NEW a \in Addrs, NEW i \in IDs, HandleReconnect(a, i)
    PROVE  IdsUnique' /\ ClosedExact' /\ ReachedByAddr'
  <1>1. PICK c \in GetConnByID(i) :
          /\ m_eState[c] \in {"DISCONNET", "ESTABLISHED"}
          /\ m_eState' = [m_eState EXCEPT ![c] = "ESTABLISHED"]
          /\ m_stClientAddr' = [m_stClientAddr EXCEPT ![c] = a]
          /\ m_mapConn' = [m_mapConn EXCEPT ![a] = c]
    BY DEF HandleReconnect
  <1>2. /\ m_mapConn[a] = NoObj
        /\ UNCHANGED <<live, m_ulConnID, m_mapClosedConn, m_setExistID>>
    BY DEF HandleReconnect
  <1>3. /\ TypeOK /\ IdsUnique /\ ClosedExact
        /\ live \subseteq Objs
        /\ m_stClientAddr \in [Objs -> Addrs]
        /\ m_mapConn \in [Addrs -> Objs \union {NoObj}]
    BY DEF TablesInv, TypeOK
  <1>4. c \in live
    BY DEF GetConnByID
  <1>5. IdsUnique'
    BY <1>2, <1>3, KeepIds
  <1>6. ClosedExact'
    <2>1. \A o \in Objs : m_eState'[o] = "CLOSE" <=> m_eState[o] = "CLOSE"
      BY <1>1, <1>3, <1>4, OpenToOpen
    <2> QED
      BY <1>2, <1>3, <2>1, KeepClosed
  <1>7. ReachedByAddr'
    <2>1. \A p \in live : m_mapConn[m_stClientAddr[p]] = p /\ m_stClientAddr[p] # a
      BY <1>2, <1>3, NetAssumption DEF TablesInv, ReachedByAddr
    <2> SUFFICES ASSUME NEW p \in live
                 PROVE  m_mapConn'[m_stClientAddr'[p]] = p
      BY <1>2 DEF ReachedByAddr
    <2>2. CASE p = c
      BY <1>1, <1>3, <1>4, <2>2
    <2>3. CASE p # c
      BY <1>1, <1>3, <1>4, <2>1, <2>3
    <2> QED
      BY <2>2, <2>3
  <1> QED
    BY <1>5, <1>6, <1>7

\* ProcClosedConn deletes exactly the closed connections.
LEMMA FreedAreClosed ==
    ASSUME TypeOK, ClosedExact
    PROVE  Freed = {o \in live : m_eState[o] = "CLOSE"}
  <1>1. /\ live \subseteq Objs /\ m_ulConnID \in [Objs -> IDs]
        /\ m_mapClosedConn \in [IDs -> Objs \union {NoObj}]
    BY DEF TypeOK
  <1>2. ASSUME NEW o \in Freed
        PROVE  o \in live /\ m_eState[o] = "CLOSE"
    BY <1>1 DEF Freed, ClosedExact
  <1>3. ASSUME NEW o \in live, m_eState[o] = "CLOSE"
        PROVE  o \in Freed
    <2>1. m_mapClosedConn[m_ulConnID[o]] = o
      BY <1>1, <1>3 DEF ClosedExact
    <2> QED
      BY <1>1, <2>1, NetAssumption DEF Freed
  <1> QED
    BY <1>2, <1>3

LEMMA ProcTables ==
    ASSUME TablesInv, Proc
    PROVE  IdsUnique' /\ ClosedExact' /\ ReachedByAddr'
  <1>1. /\ live \subseteq Objs
        /\ m_stClientAddr \in [Objs -> Addrs]
        /\ m_mapConn \in [Addrs -> Objs \union {NoObj}]
    BY DEF TablesInv, TypeOK
  <1>2. Freed = {o \in live : m_eState[o] = "CLOSE"}
    BY FreedAreClosed DEF TablesInv
  <1>3. /\ live' = live \ Freed
        /\ \A o \in live' : m_ulConnID'[o] = m_ulConnID[o] /\ m_stClientAddr'[o] = m_stClientAddr[o]
        /\ m_setExistID' = m_setExistID \ {m_ulConnID[o] : o \in Freed}
        /\ \A a \in Addrs : (~\E o \in Freed : m_stClientAddr[o] = a) => m_mapConn'[a] = m_mapConn[a]
        /\ \A i \in IDs : m_mapClosedConn'[i] = NoObj
    BY <1>1 DEF Proc, WithoutFreed
  <1>4. \A o \in live' : m_eState'[o] # "CLOSE"
    BY <1>1, <1>2, <1>3 DEF Proc, WithoutFreed
  <1>5. IdsUnique'
    <2>1. \A o, p \in live : m_ulConnID[o] = m_ulConnID[p] => o = p
      BY DEF TablesInv, IdsUnique
    <2>2. \A o \in live : m_ulConnID[o] \in m_setExistID
      BY DEF TablesInv, IdsUnique
    <2> QED
      BY <1>2, <1>3, <2>1, <2>2 DEF IdsUnique
  <1>6. ClosedExact'
    BY <1>3, <1>4, NetAssumption DEF ClosedExact
  <1>7. ReachedByAddr'
    <2> SUFFICES ASSUME NEW o \in live'
                 PROVE  m_mapConn'[m_stClientAddr'[o]] = o
      BY DEF ReachedByAddr
    <2>1. \A p \in live : m_mapConn[m_stClientAddr[p]] = p
      BY DEF TablesInv, ReachedByAddr
    <2>2. ~\E p \in Freed : m_stClientAddr[p] = m_stClientAddr[o]
      BY <1>2, <1>3, <2>1
    <2> QED
      BY <1>1, <1>3, <2>1, <2>2
  <1> QED
    BY <1>5, <1>6, <1>7

\* Whom LoseAndClose is applied to by the handlers that close one connection, and
\* by Tick1S.
LEMMA VisitedLive ==
    ASSUME Dangling = {}
    PROVE  Visited \subseteq live
  BY DEF Dangling

LEMMA CloseOneTables ==
    ASSUME TablesInv, NEW c \in live, m_eState[c] # "CLOSE", NEW reason,
           CloseConnect(c, reason),
           UNCHANGED <<live, m_ulConnID, m_stClientAddr, m_mapConn, m_setExistID>>
    PROVE  IdsUnique' /\ ClosedExact' /\ ReachedByAddr'
  <1>1. IdsUnique' /\ ReachedByAddr'
    BY KeepIds, KeepReached DEF TablesInv
  <1>2. ClosedExact'
    <2>1. /\ LoseAndClose({}, {c}, [o \in Objs |-> reason])
          /\ {c} \in SUBSET live /\ \A o \in {c} : m_eState[o] # "CLOSE"
          /\ \A o \in {} : m_eState[o] = "ESTABLISHED"
      BY DEF CloseConnect
    <2> QED
      BY <2>1, LoseAndCloseTables
  <1> QED
    BY <1>1, <1>2

LEMMA InitTables == Init => TablesInv
  <1> SUFFICES ASSUME Init
               PROVE  TablesInv
    OBVIOUS
  <1>1. TypeOK
    BY InitType
  <1>2. IdsUnique /\ ClosedExact /\ ReachedByAddr
    BY NetAssumption DEF Init, IdsUnique, ClosedExact, ReachedByAddr
  <1> QED
    BY <1>1, <1>2 DEF TablesInv

LEMMA TablesStep == TablesInv /\ [Next]_vars => TablesInv'
  <1> SUFFICES ASSUME TablesInv, [Next]_vars
               PROVE  IdsUnique' /\ ClosedExact' /\ ReachedByAddr'
    BY TypeStep DEF TablesInv
  <1>0. TypeOK /\ IdsUnique /\ ClosedExact /\ ReachedByAddr
    BY DEF TablesInv
  <1>1. ASSUME UNCHANGED <<live, m_ulConnID, m_stClientAddr, mgrVars>>,
               \A o \in Objs : m_eState'[o] = "CLOSE" <=> m_eState[o] = "CLOSE"
        PROVE  IdsUnique' /\ ClosedExact' /\ ReachedByAddr'
    BY <1>0, <1>1, KeepIds, KeepReached, KeepClosed DEF mgrVars
  <1>2. ASSUME NEW a \in Addrs, HandleHandShake2(a)
        PROVE  IdsUnique' /\ ClosedExact' /\ ReachedByAddr'
    <2>1. ASSUME UNCHANGED <<objVars, m_mapConn, m_mapClosedConn>>,
                 m_setExistID \subseteq m_setExistID'
          PROVE  IdsUnique' /\ ClosedExact' /\ ReachedByAddr'
      BY <1>0, <2>1, KeepIds, KeepReached, KeepClosed DEF objVars
    <2>2. ASSUME NEW k \in 0 .. MaxID - 1, Allocates(k),
                 m_setExistID' = m_setExistID \union {Probe(k)},
                 m_mapClosedConn' = m_mapClosedConn,
                 NEW o \in Objs \ live, NewConn(o, Probe(k), a)
          PROVE  IdsUnique' /\ ClosedExact' /\ ReachedByAddr'
      <3>1. Probe(k) \in IDs \ m_setExistID
        BY <1>0, <2>2, ProbeType, NetAssumption DEF Allocates
      <3>2. m_mapConn[a] = NoObj
        BY <1>2 DEF HandleHandShake2
      <3> QED
        BY <2>2, <3>1, <3>2, NewConnTables
    <2> QED
      BY <1>2, <2>1, <2>2 DEF HandleHandShake2
  <1>3. ASSUME NEW a \in Addrs, NEW i \in IDs, HandleReconnect(a, i)
        PROVE  IdsUnique' /\ ClosedExact' /\ ReachedByAddr'
    BY <1>3, ReconnectTables
  <1>4. ASSUME NEW a \in Addrs, RecvWhileDisconnected(a)
        PROVE  IdsUnique' /\ ClosedExact' /\ ReachedByAddr'
    BY <1>1, <1>4 DEF RecvWhileDisconnected
  <1>5. ASSUME NEW a \in Addrs, RecvUnreliable(a)
        PROVE  IdsUnique' /\ ClosedExact' /\ ReachedByAddr'
    BY <1>1, <1>5 DEF RecvUnreliable
  <1>6. ASSUME NEW a \in Addrs, RecvReliable(a)
        PROVE  IdsUnique' /\ ClosedExact' /\ ReachedByAddr'
    <2>1. m_eState' = m_eState
          \/ \E c \in Objs : DisConnect({c} \intersect {o \in Objs : m_eState[o] = "ESTABLISHED"})
      BY <1>6 DEF RecvReliable
    <2>2. \A o \in Objs : m_eState'[o] = "CLOSE" <=> m_eState[o] = "CLOSE"
      BY <2>1, DisConnectOpen
    <2> QED
      BY <1>1, <1>6, <2>2 DEF RecvReliable
  <1>7. ASSUME NEW a \in Addrs, NEW i \in IDs, HandleHeartBeat(a, i)
        PROVE  IdsUnique' /\ ClosedExact' /\ ReachedByAddr'
    BY <1>1, <1>7 DEF HandleHeartBeat
  <1>8. ASSUME NEW a \in Addrs, NEW i \in IDs, RecvClose(a, i)
        PROVE  IdsUnique' /\ ClosedExact' /\ ReachedByAddr'
    BY <1>8, CloseOneTables DEF RecvClose, Receives
  <1>9. ASSUME NEW a \in Addrs, RecvFinAck(a)
        PROVE  IdsUnique' /\ ClosedExact' /\ ReachedByAddr'
    <2>1. \A o \in Objs : m_eState'[o] = "CLOSE" <=> m_eState[o] = "CLOSE"
      BY <1>0, <1>9, OpenToOpen DEF RecvFinAck
    <2> QED
      BY <1>1, <1>9, <2>1 DEF RecvFinAck
  <1>10. ASSUME NEW a \in Addrs, NEW i \in IDs, HandleFin(a, i)
         PROVE  IdsUnique' /\ ClosedExact' /\ ReachedByAddr'
    <2>1. \A o \in Objs : m_eState'[o] = "CLOSE" <=> m_eState[o] = "CLOSE"
      BY <1>0, <1>10, OpenToOpen DEF HandleFin
    <2> QED
      BY <1>1, <1>10, <2>1 DEF HandleFin
  <1>11. ASSUME NEW i \in IDs, BindConnect(i)
         PROVE  IdsUnique' /\ ClosedExact' /\ ReachedByAddr'
    BY <1>1, <1>11 DEF BindConnect
  <1>12. ASSUME NEW i \in IDs, NEW reason, FinConnect(i, reason)
         PROVE  IdsUnique' /\ ClosedExact' /\ ReachedByAddr'
    <2>1. ASSUME NEW c \in GetConnByID(i), m_eState[c] = "DISCONNET", CloseConnect(c, reason)
          PROVE  IdsUnique' /\ ClosedExact' /\ ReachedByAddr'
      BY <1>12, <2>1, CloseOneTables DEF FinConnect, GetConnByID
    <2>2. ASSUME NEW c \in GetConnByID(i), m_eState[c] = "ESTABLISHED",
                 m_eState' = [m_eState EXCEPT ![c] = "FIN_WAIT1"],
                 m_mapClosedConn' = m_mapClosedConn
          PROVE  IdsUnique' /\ ClosedExact' /\ ReachedByAddr'
      <3>1. c \in Objs
        BY <1>0 DEF GetConnByID, TypeOK
      <3>2. \A o \in Objs : m_eState'[o] = "CLOSE" <=> m_eState[o] = "CLOSE"
        BY <1>0, <2>2, <3>1, OpenToOpen
      <3> QED
        BY <1>1, <1>12, <2>2, <3>2 DEF FinConnect, mgrVars
    <2> QED
      BY <1>12, <2>1, <2>2 DEF FinConnect
  <1>13. CASE Second
    BY <1>1, <1>13 DEF Second
  <1>14. CASE Tick1S
    <2>1. /\ LoseAndClose(HeartbeatLost, TickCloses, TickReason)
          /\ UNCHANGED <<live, m_ulConnID, m_stClientAddr, m_mapConn, m_setExistID>>
      BY <1>14 DEF Tick1S
    <2>2. /\ TickCloses \in SUBSET live /\ \A o \in TickCloses : m_eState[o] # "CLOSE"
          /\ \A o \in HeartbeatLost : m_eState[o] = "ESTABLISHED"
      BY <1>14, VisitedLive DEF Tick1S, TickCloses, HeartbeatLost
    <2>3. ClosedExact'
      BY <2>1, <2>2, LoseAndCloseTables
    <2>4. IdsUnique' /\ ReachedByAddr'
      BY <1>0, <2>1, KeepIds, KeepReached
    <2> QED
      BY <2>3, <2>4
  <1>15. CASE Proc
    BY <1>15, ProcTables
  <1>16. CASE ProcSpins
    BY <1>1, <1>16 DEF ProcSpins, objVars
  <1>17. CASE UseDangling
    BY <1>1, <1>17 DEF UseDangling, objVars
  <1>18. CASE UNCHANGED vars
    BY <1>1, <1>18 DEF vars, objVars
  <1> QED
    BY <1>2, <1>3, <1>4, <1>5, <1>6, <1>7, <1>8, <1>9, <1>10, <1>11, <1>12, <1>13, <1>14,
       <1>15, <1>16, <1>17, <1>18 DEF Next, Packet, MainMsg, Stopped

\* What the tables say of connections, their ids and addresses, is so (TablesInv).
THEOREM TablesInvariance == Spec => []TablesInv
  BY InitTables, TablesStep, PTL DEF Spec

\* No two connections share an id, and every id in use is known as taken.
THEOREM ConnIdsUnique == Spec => []IdsUnique
  <1>1. TablesInv => IdsUnique
    BY DEF TablesInv
  <1> QED
    BY TablesInvariance, <1>1, PTL

\* Closed connections are freed once each, and none is forgotten.
THEOREM ClosedFreedOnce == Spec => []ClosedExact
  <1>1. TablesInv => ClosedExact
    BY DEF TablesInv
  <1> QED
    BY TablesInvariance, <1>1, PTL

\* Every connection is found under the address it answers to.
THEOREM ConnsReached == Spec => []ReachedByAddr
  <1>1. TablesInv => ReachedByAddr
    BY DEF TablesInv
  <1> QED
    BY TablesInvariance, <1>1, PTL
-------------------------------------------------------------------------------
(* What the main thread is told.  That the events come in order rests on each   *)
(* connection's state agreeing with the last of them.                           *)

ToldInv == TablesInv /\ FreeSilent /\ ToldTheTruth

\* The part of ToldTheTruth about one connection.
Truth(o) ==
    /\ m_eState[o] \in {"ESTABLISHED", "FIN_WAIT1", "FIN_WAIT2"} => told[o] = "connected"
    /\ m_eState[o] = "DISCONNET" => told[o] = "disconnected"
    /\ m_eState[o] = "TIME_WAIT" => told[o] = "closed"
    /\ m_eState[o] = "CLOSE" => \/ told[o] \in {"closed", "closed twice"}
                                \/ told[o] = "disconnected" /\ m_uiCloseReason[o] = "NONE"

\* What a step may tell of one object.
Tells(o) == told'[o] = told[o] \/ <<told[o], told'[o]>> \in Events!Follows

\* A step keeps the invariant, and tells nothing out of order.
StepTells == FreeSilent' /\ ToldTheTruth' /\ \A o \in Objs : Tells(o)

LEMMA TruthForAll ==
    ASSUME \A o \in live' : Truth(o)'
    PROVE  ToldTheTruth'
  BY DEF ToldTheTruth, Truth

LEMMA KeepTold ==
    ASSUME ToldInv, UNCHANGED <<live, m_eState, m_uiCloseReason, told>>
    PROVE  StepTells
  BY DEF ToldInv, StepTells, FreeSilent, ToldTheTruth, Tells

\* A step that changes one live connection.
LEMMA OneTells ==
    ASSUME ToldInv, NEW c \in live, live' = live, Truth(c)', Tells(c),
           \A o \in Objs \ {c} : /\ m_eState'[o] = m_eState[o]
                                 /\ told'[o] = told[o]
                                 /\ m_uiCloseReason'[o] = m_uiCloseReason[o]
    PROVE  StepTells
  <1>1. live \subseteq Objs
    BY DEF ToldInv, TablesInv, TypeOK
  <1>2. \A o \in live : Truth(o)'
    <2> SUFFICES ASSUME NEW o \in live, o # c
                 PROVE  Truth(o)'
      OBVIOUS
    <2>1. Truth(o)
      BY DEF ToldInv, ToldTheTruth, Truth
    <2> QED
      BY <1>1, <2>1 DEF Truth
  <1>3. FreeSilent'
    BY <1>1 DEF ToldInv, FreeSilent
  <1>4. \A o \in Objs : Tells(o)
    BY DEF Tells
  <1> QED
    BY <1>2, <1>3, <1>4, TruthForAll DEF StepTells

\* Breaking the connections of L and closing those of S; nothing is closed
\* without a reason but a broken connection or one that has announced it.
LEMMA LoseAndCloseTells ==
    ASSUME ToldInv,
           NEW L \in SUBSET live, \A o \in L : m_eState[o] = "ESTABLISHED",
           NEW S \in SUBSET live, \A o \in S : m_eState[o] # "CLOSE",
           NEW why, \A o \in S : why[o] = "NONE" => m_eState[o] \in {"DISCONNET", "TIME_WAIT"},
           LoseAndClose(L, S, why), live' = live
    PROVE  StepTells
  <1>1. live \subseteq Objs /\ m_eState \in [Objs -> States]
    BY DEF ToldInv, TablesInv, TypeOK
  <1>2. \A o \in Objs :
          /\ m_eState'[o] = IF o \in S THEN "CLOSE" ELSE IF o \in L THEN "DISCONNET" ELSE m_eState[o]
          /\ m_uiCloseReason'[o] = IF o \in S THEN why[o] ELSE m_uiCloseReason[o]
          /\ told'[o] = IF o \in S /\ why[o] # "NONE" THEN ToldClose(o)
                        ELSE IF o \in L THEN "disconnected" ELSE told[o]
    BY DEF LoseAndClose
  <1>3. ASSUME NEW o \in live
        PROVE  Truth(o)' /\ Tells(o)
    <2>1. Truth(o) /\ o \in Objs /\ m_eState[o] \in States
      BY <1>1 DEF ToldInv, ToldTheTruth, Truth
    <2>2. CASE o \in S /\ why[o] # "NONE"
      <3>1. m_eState'[o] = "CLOSE" /\ told'[o] = ToldClose(o)
        BY <1>2, <2>1, <2>2
      <3>2. m_eState[o] # "CLOSE"
        BY <2>2
      <3>3. told[o] \in {"connected", "disconnected", "closed"}
        BY <2>1, <3>2 DEF Truth, States
      <3> QED
        BY <3>1, <3>3 DEF Truth, Tells, ToldClose, Events!Follows
    <2>3. CASE o \in S /\ why[o] = "NONE"
      <3>1. m_eState'[o] = "CLOSE" /\ m_uiCloseReason'[o] = "NONE" /\ m_eState[o] # "ESTABLISHED"
            /\ m_eState[o] \in {"DISCONNET", "TIME_WAIT"}
        BY <1>2, <2>1, <2>3
      <3>2. told'[o] = told[o]
        BY <1>2, <2>1, <2>3, <3>1
      <3> QED
        BY <2>1, <3>1, <3>2 DEF Truth, Tells
    <2>4. CASE o \notin S /\ o \in L
      <3>1. m_eState'[o] = "DISCONNET" /\ told'[o] = "disconnected" /\ m_eState[o] = "ESTABLISHED"
        BY <1>2, <2>1, <2>4
      <3> QED
        BY <2>1, <3>1 DEF Truth, Tells, Events!Follows
    <2>5. CASE o \notin S /\ o \notin L
      <3>1. m_eState'[o] = m_eState[o] /\ told'[o] = told[o]
            /\ m_uiCloseReason'[o] = m_uiCloseReason[o]
        BY <1>2, <2>1, <2>5
      <3> QED
        BY <2>1, <3>1 DEF Truth, Tells
    <2> QED
      BY <2>2, <2>3, <2>4, <2>5
  <1>4. \A o \in Objs \ live : told'[o] = told[o]
    BY <1>2
  <1>5. FreeSilent'
    BY <1>4 DEF ToldInv, FreeSilent
  <1>6. \A o \in Objs : Tells(o)
    BY <1>3, <1>4 DEF Tells
  <1>7. ToldTheTruth'
    BY <1>3, TruthForAll
  <1> QED
    BY <1>5, <1>6, <1>7 DEF StepTells

LEMMA NewConnTells ==
    ASSUME ToldInv, NEW a, NEW id, NEW o \in Objs \ live, NewConn(o, id, a)
    PROVE  StepTells
  <1>1. /\ m_eState \in [Objs -> States] /\ live \subseteq Objs
        /\ told \in [Objs -> {"nothing", "connected", "disconnected", "closed", "closed twice"}]
    BY DEF ToldInv, TablesInv, TypeOK
  <1>2. /\ live' = live \union {o} /\ m_eState'[o] = "ESTABLISHED" /\ told'[o] = "connected"
        /\ \A p \in Objs \ {o} : m_eState'[p] = m_eState[p] /\ told'[p] = told[p]
        /\ m_uiCloseReason' = m_uiCloseReason
    BY <1>1 DEF NewConn
  <1>3. told[o] = "nothing"
    BY DEF ToldInv, FreeSilent
  <1>4. ASSUME NEW p \in live'
        PROVE  Truth(p)'
    <2>1. CASE p = o
      BY <1>2, <2>1 DEF Truth
    <2>2. CASE p # o
      <3>1. Truth(p) /\ p \in Objs
        BY <1>1, <1>2, <2>2 DEF ToldInv, ToldTheTruth, Truth
      <3> QED
        BY <1>2, <2>2, <3>1 DEF Truth
    <2> QED
      BY <2>1, <2>2
  <1>5. FreeSilent'
    BY <1>2 DEF ToldInv, FreeSilent
  <1>6. \A p \in Objs : Tells(p)
    BY <1>2, <1>3 DEF Tells, Events!Follows
  <1> QED
    BY <1>4, <1>5, <1>6, TruthForAll DEF StepTells

LEMMA ProcTells ==
    ASSUME ToldInv, Proc
    PROVE  StepTells
  <1>1. /\ m_eState \in [Objs -> States] /\ live \subseteq Objs
        /\ Freed = {o \in live : m_eState[o] = "CLOSE"}
    BY FreedAreClosed DEF ToldInv, TablesInv, TypeOK
  <1>2. PICK Dead \in SUBSET {o \in Visited : m_eState[o] = "ESTABLISHED"} :
          /\ m_eState' = [o \in Objs |-> IF o \in Dead THEN "DISCONNET" ELSE m_eState[o]]
          /\ told' = [o \in Objs |-> IF o \in Freed THEN "nothing"
                                     ELSE IF o \in Dead THEN "disconnected" ELSE told[o]]
    BY DEF Proc, WithoutFreed
  <1>3. Dead \subseteq live
    BY VisitedLive DEF Proc, WithoutFreed
  <1>4. /\ live' = live \ Freed
        /\ m_uiCloseReason' = [o \in Objs |-> IF o \in Freed THEN "NONE" ELSE m_uiCloseReason[o]]
    BY DEF Proc, WithoutFreed
  <1>5. \A o \in live : Truth(o)
    BY DEF ToldInv, ToldTheTruth, Truth
  <1>6. ASSUME NEW o \in live'
        PROVE  Truth(o)'
    <2>1. o \in live /\ o \in Objs /\ o \notin Freed
      BY <1>1, <1>4
    <2>2. CASE o \in Dead
      BY <1>2, <2>1, <2>2 DEF Truth
    <2>3. CASE o \notin Dead
      <3>1. m_eState'[o] = m_eState[o] /\ told'[o] = told[o]
            /\ m_uiCloseReason'[o] = m_uiCloseReason[o]
        BY <1>2, <1>4, <2>1, <2>3
      <3> QED
        BY <1>5, <2>1, <3>1 DEF Truth
    <2> QED
      BY <2>2, <2>3
  <1>7. FreeSilent'
    BY <1>1, <1>2, <1>3, <1>4 DEF ToldInv, FreeSilent
  <1>8. ASSUME NEW o \in Objs
        PROVE  Tells(o)
    <2>1. CASE o \in Freed
      <3>1. told[o] \in {"closed", "closed twice", "disconnected"} /\ told'[o] = "nothing"
        BY <1>1, <1>2, <1>5, <2>1 DEF Truth
      <3> QED
        BY <3>1 DEF Tells, Events!Follows
    <2>2. CASE o \notin Freed /\ o \in Dead
      <3>1. told[o] = "connected" /\ told'[o] = "disconnected"
        BY <1>2, <1>3, <1>5, <2>2 DEF Truth
      <3> QED
        BY <3>1 DEF Tells, Events!Follows
    <2>3. CASE o \notin Freed /\ o \notin Dead
      BY <1>2, <2>3 DEF Tells
    <2> QED
      BY <2>1, <2>2, <2>3
  <1> QED
    BY <1>6, <1>7, <1>8, TruthForAll DEF StepTells

LEMMA InitTold == Init => ToldInv /\ Events!Init
  <1>1. Init => FreeSilent /\ ToldTheTruth /\ Events!Init
    BY DEF Init, FreeSilent, ToldTheTruth, Events!Init
  <1> QED
    BY <1>1, InitTables DEF ToldInv

LEMMA ToldStep == ToldInv /\ [Next]_vars => StepTells
  <1> SUFFICES ASSUME ToldInv, [Next]_vars
               PROVE  StepTells
    OBVIOUS
  <1>0. /\ live \subseteq Objs
        /\ m_eState \in [Objs -> States]
        /\ m_uiCloseReason \in [Objs -> Reasons]
        /\ told \in [Objs -> {"nothing", "connected", "disconnected", "closed", "closed twice"}]
        /\ \A o \in live : Truth(o)
    BY DEF ToldInv, TablesInv, TypeOK, ToldTheTruth, Truth
  <1>1. ASSUME NEW a \in Addrs, HandleHandShake2(a)
        PROVE  StepTells
    <2>1. CASE UNCHANGED objVars
      BY <2>1, KeepTold DEF objVars
    <2>2. CASE \E o \in Objs \ live : \E id : NewConn(o, id, a)
      BY <2>2, NewConnTells
    <2> QED
      BY <1>1, <2>1, <2>2 DEF HandleHandShake2
  <1>2. ASSUME NEW a \in Addrs, NEW i \in IDs, HandleReconnect(a, i)
        PROVE  StepTells
    <2>1. PICK c \in GetConnByID(i) :
            /\ m_eState[c] \in {"DISCONNET", "ESTABLISHED"}
            /\ m_eState' = [m_eState EXCEPT ![c] = "ESTABLISHED"]
            /\ told' = [told EXCEPT ![c] = "connected"]
      BY <1>2 DEF HandleReconnect
    <2>2. c \in live /\ c \in Objs
      BY <1>0 DEF GetConnByID
    <2>3. UNCHANGED <<live, m_uiCloseReason>>
      BY <1>2 DEF HandleReconnect
    <2>4. Truth(c)' /\ Tells(c)
      BY <1>0, <2>1, <2>2 DEF Truth, Tells, Events!Follows
    <2> QED
      BY <1>0, <2>1, <2>2, <2>3, <2>4, OneTells
  <1>3. ASSUME NEW a \in Addrs, RecvWhileDisconnected(a)
        PROVE  StepTells
    BY <1>3, KeepTold DEF RecvWhileDisconnected
  <1>4. ASSUME NEW a \in Addrs, RecvUnreliable(a)
        PROVE  StepTells
    BY <1>4, KeepTold DEF RecvUnreliable
  <1>5. ASSUME NEW a \in Addrs, RecvReliable(a)
        PROVE  StepTells
    <2>1. UNCHANGED <<live, m_uiCloseReason>>
      BY <1>5 DEF RecvReliable
    <2>2. PICK c \in live :
            \/ UNCHANGED <<m_eState, told>>
            \/ DisConnect({c} \intersect {o \in Objs : m_eState[o] = "ESTABLISHED"})
      BY <1>5 DEF RecvReliable, Receives
    <2>3. CASE m_eState[c] = "ESTABLISHED"
               /\ DisConnect({c} \intersect {o \in Objs : m_eState[o] = "ESTABLISHED"})
      <3>1. DisConnect({c})
        <4>1. {c} \intersect {o \in Objs : m_eState[o] = "ESTABLISHED"} = {c}
          BY <1>0, <2>3
        <4> QED
          BY <2>3, <4>1
      <3>2. m_eState'[c] = "DISCONNET" /\ told'[c] = "disconnected"
        BY <1>0, <3>1 DEF DisConnect
      <3>3. \A o \in Objs \ {c} : m_eState'[o] = m_eState[o] /\ told'[o] = told[o]
        BY <1>0, <3>1 DEF DisConnect
      <3>4. Truth(c)' /\ Tells(c)
        BY <1>0, <2>3, <3>2 DEF Truth, Tells, Events!Follows
      <3> QED
        BY <2>1, <3>3, <3>4, OneTells
    <2>4. CASE m_eState[c] # "ESTABLISHED"
               /\ DisConnect({c} \intersect {o \in Objs : m_eState[o] = "ESTABLISHED"})
      <3>1. DisConnect({})
        <4>1. {c} \intersect {o \in Objs : m_eState[o] = "ESTABLISHED"} = {}
          BY <2>4
        <4> QED
          BY <2>4, <4>1
      <3>2. m_eState' = m_eState
        BY <1>0, <3>1 DEF DisConnect
      <3>3. told' = told
        BY <1>0, <3>1 DEF DisConnect
      <3> QED
        BY <2>1, <3>2, <3>3, KeepTold
    <2> QED
      BY <2>1, <2>2, <2>3, <2>4, KeepTold
  <1>6. ASSUME NEW a \in Addrs, NEW i \in IDs, HandleHeartBeat(a, i)
        PROVE  StepTells
    BY <1>6, KeepTold DEF HandleHeartBeat
  <1>7. ASSUME NEW c \in live, m_eState[c] # "CLOSE",
               NEW reason, reason = "NONE" => m_eState[c] = "DISCONNET",
               CloseConnect(c, reason), live' = live
        PROVE  StepTells
    <2>1. /\ LoseAndClose({}, {c}, [o \in Objs |-> reason])
          /\ {c} \in SUBSET live /\ {} \in SUBSET live
          /\ \A o \in {c} : m_eState[o] # "CLOSE"
          /\ \A o \in {} : m_eState[o] = "ESTABLISHED"
          /\ \A o \in {c} : [p \in Objs |-> reason][o] = "NONE"
                              => m_eState[o] \in {"DISCONNET", "TIME_WAIT"}
      BY <1>0, <1>7 DEF CloseConnect
    <2> QED
      BY <1>7, <2>1, LoseAndCloseTells
  <1>8. ASSUME NEW a \in Addrs, NEW i \in IDs, RecvClose(a, i)
        PROVE  StepTells
    <2>1. PICK c \in live : m_eState[c] # "CLOSE" /\ CloseConnect(c, "CLIENT_FIN")
      BY <1>8 DEF RecvClose, Receives
    <2>2. live' = live
      BY <1>8 DEF RecvClose
    <2> QED
      BY <1>7, <2>1, <2>2
  <1>9. ASSUME NEW a \in Addrs, RecvFinAck(a)
        PROVE  StepTells
    <2>1. PICK c \in live : m_eState[c] = "FIN_WAIT1"
                            /\ m_eState' = [m_eState EXCEPT ![c] = "FIN_WAIT2"]
      BY <1>9 DEF RecvFinAck, Receives
    <2>2. UNCHANGED <<live, told, m_uiCloseReason>>
      BY <1>9 DEF RecvFinAck
    <2>3. Truth(c)' /\ Tells(c)
      BY <1>0, <2>1, <2>2 DEF Truth, Tells
    <2> QED
      BY <1>0, <2>1, <2>2, <2>3, OneTells
  <1>10. ASSUME NEW a \in Addrs, NEW i \in IDs, HandleFin(a, i)
         PROVE  StepTells
    <2>1. PICK c \in live : /\ m_eState[c] = "FIN_WAIT2"
                            /\ m_eState' = [m_eState EXCEPT ![c] = "TIME_WAIT"]
                            /\ told' = [told EXCEPT ![c] = ToldClose(c)]
      BY <1>10 DEF HandleFin, Receives
    <2>2. UNCHANGED <<live, m_uiCloseReason>>
      BY <1>10 DEF HandleFin
    <2>3. Truth(c)' /\ Tells(c)
      BY <1>0, <2>1 DEF Truth, Tells, ToldClose, Events!Follows
    <2> QED
      BY <1>0, <2>1, <2>2, <2>3, OneTells
  <1>11. ASSUME NEW i \in IDs, BindConnect(i)
         PROVE  StepTells
    BY <1>11, KeepTold DEF BindConnect
  <1>12. ASSUME NEW i \in IDs, NEW reason, FinConnect(i, reason)
         PROVE  StepTells
    <2>1. live' = live
      BY <1>12 DEF FinConnect
    <2>2. ASSUME NEW c \in GetConnByID(i), m_eState[c] = "DISCONNET", CloseConnect(c, reason)
          PROVE  StepTells
      BY <1>7, <2>1, <2>2 DEF GetConnByID
    <2>3. ASSUME NEW c \in GetConnByID(i), m_eState[c] = "ESTABLISHED",
                 m_eState' = [m_eState EXCEPT ![c] = "FIN_WAIT1"],
                 m_uiCloseReason' = [m_uiCloseReason EXCEPT ![c] = reason],
                 told' = told
          PROVE  StepTells
      <3>1. c \in live
        BY DEF GetConnByID
      <3>2. Truth(c)' /\ Tells(c)
        BY <1>0, <2>3, <3>1 DEF Truth, Tells
      <3> QED
        BY <1>0, <2>1, <2>3, <3>1, <3>2, OneTells
    <2> QED
      BY <1>12, <2>2, <2>3 DEF FinConnect
  <1>13. CASE Second
    BY <1>13, KeepTold DEF Second
  <1>14. CASE Tick1S
    <2>1. LoseAndClose(HeartbeatLost, TickCloses, TickReason) /\ live' = live
      BY <1>14 DEF Tick1S
    <2>2. /\ TickCloses \in SUBSET live /\ \A o \in TickCloses : m_eState[o] # "CLOSE"
          /\ HeartbeatLost \in SUBSET live
          /\ \A o \in HeartbeatLost : m_eState[o] = "ESTABLISHED"
      BY <1>14, VisitedLive DEF Tick1S, TickCloses, HeartbeatLost
    <2>3. \A o \in TickCloses : TickReason[o] = "NONE" => m_eState[o] \in {"DISCONNET", "TIME_WAIT"}
      BY <1>0, <2>2 DEF TickReason
    <2> QED
      BY <2>1, <2>2, <2>3, LoseAndCloseTells
  <1>15. CASE Proc
    BY <1>15, ProcTells
  <1>16. CASE ProcSpins
    BY <1>16, KeepTold DEF ProcSpins, objVars
  <1>17. CASE UseDangling
    BY <1>17, KeepTold DEF UseDangling, objVars
  <1>18. CASE UNCHANGED vars
    BY <1>18, KeepTold DEF vars, objVars
  <1> QED
    BY <1>1, <1>2, <1>3, <1>4, <1>5, <1>6, <1>8, <1>9, <1>10, <1>11, <1>12, <1>13, <1>14,
       <1>15, <1>16, <1>17, <1>18 DEF Next, Packet, MainMsg, Stopped

LEMMA ToldInvStep == ToldInv /\ [Next]_vars => ToldInv'
  BY ToldStep, TablesStep DEF ToldInv, StepTells

\* The main thread's last news of a connection agrees with its state.
THEOREM NewsAreTrue == Spec => []ToldTheTruth
  <1>1. ToldInv => ToldTheTruth
    BY DEF ToldInv
  <1> QED
    BY InitTold, ToldInvStep, <1>1, PTL DEF Spec

\* NetConnect implements ConnEvents.
THEOREM ImplementsConnEvents == Spec => EventsInOrder
  <1>1. ToldInv /\ [Next]_vars => [Events!Next]_told
    <2> SUFFICES ASSUME ToldInv, [Next]_vars
                 PROVE  Events!Next
      OBVIOUS
    <2>1. TypeOK'
      BY TypeStep DEF ToldInv, TablesInv
    <2>2. told' \in [Objs -> Events!Phases]
      BY <2>1 DEF TypeOK, Events!Phases
    <2>3. \A o \in Objs : Tells(o)
      BY ToldStep DEF StepTells
    <2> QED
      BY <2>2, <2>3 DEF Events!Next, Tells
  <1> QED
    BY InitTold, ToldInvStep, <1>1, PTL DEF Spec, EventsInOrder, Events!Spec
-------------------------------------------------------------------------------
(* The life of one connection. *)

\* The states a connection can go through (EnmNetConnState): broken and back as often
\* as it likes, the goodbye one way, and closed from everywhere.
StateMoves ==
    {<<"ESTABLISHED", "DISCONNET">>, <<"DISCONNET", "ESTABLISHED">>,
     <<"ESTABLISHED", "FIN_WAIT1">>, <<"FIN_WAIT1", "FIN_WAIT2">>, <<"FIN_WAIT2", "TIME_WAIT">>}
        \cup {<<s, "CLOSE">> : s \in States \ {"CLOSE"}}

\* What a step may do to a connection that goes on to exist.
Lives(o) ==
    /\ m_eState'[o] # m_eState[o] => <<m_eState[o], m_eState'[o]>> \in StateMoves
    /\ m_ulConnID'[o] = m_ulConnID[o]
    /\ m_ullBindData[o] => m_ullBindData'[o]
    /\ m_uiCloseReason'[o] # m_uiCloseReason[o] =>
          m_eState'[o] \in {"FIN_WAIT1", "CLOSE"} \ {m_eState[o]}
    /\ m_stClientAddr'[o] # m_stClientAddr[o] =>
          m_eState[o] \in {"DISCONNET", "ESTABLISHED"} /\ m_eState'[o] = "ESTABLISHED"

\* A connection keeps its id and its bind data until it is freed, it is freed only when
\* it is closed, and from the goodbye on it has one address and no way back.
StepLives == \A o \in live : IF o \in live' THEN Lives(o) ELSE m_eState[o] = "CLOSE"
LifeCycle == [][StepLives]_vars

LEMMA KeepLives ==
    ASSUME live \subseteq live',
           UNCHANGED <<m_eState, m_ulConnID, m_stClientAddr, m_uiCloseReason>>,
           \A o \in live : m_ullBindData[o] => m_ullBindData'[o]
    PROVE  StepLives
  BY DEF StepLives, Lives

\* A step that changes one live connection's state, reason or address.
LEMMA OneLives ==
    ASSUME live' = live, UNCHANGED <<m_ulConnID, m_ullBindData>>, NEW c \in live, Lives(c),
           \A o \in live \ {c} : /\ m_eState'[o] = m_eState[o]
                                 /\ m_uiCloseReason'[o] = m_uiCloseReason[o]
                                 /\ m_stClientAddr'[o] = m_stClientAddr[o]
    PROVE  StepLives
  <1>1. ASSUME NEW o \in live, o # c
        PROVE  Lives(o)
    BY <1>1 DEF Lives
  <1> QED
    BY <1>1, Zenon DEF StepLives

LEMMA LoseAndCloseLives ==
    ASSUME TypeOK,
           NEW L \in SUBSET live, \A o \in L : m_eState[o] = "ESTABLISHED",
           NEW S \in SUBSET live, \A o \in S : m_eState[o] # "CLOSE",
           NEW why, LoseAndClose(L, S, why), live' = live,
           UNCHANGED <<m_ulConnID, m_ullBindData, m_stClientAddr>>
    PROVE  StepLives
  <1>1. live \subseteq Objs /\ m_eState \in [Objs -> States]
    BY DEF TypeOK
  <1>2. \A o \in Objs :
          /\ m_eState'[o] = IF o \in S THEN "CLOSE" ELSE IF o \in L THEN "DISCONNET" ELSE m_eState[o]
          /\ m_uiCloseReason'[o] = IF o \in S THEN why[o] ELSE m_uiCloseReason[o]
    BY DEF LoseAndClose
  <1>3. ASSUME NEW o \in live
        PROVE  Lives(o)
    <2>1. o \in Objs /\ m_eState[o] \in States
      BY <1>1
    <2>2. CASE o \in S
      BY <1>2, <2>1, <2>2 DEF Lives, StateMoves
    <2>3. CASE o \notin S /\ o \in L
      BY <1>2, <2>1, <2>3 DEF Lives, StateMoves
    <2>4. CASE o \notin S /\ o \notin L
      BY <1>2, <2>1, <2>4 DEF Lives
    <2> QED
      BY <2>2, <2>3, <2>4
  <1> QED
    BY <1>3, Zenon DEF StepLives

LEMMA CloseOneLives ==
    ASSUME TypeOK, NEW c \in live, m_eState[c] # "CLOSE", NEW reason, CloseConnect(c, reason),
           live' = live, UNCHANGED <<m_ulConnID, m_ullBindData, m_stClientAddr>>
    PROVE  StepLives
  <1>1. /\ LoseAndClose({}, {c}, [o \in Objs |-> reason])
        /\ {c} \in SUBSET live /\ {} \in SUBSET live
        /\ \A o \in {c} : m_eState[o] # "CLOSE"
        /\ \A o \in {} : m_eState[o] = "ESTABLISHED"
    BY DEF CloseConnect
  <1> QED
    BY <1>1, LoseAndCloseLives

LEMMA ProcLives ==
    ASSUME TablesInv, Proc
    PROVE  StepLives
  <1>1. live \subseteq Objs /\ TypeOK
    BY DEF TablesInv, TypeOK
  <1>2. Freed = {o \in live : m_eState[o] = "CLOSE"}
    BY <1>1, FreedAreClosed DEF TablesInv
  <1>3. live' = live \ Freed
    BY DEF Proc
  <1>4. PICK Dead \in SUBSET {o \in Visited : m_eState[o] = "ESTABLISHED"} :
          m_eState' = [o \in Objs |-> IF o \in Dead THEN "DISCONNET" ELSE m_eState[o]]
    BY DEF Proc
  <1>5. ASSUME NEW o \in live'
        PROVE  Lives(o)
    <2>1. o \in Objs /\ o \notin Freed
      BY <1>1, <1>3, <1>5
    <2>2. /\ m_ulConnID'[o] = m_ulConnID[o] /\ m_stClientAddr'[o] = m_stClientAddr[o]
          /\ m_uiCloseReason'[o] = m_uiCloseReason[o] /\ m_ullBindData'[o] = m_ullBindData[o]
      <3>1. m_ullBindData'[o] = (m_ullBindData[o] /\ o \notin Freed) /\ m_ullBindData[o] \in BOOLEAN
        BY <1>1, <2>1, Zenon DEF Proc, TypeOK
      <3> QED
        BY <2>1, <3>1 DEF Proc
    <2>3. CASE o \in Dead
      BY <1>4, <2>1, <2>2, <2>3 DEF Lives, StateMoves
    <2>4. CASE o \notin Dead
      BY <1>4, <2>1, <2>2, <2>4 DEF Lives
    <2> QED
      BY <2>3, <2>4
  <1> QED
    BY <1>2, <1>3, <1>5, Zenon DEF StepLives

LEMMA LivesStep == TablesInv /\ [Next]_vars => [StepLives]_vars
  <1> SUFFICES ASSUME TablesInv, Next
               PROVE  StepLives
    OBVIOUS
  <1>0. /\ TypeOK /\ live \subseteq Objs
        /\ m_eState \in [Objs -> States] /\ m_uiCloseReason \in [Objs -> Reasons]
        /\ m_stClientAddr \in [Objs -> Addrs] /\ m_ullBindData \in [Objs -> BOOLEAN]
    BY DEF TablesInv, TypeOK
  <1>1. ASSUME NEW a \in Addrs, HandleHandShake2(a)
        PROVE  StepLives
    <2>1. CASE UNCHANGED objVars
      BY <2>1, KeepLives DEF objVars
    <2>2. CASE \E o \in Objs \ live : \E id : NewConn(o, id, a)
      <3>0. PICK o \in Objs \ live : \E id : NewConn(o, id, a)
        BY <2>2
      <3>1. PICK id : NewConn(o, id, a)
        BY <3>0
      <3>2. \A p \in live : /\ p \in live' /\ m_eState'[p] = m_eState[p]
                            /\ m_ulConnID'[p] = m_ulConnID[p]
                            /\ m_ullBindData'[p] = m_ullBindData[p]
                            /\ m_uiCloseReason'[p] = m_uiCloseReason[p]
                            /\ m_stClientAddr'[p] = m_stClientAddr[p]
        BY <1>0, <3>1 DEF NewConn, TypeOK
      <3> QED
        BY <3>2 DEF StepLives, Lives
    <2> QED
      BY <1>1, <2>1, <2>2 DEF HandleHandShake2
  <1>2. ASSUME NEW a \in Addrs, NEW i \in IDs, HandleReconnect(a, i)
        PROVE  StepLives
    <2>1. PICK c \in GetConnByID(i) :
            /\ m_eState[c] \in {"DISCONNET", "ESTABLISHED"}
            /\ m_eState' = [m_eState EXCEPT ![c] = "ESTABLISHED"]
            /\ m_stClientAddr' = [m_stClientAddr EXCEPT ![c] = a]
      BY <1>2 DEF HandleReconnect
    <2>2. c \in live /\ c \in Objs
      BY <1>0 DEF GetConnByID
    <2>3. UNCHANGED <<live, m_ulConnID, m_ullBindData, m_uiCloseReason>>
      BY <1>2 DEF HandleReconnect
    <2>4. Lives(c)
      BY <1>0, <2>1, <2>2, <2>3 DEF Lives, StateMoves
    <2> QED
      BY <1>0, <2>1, <2>2, <2>3, <2>4, OneLives
  <1>3. ASSUME NEW a \in Addrs, RecvReliable(a)
        PROVE  StepLives
    <2>1. UNCHANGED <<live, m_ulConnID, m_stClientAddr, m_ullBindData, m_uiCloseReason>>
      BY <1>3 DEF RecvReliable
    <2>2. \/ UNCHANGED m_eState
          \/ \E c \in Objs : DisConnect({c} \intersect {o \in Objs : m_eState[o] = "ESTABLISHED"})
      BY <1>3 DEF RecvReliable
    <2>3. ASSUME NEW c \in Objs, DisConnect({c} \intersect {o \in Objs : m_eState[o] = "ESTABLISHED"})
          PROVE  \A o \in live : m_eState'[o] # m_eState[o] => <<m_eState[o], m_eState'[o]>> \in StateMoves
      BY <1>0, <2>3 DEF DisConnect, StateMoves
    <2>4. \A o \in live : m_eState'[o] # m_eState[o] => <<m_eState[o], m_eState'[o]>> \in StateMoves
      BY <2>2, <2>3
    <2> QED
      BY <2>1, <2>4 DEF StepLives, Lives
  <1>4. ASSUME NEW a \in Addrs, NEW i \in IDs, RecvClose(a, i)
        PROVE  StepLives
    <2>1. PICK c \in live : m_eState[c] # "CLOSE" /\ CloseConnect(c, "CLIENT_FIN")
      BY <1>4 DEF RecvClose, Receives
    <2>2. UNCHANGED <<live, m_ulConnID, m_ullBindData, m_stClientAddr>>
      BY <1>4 DEF RecvClose
    <2> QED
      BY <1>0, <2>1, <2>2, CloseOneLives
  <1>5. ASSUME NEW a \in Addrs, RecvFinAck(a)
        PROVE  StepLives
    <2>1. PICK c \in live : m_eState[c] = "FIN_WAIT1"
                            /\ m_eState' = [m_eState EXCEPT ![c] = "FIN_WAIT2"]
      BY <1>5 DEF RecvFinAck, Receives
    <2>2. UNCHANGED <<live, m_ulConnID, m_ullBindData, m_uiCloseReason, m_stClientAddr>>
      BY <1>5 DEF RecvFinAck
    <2>3. Lives(c)
      BY <1>0, <2>1, <2>2 DEF Lives, StateMoves
    <2> QED
      BY <1>0, <2>1, <2>2, <2>3, OneLives
  <1>6. ASSUME NEW a \in Addrs, NEW i \in IDs, HandleFin(a, i)
        PROVE  StepLives
    <2>1. PICK c \in live : m_eState[c] = "FIN_WAIT2"
                            /\ m_eState' = [m_eState EXCEPT ![c] = "TIME_WAIT"]
      BY <1>6 DEF HandleFin, Receives
    <2>2. UNCHANGED <<live, m_ulConnID, m_ullBindData, m_uiCloseReason, m_stClientAddr>>
      BY <1>6 DEF HandleFin
    <2>3. Lives(c)
      BY <1>0, <2>1, <2>2 DEF Lives, StateMoves
    <2> QED
      BY <1>0, <2>1, <2>2, <2>3, OneLives
  <1>7. ASSUME NEW i \in IDs, BindConnect(i)
        PROVE  StepLives
    <2>1. UNCHANGED <<live, m_eState, m_ulConnID, m_stClientAddr, m_uiCloseReason>>
      BY <1>7 DEF BindConnect
    <2>2. \A o \in live : m_ullBindData[o] => m_ullBindData'[o]
      BY <1>0, <1>7 DEF BindConnect
    <2> QED
      BY <2>1, <2>2, KeepLives
  <1>8. ASSUME NEW i \in IDs, NEW reason, FinConnect(i, reason)
        PROVE  StepLives
    <2>1. UNCHANGED <<live, m_ulConnID, m_ullBindData, m_stClientAddr>>
      BY <1>8 DEF FinConnect
    <2>2. ASSUME NEW c \in GetConnByID(i), m_eState[c] = "DISCONNET", CloseConnect(c, reason)
          PROVE  StepLives
      BY <1>0, <2>1, <2>2, CloseOneLives DEF GetConnByID
    <2>3. ASSUME NEW c \in GetConnByID(i), m_eState[c] = "ESTABLISHED",
                 m_eState' = [m_eState EXCEPT ![c] = "FIN_WAIT1"],
                 m_uiCloseReason' = [m_uiCloseReason EXCEPT ![c] = reason]
          PROVE  StepLives
      <3>1. c \in live
        BY DEF GetConnByID
      <3>2. Lives(c)
        BY <1>0, <2>1, <2>3, <3>1 DEF Lives, StateMoves
      <3> QED
        BY <1>0, <2>1, <2>3, <3>1, <3>2, OneLives
    <2> QED
      BY <1>8, <2>2, <2>3 DEF FinConnect
  <1>9. CASE Tick1S
    <2>1. /\ LoseAndClose(HeartbeatLost, TickCloses, TickReason) /\ live' = live
          /\ UNCHANGED <<m_ulConnID, m_ullBindData, m_stClientAddr>>
      BY <1>9 DEF Tick1S
    <2>2. /\ TickCloses \in SUBSET live /\ \A o \in TickCloses : m_eState[o] # "CLOSE"
          /\ HeartbeatLost \in SUBSET live
          /\ \A o \in HeartbeatLost : m_eState[o] = "ESTABLISHED"
      BY <1>9, VisitedLive DEF Tick1S, TickCloses, HeartbeatLost
    <2> QED
      BY <1>0, <2>1, <2>2, LoseAndCloseLives
  <1>10. CASE Proc
    BY <1>10, ProcLives
  <1>11. CASE \/ \E a \in Addrs : RecvWhileDisconnected(a) \/ RecvUnreliable(a)
              \/ \E a \in Addrs, i \in IDs : HandleHeartBeat(a, i)
              \/ Second \/ ProcSpins \/ UseDangling \/ Stopped
    <2>1. UNCHANGED <<live, m_eState, m_ulConnID, m_stClientAddr, m_uiCloseReason, m_ullBindData>>
      BY <1>11 DEF RecvWhileDisconnected, RecvUnreliable, HandleHeartBeat, Second, ProcSpins,
           UseDangling, Stopped, objVars, vars
    <2> QED
      BY <2>1, KeepLives
  <1> QED
    BY <1>1, <1>2, <1>3, <1>4, <1>5, <1>6, <1>7, <1>8, <1>9, <1>10, <1>11 DEF Next, Packet, MainMsg

\* A connection keeps its id and its bind data until it is freed, is freed only when it is
\* closed, goes through its states in the one order the FIN exchange allows, and changes
\* its address and its close reason nowhere but where a handler means to (LifeCycle).
THEOREM LivesOnce == Spec => LifeCycle
  <1> QED
    BY LivesStep, TablesInvariance, PTL DEF Spec, LifeCycle
-------------------------------------------------------------------------------
(* As long as clients keep their addresses, m_mapConn holds the connections and *)
(* nothing else, and no deleted object is touched.                              *)

ExactInv == TablesInv /\ IndexExact /\ NoUseAfterDelete

LEMMA KeepExact ==
    ASSUME ExactInv, UNCHANGED <<live, m_stClientAddr, m_mapConn, net>>
    PROVE  IndexExact' /\ NoUseAfterDelete'
  BY DEF ExactInv, IndexExact, NoUseAfterDelete

LEMMA ExactNoDangling ==
    ASSUME IndexExact
    PROVE  Dangling = {}
  BY DEF IndexExact, Dangling, Visited

LEMMA NewConnExact ==
    ASSUME ExactInv, NEW a \in Addrs, NEW id, NEW o \in Objs \ live, NewConn(o, id, a)
    PROVE  IndexExact'
  <1>1. /\ live \subseteq Objs
        /\ m_stClientAddr \in [Objs -> Addrs]
        /\ m_mapConn \in [Addrs -> Objs \union {NoObj}]
    BY DEF ExactInv, TablesInv, TypeOK
  <1>2. /\ live' = live \union {o} /\ m_stClientAddr'[o] = a /\ m_mapConn'[a] = o
        /\ \A p \in Objs \ {o} : m_stClientAddr'[p] = m_stClientAddr[p]
        /\ \A b \in Addrs \ {a} : m_mapConn'[b] = m_mapConn[b]
    BY <1>1 DEF NewConn
  <1> SUFFICES ASSUME NEW b \in Addrs, m_mapConn'[b] # NoObj
               PROVE  m_mapConn'[b] \in live' /\ m_stClientAddr'[m_mapConn'[b]] = b
    BY DEF IndexExact
  <1>3. CASE b = a
    BY <1>2, <1>3
  <1>4. CASE b # a
    <2>1. m_mapConn'[b] = m_mapConn[b]
      BY <1>2, <1>4
    <2>2. m_mapConn[b] \in live /\ m_stClientAddr[m_mapConn[b]] = b
      BY <2>1 DEF ExactInv, IndexExact
    <2> QED
      BY <1>1, <1>2, <2>1, <2>2
  <1> QED
    BY <1>3, <1>4

LEMMA ProcExact ==
    ASSUME ExactInv, Proc
    PROVE  IndexExact'
  <1>1. /\ live \subseteq Objs /\ live' = live \ Freed
        /\ m_mapConn' = [a \in Addrs |-> IF \E o \in Freed : m_stClientAddr[o] = a
                                         THEN NoObj ELSE m_mapConn[a]]
        /\ \A o \in Objs \ Freed : m_stClientAddr'[o] = m_stClientAddr[o]
    BY DEF Proc, WithoutFreed, ExactInv, TablesInv, TypeOK
  <1> SUFFICES ASSUME NEW b \in Addrs, m_mapConn'[b] # NoObj
               PROVE  m_mapConn'[b] \in live' /\ m_stClientAddr'[m_mapConn'[b]] = b
    BY DEF IndexExact
  <1>2. m_mapConn'[b] = m_mapConn[b] /\ ~\E o \in Freed : m_stClientAddr[o] = b
    BY <1>1
  <1>3. m_mapConn[b] \in live /\ m_stClientAddr[m_mapConn[b]] = b
    BY <1>2 DEF ExactInv, IndexExact
  <1> QED
    BY <1>1, <1>2, <1>3

LEMMA ExactStep ==
    ASSUME Roams = {}
    PROVE  ExactInv /\ [Next]_vars => ExactInv'
  <1> SUFFICES ASSUME ExactInv, [Next]_vars
               PROVE  IndexExact' /\ NoUseAfterDelete'
    BY TablesStep DEF ExactInv
  <1>1. ASSUME NEW a \in Addrs, HandleHandShake2(a)
        PROVE  IndexExact' /\ NoUseAfterDelete'
    <2>1. NoUseAfterDelete'
      <3>1. net' = "running"
        BY <1>1 DEF HandleHandShake2
      <3> QED
        BY <3>1 DEF NoUseAfterDelete
    <2>2. CASE UNCHANGED <<objVars, m_mapConn>>
      <3>1. UNCHANGED <<live, m_stClientAddr, m_mapConn>>
        BY <2>2 DEF objVars
      <3>2. IndexExact
        BY DEF ExactInv
      <3> QED
        BY <2>1, <3>1, <3>2 DEF IndexExact
    <2>3. CASE \E o \in Objs \ live : \E id : NewConn(o, id, a)
      BY <2>1, <2>3, NewConnExact
    <2> QED
      BY <1>1, <2>1, <2>2, <2>3 DEF HandleHandShake2
  <1>2. ASSUME NEW a \in Addrs, NEW i \in IDs, HandleReconnect(a, i)
        PROVE  FALSE
    BY <1>2 DEF HandleReconnect
  <1>3. ASSUME NEW a \in Addrs, RecvWhileDisconnected(a)
        PROVE  IndexExact' /\ NoUseAfterDelete'
    BY <1>3, KeepExact DEF RecvWhileDisconnected, mgrVars
  <1>4. ASSUME NEW a \in Addrs, RecvUnreliable(a)
        PROVE  IndexExact' /\ NoUseAfterDelete'
    BY <1>4, KeepExact DEF RecvUnreliable, Receives, mgrVars
  <1>5. ASSUME NEW a \in Addrs, RecvReliable(a)
        PROVE  IndexExact' /\ NoUseAfterDelete'
    BY <1>5, KeepExact DEF RecvReliable, Receives, mgrVars
  <1>6. ASSUME NEW a \in Addrs, NEW i \in IDs, HandleHeartBeat(a, i)
        PROVE  IndexExact' /\ NoUseAfterDelete'
    BY <1>6, KeepExact DEF HandleHeartBeat, Receives, mgrVars
  <1>7. ASSUME NEW a \in Addrs, NEW i \in IDs, RecvClose(a, i)
        PROVE  IndexExact' /\ NoUseAfterDelete'
    BY <1>7, KeepExact DEF RecvClose, Receives
  <1>8. ASSUME NEW a \in Addrs, RecvFinAck(a)
        PROVE  IndexExact' /\ NoUseAfterDelete'
    BY <1>8, KeepExact DEF RecvFinAck, Receives, mgrVars
  <1>9. ASSUME NEW a \in Addrs, NEW i \in IDs, HandleFin(a, i)
        PROVE  IndexExact' /\ NoUseAfterDelete'
    BY <1>9, KeepExact DEF HandleFin, Receives, mgrVars
  <1>10. ASSUME NEW i \in IDs, BindConnect(i)
         PROVE  IndexExact' /\ NoUseAfterDelete'
    BY <1>10, KeepExact DEF BindConnect, mgrVars
  <1>11. ASSUME NEW i \in IDs, NEW reason, FinConnect(i, reason)
         PROVE  IndexExact' /\ NoUseAfterDelete'
    BY <1>11, KeepExact DEF FinConnect
  <1>12. CASE Second
    BY <1>12, KeepExact DEF Second, mgrVars
  <1>13. CASE Tick1S
    BY <1>13, KeepExact DEF Tick1S
  <1>14. CASE Proc
    <2>1. NoUseAfterDelete'
      BY <1>14 DEF Proc, WithoutFreed, ExactInv, NoUseAfterDelete
    <2> QED
      BY <1>14, <2>1, ProcExact
  <1>15. CASE ProcSpins
    BY <1>15 DEF ProcSpins, objVars, mgrVars, ExactInv, IndexExact, NoUseAfterDelete
  <1>16. CASE UseDangling
    BY <1>16, ExactNoDangling DEF UseDangling, ExactInv
  <1>17. CASE UNCHANGED vars
    BY <1>17, KeepExact DEF vars, objVars, mgrVars
  <1> QED
    BY <1>1, <1>2, <1>3, <1>4, <1>5, <1>6, <1>7, <1>8, <1>9, <1>10, <1>11, <1>12, <1>13,
       <1>14, <1>15, <1>16, <1>17 DEF Next, Packet, MainMsg, Stopped

\* Clients that keep their addresses cannot make a handler touch a deleted object.
THEOREM StayingIsSafe ==
    ASSUME Roams = {}
    PROVE  Spec => [](IndexExact /\ NoUseAfterDelete)
  <1>1. Init => ExactInv
    <2>1. Init => IndexExact /\ NoUseAfterDelete
      BY DEF Init, IndexExact, NoUseAfterDelete
    <2> QED
      BY <2>1, InitTables DEF ExactInv
  <1>2. ExactInv => IndexExact /\ NoUseAfterDelete
    BY DEF ExactInv
  <1> QED
    BY <1>1, <1>2, ExactStep, PTL DEF Spec

\* Then no handler and no step of Proc touches a connection that is deleted (NoUseAfterDelete).
THEOREM StayingUsesNoDeleted ==
    ASSUME Roams = {}
    PROVE  Spec => []NoUseAfterDelete
  BY StayingIsSafe, PTL
===============================================================================
