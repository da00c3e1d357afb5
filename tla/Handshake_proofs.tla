---------------------------- MODULE Handshake_proofs ----------------------------
(* What holds of the handshake for every number of clients, addresses, secrets and  *)
(* packets, and for every lifetime of a cookie: cookies keep connections from being *)
(* made for addresses nobody has, and a calm network cannot give the two sides      *)
(* of a connection different keys.                                                  *)
EXTENDS Handshake, TLAPS

\* A HANDSHAKE2 under way is as old as its cookie: since the cookie was made the client
\* had the address it was sent from, and its number made no connection before.
AgeInv ==
    \A p \in net : p.type = "HANDSHAKE2" =>
        /\ gone[p.addr] <= p.cookie.age
        /\ made[p.numA] # None => made[p.numA] <= p.cookie.age

\* What a client and a connection of its address know of each other's secrets, while
\* nothing is repeated and nothing is late.
Agrees(c) ==
    /\ m_ulConnID[c] # 0 => \A p \in net : p.addr # addr[c]
    /\ m_ulConnID[c] # 0 /\ addr[c] \in Connected => key[c] = conns[addr[c]].key
    /\ \A p \in net : p.type = "HANDSHAKE2" /\ p.addr = addr[c] => p.numA = secret[c]
    /\ \A p \in net : p.type = "HANDSHAKE2_ACK" /\ p.succ /\ p.addr = addr[c] /\ addr[c] \in Connected =>
          IF p.isKey THEN p.data = conns[addr[c]].key
                     ELSE conns[addr[c]].key = Key(secret[c], p.data)

CalmInv ==
    mode = "calm" =>
        /\ \A p, q \in net : p.addr = q.addr => p = q
        /\ \A a \in Addrs : a \in Connected /\ conns[a].isDHKey => conns[a].key.numA = conns[a].numA
        /\ \A c \in Clients : Agrees(c)
-------------------------------------------------------------------------------
\* Packets.

\* The fields a packet of each type has.
LEMMA PacketFacts ==
    ASSUME NEW p \in Packet
    PROVE  /\ p.addr \in Addrs
           /\ p.type \in {"HANDSHAKE1", "HANDSHAKE1_ACK", "HANDSHAKE2", "HANDSHAKE2_ACK"}
           /\ p.type = "HANDSHAKE1_ACK" => p.cookie \in CookieType
           /\ p.type = "HANDSHAKE2" => p.cookie \in CookieType /\ p.numA \in Secrets
           /\ p.type = "HANDSHAKE2_ACK" /\ p.succ => /\ p.isKey => p.data \in KeyType
                                                     /\ ~p.isKey => p.data \in Nonces
BY DEF Packet

\* The packets that are sent are packets.
LEMMA MadePackets ==
    ASSUME NEW a \in Addrs
    PROVE  /\ HandShake1(a) \in Packet
           /\ \A cookie \in CookieType : HandShake1Ack(a, cookie) \in Packet
           /\ \A cookie \in CookieType, s \in Secrets : HandShake2(a, cookie, s) \in Packet
           /\ Fail(a) \in Packet
           /\ \A con \in ConnType : Succ(a, con) \in Packet
<1>1. HandShake1(a) \in Packet /\ Fail(a) \in Packet
  BY DEF Packet, HandShake1, Fail
<1>2. \A cookie \in CookieType : HandShake1Ack(a, cookie) \in Packet
  BY DEF Packet, HandShake1Ack
<1>3. \A cookie \in CookieType, s \in Secrets : HandShake2(a, cookie, s) \in Packet
  BY DEF Packet, HandShake2
<1>4. ASSUME NEW con \in ConnType PROVE Succ(a, con) \in Packet
  <2>1. CASE con.isDHKey
    <3>1. con.key.nonce \in Nonces
      BY DEF ConnType, KeyType
    <3>2. Succ(a, con) = [type |-> "HANDSHAKE2_ACK", addr |-> a, succ |-> TRUE, isKey |-> FALSE, data |-> con.key.nonce]
      BY <2>1 DEF Succ
    <3>3. Succ(a, con) \in [type : {"HANDSHAKE2_ACK"}, addr : Addrs, succ : {TRUE}, isKey : {FALSE}, data : Nonces]
      BY <3>1, <3>2
    <3>. QED
      BY <3>3, Zenon DEF Packet
  <2>2. CASE ~con.isDHKey
    <3>1. con.key \in KeyType
      BY DEF ConnType
    <3>2. Succ(a, con) = [type |-> "HANDSHAKE2_ACK", addr |-> a, succ |-> TRUE, isKey |-> TRUE, data |-> con.key]
      BY <2>2 DEF Succ
    <3>3. Succ(a, con) \in [type : {"HANDSHAKE2_ACK"}, addr : Addrs, succ : {TRUE}, isKey : {TRUE}, data : KeyType]
      BY <3>1, <3>2
    <3>. QED
      BY <3>3, Zenon DEF Packet
  <2>. QED
    BY <2>1, <2>2
<1>. QED
  BY <1>1, <1>2, <1>3, <1>4

\* A cookie is one of an age and a key there is.
LEMMA CookieFacts ==
    ASSUME NEW a \in Addrs, NEW age \in 0 .. OldAge, NEW seq \in Nat
    PROVE  Cookie(a, age, seq) \in CookieType
<1>1. SECRET_KEY_NUM \in Nat \ {0}
  BY HandshakeAssumption
<1>2. seq % SECRET_KEY_NUM \in 0 .. SECRET_KEY_NUM - 1
  BY <1>1
<1>. QED
  BY <1>2 DEF Cookie, CookieType

\* A packet leaves what else was under way there, and nothing but its answers comes.
LEMMA AnsweredFacts ==
    ASSUME NEW p, NEW answers, Answered(p, answers)
    PROVE  /\ net' \subseteq net \cup answers
           /\ mode = "calm" => net' = (net \ {p}) \cup answers
BY DEF Answered, Received

\* What is drawn is of those there are to draw from.
LEMMA DrawnFacts ==
    ASSUME NEW all, NEW used, all \ used # {}
    PROVE  Drawn(all, used) \in all
BY DEF Drawn

\* What time makes of a packet.
Aged(cookie) == [cookie EXCEPT !.age = Older(@, OldAge)]
AgedPacket(p) == IF p.type \in {"HANDSHAKE1_ACK", "HANDSHAKE2"} THEN [p EXCEPT !.cookie = Aged(@)] ELSE p

\* Ages are numbers that grow to OldAge.
LEMMA OlderFacts ==
    /\ MAX_HANDSHAKE_COOKIES_TIME \in Nat /\ OldAge \in Nat
    /\ \A x \in 0 .. OldAge : Older(x, OldAge) \in 0 .. OldAge /\ x <= Older(x, OldAge)
    /\ \A x, y \in 0 .. OldAge : x <= y => Older(x, OldAge) <= Older(y, OldAge)
<1>1. MAX_HANDSHAKE_COOKIES_TIME \in Nat
  BY HandshakeAssumption
<1>. QED
  BY <1>1 DEF OldAge, Older

\* Time changes nothing of a packet but the age of its cookie.
LEMMA AgedFacts ==
    ASSUME NEW p \in Packet
    PROVE  /\ AgedPacket(p) \in Packet
           /\ AgedPacket(p).type = p.type /\ AgedPacket(p).addr = p.addr
           /\ p.type = "HANDSHAKE2" => /\ AgedPacket(p).numA = p.numA
                                       /\ AgedPacket(p).cookie.age = Older(p.cookie.age, OldAge)
           /\ p.type = "HANDSHAKE2_ACK" => AgedPacket(p) = p
<1>1. \A cookie \in CookieType : Aged(cookie) \in CookieType /\ Aged(cookie).age = Older(cookie.age, OldAge)
  BY OlderFacts DEF Aged, CookieType
<1>2. CASE p \in [type : {"HANDSHAKE1_ACK"}, addr : Addrs, cookie : CookieType]
  <2>1. AgedPacket(p) = [p EXCEPT !.cookie = Aged(p.cookie)]
    BY <1>2 DEF AgedPacket
  <2>2. AgedPacket(p) = [type |-> "HANDSHAKE1_ACK", addr |-> p.addr, cookie |-> Aged(p.cookie)]
    BY <1>2, <2>1
  <2>3. p.cookie \in CookieType /\ p.addr \in Addrs /\ p.type = "HANDSHAKE1_ACK"
    BY <1>2
  <2>4. AgedPacket(p) \in [type : {"HANDSHAKE1_ACK"}, addr : Addrs, cookie : CookieType]
    BY <1>1, <2>2, <2>3
  <2>5. AgedPacket(p) \in Packet
    BY <2>4, Zenon DEF Packet
  <2>. QED
    BY <1>1, <2>2, <2>3, <2>5
<1>3. CASE p \in [type : {"HANDSHAKE2"}, addr : Addrs, cookie : CookieType, numA : Secrets]
  <2>1. AgedPacket(p) = [p EXCEPT !.cookie = Aged(p.cookie)]
    BY <1>3 DEF AgedPacket
  <2>2. AgedPacket(p) = [type |-> "HANDSHAKE2", addr |-> p.addr, cookie |-> Aged(p.cookie), numA |-> p.numA]
    BY <1>3, <2>1
  <2>3. p.cookie \in CookieType /\ p.addr \in Addrs /\ p.type = "HANDSHAKE2" /\ p.numA \in Secrets
    BY <1>3
  <2>4. AgedPacket(p) \in [type : {"HANDSHAKE2"}, addr : Addrs, cookie : CookieType, numA : Secrets]
    BY <1>1, <2>2, <2>3
  <2>5. AgedPacket(p) \in Packet
    BY <2>4, Zenon DEF Packet
  <2>. QED
    BY <1>1, <2>2, <2>3, <2>5
<1>4. CASE p.type \in {"HANDSHAKE1", "HANDSHAKE2_ACK"}
  BY <1>4 DEF AgedPacket
<1>. QED
  BY <1>2, <1>3, <1>4 DEF Packet

\* A second makes every packet older by one.
LEMMA SecondNet ==
    ASSUME Second
    PROVE  net' = {AgedPacket(p) : p \in net}
BY DEF Second, AgedPacket, Aged
-------------------------------------------------------------------------------
\* Types.

\* Before anything is sent.
LEMMA InitType == Init => TypeOK
<1> SUFFICES ASSUME Init PROVE TypeOK
  OBVIOUS
<1>1. addr \in [Clients -> Addrs] /\ \A c, d \in Clients : addr[c] = addr[d] => c = d
  BY HandshakeAssumption DEF Init
<1>2. SECRET_KEY_NUM \in Nat \ {0} /\ KeyPeriod \in Nat \ {0}
  BY HandshakeAssumption
<1>3. gone \in [Addrs -> 0 .. OldAge]
  BY OlderFacts DEF Init
<1>. QED
  BY <1>1, <1>2, <1>3 DEF Init, TypeOK

\* The server's handlers keep the types.
LEMMA ServerType ==
    ASSUME TypeOK, Server
    PROVE  TypeOK'
<1>0. net \subseteq Packet /\ bKeySeq \in Nat
  BY HandshakeAssumption DEF TypeOK
<1>1. ASSUME NEW p \in net, HandleHandShake1(p) PROVE TypeOK'
  <2>1. p.addr \in Addrs
    BY <1>0, PacketFacts
  <2>2. HandShake1Ack(p.addr, Cookie(p.addr, 0, bKeySeq)) \in Packet
    <3>1. 0 \in 0 .. OldAge
      BY OlderFacts
    <3>2. Cookie(p.addr, 0, bKeySeq) \in CookieType
      BY <1>0, <2>1, <3>1, CookieFacts
    <3>. QED
      BY <2>1, <3>2, MadePackets
  <2>3. net' \subseteq net \cup {HandShake1Ack(p.addr, Cookie(p.addr, 0, bKeySeq))}
    <3>1. Answered(p, IF p.addr \in Connected THEN {} ELSE {HandShake1Ack(p.addr, Cookie(p.addr, 0, bKeySeq))})
      BY <1>1 DEF HandleHandShake1
    <3>. QED
      BY <3>1, AnsweredFacts
  <2>4. net' \subseteq Packet
    BY <1>0, <2>2, <2>3
  <2>. QED
    BY <1>1, <2>4 DEF HandleHandShake1, TypeOK, client, time
<1>2. ASSUME NEW p \in net, HandleHandShake2Again(p) PROVE TypeOK'
  <2>1. p.addr \in Addrs /\ p.addr \in Connected
    BY <1>0, <1>2, PacketFacts DEF HandleHandShake2Again
  <2>2. Succ(p.addr, conns[p.addr]) \in Packet
    <3>1. conns[p.addr] \in ConnType
      BY <2>1 DEF Connected, TypeOK
    <3>. QED
      BY <2>1, <3>1, MadePackets
  <2>3. net' \subseteq net \cup {Succ(p.addr, conns[p.addr])}
    <3>1. PICK same \in BOOLEAN : Answered(p, IF same THEN {Succ(p.addr, conns[p.addr])} ELSE {})
      BY <1>2 DEF HandleHandShake2Again
    <3>. QED
      BY <3>1, AnsweredFacts
  <2>4. net' \subseteq Packet
    BY <1>0, <2>2, <2>3
  <2>. QED
    BY <1>2, <2>4 DEF HandleHandShake2Again, TypeOK, client, time
<1>3. ASSUME NEW p \in net, HandleHandShake2Refuse(p) PROVE TypeOK'
  <2>1. Fail(p.addr) \in Packet
    BY <1>0, PacketFacts, MadePackets
  <2>2. net' \subseteq net \cup {Fail(p.addr)}
    BY <1>3, AnsweredFacts DEF HandleHandShake2Refuse
  <2>3. net' \subseteq Packet
    BY <1>0, <2>1, <2>2
  <2>. QED
    BY <1>3, <2>3 DEF HandleHandShake2Refuse, TypeOK, client, time
<1>4. ASSUME NEW p \in net, NEW isDHKey \in BOOLEAN, NEW isWhole \in BOOLEAN,
             HandleHandShake2New(p, isDHKey, isWhole)
      PROVE  TypeOK'
  <2>1. PICK con : /\ con = [cookie |-> Kept(p.cookie, isWhole), numA |-> p.numA, isDHKey |-> isDHKey,
                               key |-> Key(IF isDHKey THEN p.numA ELSE None, Drawn(Nonces, NoncesInUse))]
                   /\ conns' = [conns EXCEPT ![p.addr] = con]
                   /\ Answered(p, {Succ(p.addr, con)})
    BY <1>4 DEF HandleHandShake2New
  <2>2. p.addr \in Addrs /\ p.cookie \in CookieType /\ p.numA \in Secrets
    BY <1>0, <1>4, PacketFacts DEF HandleHandShake2New
  <2>3. Drawn(Nonces, NoncesInUse) \in Nonces
    BY <1>4, DrawnFacts DEF HandleHandShake2New
  <2>4. Key(IF isDHKey THEN p.numA ELSE None, Drawn(Nonces, NoncesInUse)) \in KeyType
    BY <2>2, <2>3 DEF Key, KeyType
  <2>5. con \in ConnType
    BY <2>1, <2>2, <2>4 DEF ConnType, Kept
  <2>6. conns' \in [Addrs -> ConnType \cup {None}]
    BY <2>1, <2>2, <2>5 DEF TypeOK
  <2>7. Succ(p.addr, con) \in Packet
    BY <2>2, <2>5, MadePackets
  <2>8. net' \subseteq net \cup {Succ(p.addr, con)}
    BY <2>1, AnsweredFacts
  <2>9. net' \subseteq Packet
    BY <1>0, <2>7, <2>8
  <2>10. made' \in [Secrets -> (0 .. OldAge) \cup {None}]
    BY <1>4, <2>2, OlderFacts DEF HandleHandShake2New, TypeOK
  <2>. QED
    BY <1>4, <2>6, <2>9, <2>10 DEF HandleHandShake2New, TypeOK, client, time
<1>5. ASSUME NEW a \in Addrs, FreeConn(a) PROVE TypeOK'
  <2>1. conns' \in [Addrs -> ConnType \cup {None}]
    BY <1>5 DEF FreeConn, TypeOK
  <2>. QED
    BY <1>5, <2>1 DEF FreeConn, TypeOK, client, time
<1>. QED
  BY <1>1, <1>2, <1>3, <1>4, <1>5 DEF Server

\* A client's steps keep them.
LEMMA ClientType ==
    ASSUME TypeOK, NEW c \in Clients, Client(c)
    PROVE  TypeOK'
<1>0. net \subseteq Packet /\ addr[c] \in Addrs
  BY DEF TypeOK
<1>1. CASE SendHandShake1(c)
  <2>1. net' \subseteq Packet
    BY <1>0, <1>1, MadePackets DEF SendHandShake1
  <2>. QED
    BY <1>1, <2>1 DEF SendHandShake1, TypeOK, client, time
<1>2. ASSUME NEW p \in net, NEW a \in Addrs, HandleHandShake1Ack(c, p, a) PROVE TypeOK'
  <2>1. PICK s : /\ s = Drawn(Secrets, SecretsInUse)
                 /\ secret' = [secret EXCEPT ![c] = IF m_ulConnID[c] = 0 THEN s ELSE None]
                 /\ Answered(p, {HandShake2(a, p.cookie, s)})
                 /\ made' = [made EXCEPT ![s] = None]
    BY <1>2 DEF HandleHandShake1Ack
  <2>2. s \in Secrets
    BY <1>2, <2>1, DrawnFacts DEF HandleHandShake1Ack
  <2>3. p.cookie \in CookieType
    BY <1>0, <1>2, PacketFacts DEF HandleHandShake1Ack
  <2>4. HandShake2(a, p.cookie, s) \in Packet
    BY <2>2, <2>3, MadePackets
  <2>5. net' \subseteq Packet
    BY <1>0, <2>1, <2>4, AnsweredFacts
  <2>6. secret' \in [Clients -> Secrets \cup {None}] /\ made' \in [Secrets -> (0 .. OldAge) \cup {None}]
    BY <2>1, <2>2 DEF TypeOK
  <2>7. addr' \in [Clients -> Addrs] /\ \A d, e \in Clients : addr'[d] = addr'[e] => d = e
    <3>1. addr' = [addr EXCEPT ![c] = a] /\ (a # addr[c] => \A d \in Clients : addr[d] # a)
      BY <1>2 DEF HandleHandShake1Ack, Held
    <3>. QED
      BY <3>1 DEF TypeOK
  <2>8. gone' \in [Addrs -> 0 .. OldAge]
    BY <1>2, OlderFacts DEF HandleHandShake1Ack, TypeOK
  <2>. QED
    BY <1>2, <2>5, <2>6, <2>7, <2>8 DEF HandleHandShake1Ack, TypeOK, time
<1>3. ASSUME NEW p \in net, HandleHandShake2Ack(c, p) PROVE TypeOK'
  <2>1. net' \subseteq Packet
    BY <1>0, <1>3, AnsweredFacts DEF HandleHandShake2Ack
  <2>2. CASE m_ulConnID[c] > 0 \/ ~p.succ
    <3>1. UNCHANGED <<m_ulConnID, key, secret>>
      BY <1>3, <2>2 DEF HandleHandShake2Ack
    <3>. QED
      BY <1>3, <2>1, <3>1 DEF HandleHandShake2Ack, TypeOK, time
  <2>3. CASE ~(m_ulConnID[c] > 0 \/ ~p.succ)
    <3>1. /\ m_ulConnID' = [m_ulConnID EXCEPT ![c] = 1]
          /\ secret' = [secret EXCEPT ![c] = None]
          /\ key' = [key EXCEPT ![c] = IF p.isKey THEN p.data ELSE Key(secret[c], p.data)]
      BY <1>3, <2>3 DEF HandleHandShake2Ack
    <3>2. (p.isKey => p.data \in KeyType) /\ (~p.isKey => p.data \in Nonces)
      BY <1>0, <1>3, <2>3, PacketFacts DEF HandleHandShake2Ack
    <3>3. ~p.isKey => Key(secret[c], p.data) \in KeyType
      BY <3>2 DEF Key, KeyType, TypeOK
    <3>4. key' \in [Clients -> KeyType \cup {None}]
      BY <3>1, <3>2, <3>3 DEF TypeOK
    <3>5. m_ulConnID' \in [Clients -> {0, 1}] /\ secret' \in [Clients -> Secrets \cup {None}]
      BY <3>1 DEF TypeOK
    <3>. QED
      BY <1>3, <2>1, <3>4, <3>5 DEF HandleHandShake2Ack, TypeOK, time
  <2>. QED
    BY <2>2, <2>3
<1>. QED
  BY <1>1, <1>2, <1>3 DEF Client

\* So does time.
LEMMA SecondType ==
    ASSUME TypeOK, Second
    PROVE  TypeOK'
<1>1. net' \subseteq Packet
  BY SecondNet, AgedFacts DEF TypeOK
<1>2. gone' \in [Addrs -> 0 .. OldAge]
  BY OlderFacts DEF Second, TypeOK
<1>3. made' \in [Secrets -> (0 .. OldAge) \cup {None}]
  BY OlderFacts DEF Second, TypeOK
<1>4. keyAge' \in 0 .. KeyPeriod - 1 /\ bKeySeq' \in 0 .. SECRET_KEY_NUM - 1
  <2>1. KeyPeriod \in Nat \ {0} /\ SECRET_KEY_NUM \in Nat \ {0}
    BY HandshakeAssumption
  <2>2. keyAge + 1 \in Nat /\ bKeySeq + 1 \in Nat
    BY <2>1 DEF TypeOK
  <2>3. (keyAge + 1) % KeyPeriod \in 0 .. KeyPeriod - 1 /\ (bKeySeq + 1) % SECRET_KEY_NUM \in 0 .. SECRET_KEY_NUM - 1
    BY <2>1, <2>2
  <2>. QED
    BY <2>3 DEF Second, TypeOK
<1>5. conns' \in [Addrs -> ConnType \cup {None}]
  <2>1. \A con \in ConnType : con.cookie # None => [con EXCEPT !.cookie = Aged(@)] \in ConnType
    <3>1. \A cookie \in CookieType : Aged(cookie) \in CookieType
      BY OlderFacts DEF Aged, CookieType
    <3>. QED
      BY <3>1 DEF ConnType
  <2>2. conns' = [a \in Addrs |-> IF conns[a] = None \/ conns[a].cookie = None THEN conns[a]
                                  ELSE [conns[a] EXCEPT !.cookie = Aged(@)]]
    BY DEF Second, Aged
  <2>. QED
    BY <2>1, <2>2 DEF TypeOK
<1>. QED
  BY <1>1, <1>2, <1>3, <1>4, <1>5 DEF Second, TypeOK, client

\* Every step keeps the types.
LEMMA TypeStep == TypeOK /\ [Next]_vars => TypeOK'
<1> SUFFICES ASSUME TypeOK, [Next]_vars PROVE TypeOK'
  OBVIOUS
<1>1. CASE \E p \in net : Lose(p)
  BY <1>1 DEF Lose, TypeOK, client, time
<1>2. CASE UNCHANGED vars
  BY <1>2 DEF vars, TypeOK, client, time
<1>. QED
  BY <1>1, <1>2, ServerType, ClientType, SecondType DEF Next

\* Every packet, cookie, key and connection is of its type, at every age, and no two clients ever
\* have one address.
THEOREM TypeCorrect == Spec => []TypeOK
BY InitType, TypeStep, PTL DEF Spec
-------------------------------------------------------------------------------
\* Ages.

\* The server's handlers make no HANDSHAKE2, and forget no age.
LEMMA ServerAge ==
    ASSUME TypeOK, AgeInv, Server
    PROVE  AgeInv'
<1>1. ASSUME NEW answer, net' \subseteq net \cup {answer}, answer.type # "HANDSHAKE2", UNCHANGED <<gone, made>>
      PROVE  AgeInv'
  BY <1>1 DEF AgeInv
<1>2. ASSUME NEW p \in net, HandleHandShake1(p) PROVE AgeInv'
  <2>1. Answered(p, IF p.addr \in Connected THEN {} ELSE {HandShake1Ack(p.addr, Cookie(p.addr, 0, bKeySeq))})
        /\ UNCHANGED <<gone, made>>
    BY <1>2 DEF HandleHandShake1
  <2>2. net' \subseteq net \cup {HandShake1Ack(p.addr, Cookie(p.addr, 0, bKeySeq))}
    BY <2>1, AnsweredFacts
  <2>3. HandShake1Ack(p.addr, Cookie(p.addr, 0, bKeySeq)).type # "HANDSHAKE2"
    BY DEF HandShake1Ack
  <2>. QED
    BY <1>1, <2>1, <2>2, <2>3, Zenon
<1>3. ASSUME NEW p \in net, HandleHandShake2Again(p) PROVE AgeInv'
  <2>1. PICK same \in BOOLEAN : Answered(p, IF same THEN {Succ(p.addr, conns[p.addr])} ELSE {})
    BY <1>3 DEF HandleHandShake2Again
  <2>2. net' \subseteq net \cup {Succ(p.addr, conns[p.addr])} /\ UNCHANGED <<gone, made>>
    BY <1>3, <2>1, AnsweredFacts DEF HandleHandShake2Again
  <2>3. Succ(p.addr, conns[p.addr]).type # "HANDSHAKE2"
    BY DEF Succ
  <2>. QED
    BY <1>1, <2>2, <2>3, Zenon
<1>4. ASSUME NEW p \in net, HandleHandShake2Refuse(p) PROVE AgeInv'
  <2>1. net' \subseteq net \cup {Fail(p.addr)} /\ UNCHANGED <<gone, made>>
    BY <1>4, AnsweredFacts DEF HandleHandShake2Refuse
  <2>2. Fail(p.addr).type # "HANDSHAKE2"
    BY DEF Fail
  <2>. QED
    BY <1>1, <2>1, <2>2, Zenon
<1>5. ASSUME NEW p \in net, NEW isDHKey \in BOOLEAN, NEW isWhole \in BOOLEAN,
             HandleHandShake2New(p, isDHKey, isWhole)
      PROVE  AgeInv'
  <2>1. PICK con : Answered(p, {Succ(p.addr, con)})
    BY <1>5 DEF HandleHandShake2New
  <2>2. net' \subseteq net \cup {Succ(p.addr, con)} /\ gone' = gone /\ made' = [made EXCEPT ![p.numA] = 0]
    BY <1>5, <2>1, AnsweredFacts DEF HandleHandShake2New
  <2>3. ASSUME NEW q \in net', q.type = "HANDSHAKE2"
        PROVE  gone'[q.addr] <= q.cookie.age /\ (made'[q.numA] # None => made'[q.numA] <= q.cookie.age)
    <3>1. q \in net
      BY <2>2, <2>3 DEF Succ
    <3>2. q.numA \in Secrets /\ q.cookie.age \in 0 .. OldAge
      BY <2>3, <3>1, PacketFacts DEF TypeOK, CookieType
    <3>3. made'[q.numA] = made[q.numA] \/ made'[q.numA] = 0
      BY <2>2, <3>2 DEF TypeOK
    <3>. QED
      BY <2>2, <2>3, <3>1, <3>2, <3>3 DEF AgeInv
  <2>. QED
    BY <2>3 DEF AgeInv
<1>6. ASSUME NEW a \in Addrs, FreeConn(a) PROVE AgeInv'
  BY <1>6 DEF FreeConn, AgeInv
<1>. QED
  BY <1>2, <1>3, <1>4, <1>5, <1>6 DEF Server

\* A client's new HANDSHAKE2 leaves from the address it has now, with a number of now.
LEMMA ClientAge ==
    ASSUME TypeOK, AgeInv, NEW c \in Clients, Client(c)
    PROVE  AgeInv'
<1>1. CASE SendHandShake1(c)
  BY <1>1 DEF SendHandShake1, HandShake1, AgeInv
<1>2. ASSUME NEW p \in net, NEW a \in Addrs, HandleHandShake1Ack(c, p, a) PROVE AgeInv'
  <2>1. PICK s : /\ s = Drawn(Secrets, SecretsInUse)
                 /\ Answered(p, {HandShake2(a, p.cookie, s)})
                 /\ made' = [made EXCEPT ![s] = None]
    BY <1>2 DEF HandleHandShake1Ack
  <2>2. s \in Secrets
    BY <1>2, <2>1, DrawnFacts DEF HandleHandShake1Ack
  <2>3. p.cookie.age \in 0 .. OldAge
    BY <1>2, PacketFacts DEF HandleHandShake1Ack, TypeOK, CookieType
  <2>4. net' \subseteq net \cup {HandShake2(a, p.cookie, s)} /\ gone' = [gone EXCEPT ![a] = 0]
    BY <1>2, <2>1, AnsweredFacts DEF HandleHandShake1Ack
  <2>5. ASSUME NEW q \in net', q.type = "HANDSHAKE2"
        PROVE  gone'[q.addr] <= q.cookie.age /\ (made'[q.numA] # None => made'[q.numA] <= q.cookie.age)
    <3>1. CASE q \in net
      <4>1. q.addr \in Addrs /\ q.numA \in Secrets /\ q.cookie.age \in 0 .. OldAge
        BY <2>5, <3>1, PacketFacts DEF TypeOK, CookieType
      <4>2. gone'[q.addr] = gone[q.addr] \/ gone'[q.addr] = 0
        BY <2>4, <4>1 DEF TypeOK
      <4>3. made'[q.numA] = made[q.numA] \/ made'[q.numA] = None
        BY <2>1, <4>1 DEF TypeOK
      <4>. QED
        BY <2>5, <3>1, <4>1, <4>2, <4>3 DEF AgeInv
    <3>2. CASE q = HandShake2(a, p.cookie, s)
      <4>1. q.addr = a /\ q.cookie = p.cookie /\ q.numA = s
        BY <3>2 DEF HandShake2
      <4>2. gone'[a] = 0 /\ made'[s] = None
        BY <2>1, <2>2, <2>4 DEF TypeOK
      <4>. QED
        BY <2>3, <4>1, <4>2
    <3>. QED
      BY <2>4, <3>1, <3>2
  <2>. QED
    BY <2>5 DEF AgeInv
<1>3. ASSUME NEW p \in net, HandleHandShake2Ack(c, p) PROVE AgeInv'
  <2>1. net' \subseteq net /\ UNCHANGED <<gone, made>>
    BY <1>3, AnsweredFacts DEF HandleHandShake2Ack
  <2>. QED
    BY <2>1 DEF AgeInv
<1>. QED
  BY <1>1, <1>2, <1>3 DEF Client

\* Time makes what is remembered no older than what is under way.
LEMMA SecondAge ==
    ASSUME TypeOK, AgeInv, Second
    PROVE  AgeInv'
<1> SUFFICES ASSUME NEW q \in net', q.type = "HANDSHAKE2"
             PROVE  gone'[q.addr] <= q.cookie.age /\ (made'[q.numA] # None => made'[q.numA] <= q.cookie.age)
  BY DEF AgeInv
<1>1. PICK p \in net : q = AgedPacket(p)
  BY SecondNet
<1>2. /\ p.type = "HANDSHAKE2" /\ p.addr \in Addrs /\ p.numA \in Secrets /\ p.cookie.age \in 0 .. OldAge
      /\ q.addr = p.addr /\ q.numA = p.numA /\ q.cookie.age = Older(p.cookie.age, OldAge)
  BY <1>1, AgedFacts, PacketFacts DEF TypeOK, CookieType
<1>3. gone[p.addr] <= p.cookie.age /\ (made[p.numA] # None => made[p.numA] <= p.cookie.age)
  BY <1>2 DEF AgeInv
<1>4. gone'[p.addr] <= Older(p.cookie.age, OldAge)
  <2>1. gone'[p.addr] = 0 \/ gone'[p.addr] = Older(gone[p.addr], OldAge)
    BY <1>2 DEF Second
  <2>2. gone[p.addr] \in 0 .. OldAge
    BY <1>2 DEF TypeOK
  <2>. QED
    BY <1>2, <1>3, <2>1, <2>2, OlderFacts
<1>5. made'[p.numA] # None => made'[p.numA] <= Older(p.cookie.age, OldAge)
  <2>1. made'[p.numA] = IF made[p.numA] = None THEN None ELSE Older(made[p.numA], OldAge)
    BY <1>2 DEF Second
  <2>2. made[p.numA] # None => made[p.numA] \in 0 .. OldAge
    BY <1>2 DEF TypeOK
  <2>. QED
    BY <1>2, <1>3, <2>1, <2>2, OlderFacts
<1>. QED
  BY <1>2, <1>4, <1>5

LEMMA AgeStep == TypeOK /\ AgeInv /\ [Next]_vars => AgeInv'
<1> SUFFICES ASSUME TypeOK, AgeInv, [Next]_vars PROVE AgeInv'
  OBVIOUS
<1>1. CASE \E p \in net : Lose(p)
  BY <1>1 DEF Lose, AgeInv
<1>2. CASE UNCHANGED vars
  BY <1>2 DEF vars, AgeInv
<1>. QED
  BY <1>1, <1>2, ServerAge, ClientAge, SecondAge DEF Next

\* A connection is made of a HANDSHAKE2 from its address whose cookie is good.
LEMMA CreatedFacts ==
    ASSUME TypeOK, [Next]_vars, NEW a \in Addrs, Created(a)
    PROVE  \E p \in net : /\ p.type = "HANDSHAKE2" /\ p.addr = a
                          /\ p.cookie.age <= MAX_HANDSHAKE_COOKIES_TIME
                          /\ conns'[a].numA = p.numA
<1>1. conns[a] = None /\ conns'[a] # None /\ conns' # conns
  BY DEF Created
<1>2. CASE \E p \in net, isDHKey \in BOOLEAN, isWhole \in BOOLEAN : HandleHandShake2New(p, isDHKey, isWhole)
  <2>1. PICK p \in net, isDHKey \in BOOLEAN, isWhole \in BOOLEAN : HandleHandShake2New(p, isDHKey, isWhole)
    BY <1>2
  <2>2. PICK con : /\ con.numA = p.numA
                   /\ conns' = [conns EXCEPT ![p.addr] = con]
    BY <2>1 DEF HandleHandShake2New
  <2>3. p.addr = a
    BY <1>1, <2>2
  <2>. QED
    BY <2>1, <2>2, <2>3 DEF HandleHandShake2New, Valid, TypeOK
<1>3. CASE \E b \in Addrs : FreeConn(b)
  BY <1>1, <1>3 DEF FreeConn, TypeOK
<1>4. CASE Second
  BY <1>1, <1>4 DEF Second
<1>5. CASE \E p \in net : \/ HandleHandShake1(p) \/ HandleHandShake2Again(p) \/ HandleHandShake2Refuse(p) \/ Lose(p)
  BY <1>1, <1>5 DEF HandleHandShake1, HandleHandShake2Again, HandleHandShake2Refuse, Lose
<1>6. CASE \E c \in Clients : Client(c)
  BY <1>1, <1>6 DEF Client, SendHandShake1, HandleHandShake1Ack, HandleHandShake2Ack
<1>7. CASE UNCHANGED vars
  BY <1>1, <1>7 DEF vars
<1>. QED
  BY <1>2, <1>3, <1>4, <1>5, <1>6, <1>7 DEF Next, Server

\* Before anything is sent no packet is under way.
LEMMA InitAge == Init => AgeInv
BY DEF Init, AgeInv

\* A connection is made only for an address a client had within a cookie's lifetime, for every
\* lifetime and however packets are delayed (MadeForTheLiving).
THEOREM OnlyForTheLiving == Spec => MadeForTheLiving
<1>1. TypeOK /\ AgeInv /\ [Next]_vars => [\A a \in Addrs : Created(a) => gone[a] <= MAX_HANDSHAKE_COOKIES_TIME]_vars
  <2> SUFFICES ASSUME TypeOK, AgeInv, [Next]_vars, NEW a \in Addrs, Created(a)
               PROVE  gone[a] <= MAX_HANDSHAKE_COOKIES_TIME
    OBVIOUS
  <2>1. PICK p \in net : /\ p.type = "HANDSHAKE2" /\ p.addr = a
                         /\ p.cookie.age <= MAX_HANDSHAKE_COOKIES_TIME
    BY CreatedFacts
  <2>2. gone[a] <= p.cookie.age
    BY <2>1 DEF AgeInv
  <2>3. gone[a] \in 0 .. OldAge /\ p.cookie.age \in 0 .. OldAge
    BY <2>1, PacketFacts DEF TypeOK, CookieType
  <2>. QED
    BY <2>1, <2>2, <2>3, OlderFacts
<1>. QED
  BY <1>1, InitAge, AgeStep, TypeCorrect, PTL DEF Spec, MadeForTheLiving

\* The number that made a connection makes another only within a cookie's lifetime
\* (NeverMadeAgainLater).
THEOREM NotMadeAgainLater == Spec => NeverMadeAgainLater
<1>1. TypeOK /\ AgeInv /\ [Next]_vars => [\A a \in Addrs : Created(a) => made[conns'[a].numA] # OldAge]_vars
  <2> SUFFICES ASSUME TypeOK, AgeInv, [Next]_vars, NEW a \in Addrs, Created(a)
               PROVE  made[conns'[a].numA] # OldAge
    OBVIOUS
  <2>1. PICK p \in net : /\ p.type = "HANDSHAKE2"
                         /\ p.cookie.age <= MAX_HANDSHAKE_COOKIES_TIME
                         /\ conns'[a].numA = p.numA
    BY CreatedFacts
  <2>2. made[p.numA] # None => made[p.numA] <= p.cookie.age
    BY <2>1 DEF AgeInv
  <2>3. p.cookie.age \in 0 .. OldAge
    BY <2>1, PacketFacts DEF TypeOK, CookieType
  <2>4. made[p.numA] # None => made[p.numA] # OldAge
    BY <2>1, <2>2, <2>3, OlderFacts DEF OldAge
  <2>5. None # OldAge
    BY OlderFacts, HandshakeAssumption DEF OldAge
  <2>. QED
    BY <2>1, <2>4, <2>5
<1>. QED
  BY <1>1, InitAge, AgeStep, TypeCorrect, PTL DEF Spec, NeverMadeAgainLater
-------------------------------------------------------------------------------
\* Keys in a calm network.

\* In a calm network a packet is answered by at most one for the same address.
LEMMA OnePerAddr ==
    ASSUME net \subseteq Packet, \A p, q \in net : p.addr = q.addr => p = q,
           NEW r \in net, NEW answer, answer.addr = r.addr,
           net' \subseteq (net \ {r}) \cup {answer}
    PROVE  /\ \A p, q \in net' : p.addr = q.addr => p = q
           /\ \A p \in net' : p.addr = r.addr => p = answer
           /\ \A p \in net' : p.addr # r.addr => p \in net
<1>1. \A p \in net' : p.addr = r.addr => p = answer
  <2>1. TAKE p \in net'
  <2>2. HAVE p.addr = r.addr
  <2>3. p \in net => p = r
    BY <2>2
  <2>. QED
    BY <2>3
<1>2. \A p \in net' : p.addr # r.addr => p \in net
  OBVIOUS
<1>3. \A p, q \in net' : p.addr = q.addr => p = q
  BY <1>1, <1>2, Zenon
<1>. QED
  BY <1>1, <1>2, <1>3

\* Nothing changes for a client about whom no packet comes or goes.
LEMMA AgreesStays ==
    ASSUME NEW c \in Clients, Agrees(c),
           m_ulConnID'[c] = m_ulConnID[c], addr'[c] = addr[c], key'[c] = key[c], secret'[c] = secret[c],
           \A p \in net' : p.addr = addr[c] => p \in net,
           addr[c] \in Connected' => addr[c] \in Connected /\ conns'[addr[c]].key = conns[addr[c]].key
    PROVE  Agrees(c)'
<1>1. m_ulConnID'[c] # 0 => \A p \in net' : p.addr # addr'[c]
  BY DEF Agrees
<1>2. m_ulConnID'[c] # 0 /\ addr'[c] \in Connected' => key'[c] = conns'[addr'[c]].key
  BY DEF Agrees
<1>3. \A p \in net' : p.type = "HANDSHAKE2" /\ p.addr = addr'[c] => p.numA = secret'[c]
  BY DEF Agrees
<1>4. ASSUME NEW p \in net', p.type = "HANDSHAKE2_ACK", p.succ, p.addr = addr'[c], addr'[c] \in Connected'
      PROVE  IF p.isKey THEN p.data = conns'[addr'[c]].key
                        ELSE conns'[addr'[c]].key = Key(secret'[c], p.data)
  BY <1>4 DEF Agrees
<1>. QED
  BY <1>1, <1>2, <1>3, <1>4 DEF Agrees, Key

\* The server answers a client with the key the client can compute.
LEMMA ServerCalm ==
    ASSUME TypeOK, CalmInv, Server, mode = "calm"
    PROVE  CalmInv'
<1>1. /\ net \subseteq Packet /\ \A p, q \in net : p.addr = q.addr => p = q
      /\ \A a \in Addrs : a \in Connected /\ conns[a].isDHKey => conns[a].key.numA = conns[a].numA
      /\ \A c \in Clients : Agrees(c) /\ addr[c] \in Addrs
      /\ conns \in [Addrs -> ConnType \cup {None}]
  BY DEF CalmInv, TypeOK
\* An answer that is no HANDSHAKE2 and brings no key.
<1>2. ASSUME NEW r \in net, NEW answer, answer.addr = r.addr, 
             net' \subseteq (net \ {r}) \cup {answer}, answer.type # "HANDSHAKE2",
             answer.type = "HANDSHAKE2_ACK" => ~answer.succ,
             UNCHANGED <<mode, client, conns>>
      PROVE  CalmInv'
  <2>1. /\ \A p, q \in net' : p.addr = q.addr => p = q
        /\ \A p \in net' : p.addr = r.addr => p = answer
        /\ \A p \in net' : p.addr # r.addr => p \in net
    BY <1>1, <1>2, OnePerAddr, Zenon
  <2>2. ASSUME NEW c \in Clients PROVE Agrees(c)'
    <3>1. Agrees(c) /\ UNCHANGED <<m_ulConnID, addr, key, secret, conns>>
      BY <1>1, <1>2 DEF client
    <3>2. CASE addr[c] # r.addr
      BY <2>1, <3>1, <3>2, AgreesStays DEF Connected
    <3>3. CASE addr[c] = r.addr
      <4>1. m_ulConnID[c] = 0
        BY <3>1, <3>3 DEF Agrees
      <4>2. \A p \in net' : p.addr = addr[c] => p = answer
        BY <2>1, <3>3
      <4>. QED
        BY <1>2, <3>1, <4>1, <4>2 DEF Agrees
    <3>. QED
      BY <3>2, <3>3
  <2>. QED
    BY <1>1, <1>2, <2>1, <2>2 DEF CalmInv, Connected
<1>3. ASSUME NEW p \in net, HandleHandShake1(p) PROVE CalmInv'
  <2>1. Answered(p, IF p.addr \in Connected THEN {} ELSE {HandShake1Ack(p.addr, Cookie(p.addr, 0, bKeySeq))})
        /\ UNCHANGED <<mode, client, conns>>
    BY <1>3 DEF HandleHandShake1
  <2>2. net' \subseteq (net \ {p}) \cup {HandShake1Ack(p.addr, Cookie(p.addr, 0, bKeySeq))}
    BY <2>1, AnsweredFacts
  <2>3. /\ HandShake1Ack(p.addr, Cookie(p.addr, 0, bKeySeq)).type = "HANDSHAKE1_ACK"
        /\ HandShake1Ack(p.addr, Cookie(p.addr, 0, bKeySeq)).addr = p.addr
    BY DEF HandShake1Ack
  <2>4. "HANDSHAKE1_ACK" # "HANDSHAKE2" /\ "HANDSHAKE1_ACK" # "HANDSHAKE2_ACK"
    OBVIOUS
  <2>. QED
    BY <1>2, <2>1, <2>2, <2>3, <2>4, Zenon
<1>4. ASSUME NEW p \in net, HandleHandShake2Refuse(p) PROVE CalmInv'
  <2>1. net' \subseteq (net \ {p}) \cup {Fail(p.addr)} /\ UNCHANGED <<mode, client, conns>>
    BY <1>4, AnsweredFacts DEF HandleHandShake2Refuse
  <2>2. Fail(p.addr).addr = p.addr /\ Fail(p.addr).type # "HANDSHAKE2" /\ ~Fail(p.addr).succ
    BY DEF Fail
  <2>. QED
    BY <1>2, <2>1, <2>2, Zenon
\* An answer that brings the key of the connection there is now.
<1>5. ASSUME NEW r \in net, r.type = "HANDSHAKE2", NEW con \in ConnType, con.numA = r.numA,
             con.isDHKey => con.key.numA = con.numA,
             net' \subseteq (net \ {r}) \cup {Succ(r.addr, con)},
             \A a \in Addrs : conns'[a] = IF a = r.addr THEN con ELSE conns[a],
             UNCHANGED <<mode, client>>
      PROVE  CalmInv'
  <2>1. Succ(r.addr, con).addr = r.addr /\ r.addr \in Addrs
    BY <1>1, PacketFacts DEF Succ
  <2>2. /\ \A p, q \in net' : p.addr = q.addr => p = q
        /\ \A p \in net' : p.addr = r.addr => p = Succ(r.addr, con)
        /\ \A p \in net' : p.addr # r.addr => p \in net
    BY <1>1, <1>5, <2>1, OnePerAddr, Zenon
  <2>3. ASSUME NEW c \in Clients PROVE Agrees(c)'
    <3>1. Agrees(c) /\ UNCHANGED <<m_ulConnID, addr, key, secret>> /\ addr[c] \in Addrs
      BY <1>1, <1>5 DEF client
    <3>2. CASE addr[c] # r.addr
      <4>1. conns'[addr[c]] = conns[addr[c]]
        BY <1>5, <3>1, <3>2
      <4>. QED
        BY <2>2, <3>1, <3>2, <4>1, AgreesStays DEF Connected
    <3>3. CASE addr[c] = r.addr
      <4>1. m_ulConnID[c] = 0 /\ r.numA = secret[c]
        BY <1>5, <3>1, <3>3 DEF Agrees
      <4>2. \A p \in net' : p.addr = addr[c] => p = Succ(r.addr, con)
        BY <2>2, <3>3
      <4>3. Succ(r.addr, con).type # "HANDSHAKE2"
        BY DEF Succ
      <4>4. conns'[addr[c]] = con
        BY <1>5, <3>1, <3>3
      <4>5. con.isDHKey => con.key = Key(secret[c], con.key.nonce)
        BY <1>5, <4>1 DEF ConnType, KeyType, Key
      <4>6. /\ Succ(r.addr, con).isKey <=> ~con.isDHKey
            /\ Succ(r.addr, con).data = IF con.isDHKey THEN con.key.nonce ELSE con.key
        BY DEF Succ
      <4>7. IF Succ(r.addr, con).isKey THEN Succ(r.addr, con).data = con.key
            ELSE con.key = Key(secret[c], Succ(r.addr, con).data)
        BY <4>5, <4>6
      <4>. QED
        BY <3>1, <4>1, <4>2, <4>3, <4>4, <4>7 DEF Agrees, Key
    <3>. QED
      BY <3>2, <3>3
  <2>4. ASSUME NEW a \in Addrs, a \in Connected', conns'[a].isDHKey PROVE conns'[a].key.numA = conns'[a].numA
    <3>1. CASE a = r.addr
      BY <1>5, <2>4, <3>1
    <3>2. CASE a # r.addr
      BY <1>1, <1>5, <2>4, <3>2 DEF Connected
    <3>. QED
      BY <3>1, <3>2
  <2>. QED
    BY <1>5, <2>2, <2>3, <2>4 DEF CalmInv
<1>6. ASSUME NEW p \in net, HandleHandShake2Again(p) PROVE CalmInv'
  <2> DEFINE same == /\ conns[p.addr].cookie = Cookie(p.addr, p.cookie.age, bKeySeq)
                     /\ conns[p.addr].cookie = p.cookie /\ conns[p.addr].numA = p.numA
  <2>1. /\ p.type = "HANDSHAKE2" /\ p.addr \in Connected
        /\ Answered(p, IF same THEN {Succ(p.addr, conns[p.addr])} ELSE {})
        /\ UNCHANGED <<mode, client, conns>>
    BY <1>6 DEF HandleHandShake2Again
  <2>2. net' = (net \ {p}) \cup (IF same THEN {Succ(p.addr, conns[p.addr])} ELSE {})
    BY <2>1, AnsweredFacts
  <2>3. p.addr \in Addrs /\ conns[p.addr] \in ConnType
    BY <1>1, <2>1, PacketFacts DEF Connected
  <2>4. CASE same
    <3>1. conns[p.addr].isDHKey => conns[p.addr].key.numA = conns[p.addr].numA
      BY <1>1, <2>1, <2>3
    <3>2. net' \subseteq (net \ {p}) \cup {Succ(p.addr, conns[p.addr])} /\ conns[p.addr].numA = p.numA
      BY <2>2, <2>4
    <3>3. \A a \in Addrs : conns'[a] = IF a = p.addr THEN conns[p.addr] ELSE conns[a]
      BY <2>1
    <3>. QED
      BY <1>5, <2>1, <2>3, <3>1, <3>2, <3>3
  <2>5. CASE ~same
    <3>1. net' \subseteq (net \ {p}) \cup {Fail(p.addr)}
      BY <2>2, <2>5
    <3>2. Fail(p.addr).addr = p.addr /\ Fail(p.addr).type # "HANDSHAKE2" /\ ~Fail(p.addr).succ
      BY DEF Fail
    <3>. QED
      BY <1>2, <2>1, <3>1, <3>2, Zenon
  <2>. QED
    BY <2>4, <2>5
<1>7. ASSUME NEW p \in net, NEW isDHKey \in BOOLEAN, NEW isWhole \in BOOLEAN,
             HandleHandShake2New(p, isDHKey, isWhole)
      PROVE  CalmInv'
  <2>1. PICK con : /\ con = [cookie |-> Kept(p.cookie, isWhole), numA |-> p.numA, isDHKey |-> isDHKey,
                               key |-> Key(IF isDHKey THEN p.numA ELSE None, Drawn(Nonces, NoncesInUse))]
                   /\ conns' = [conns EXCEPT ![p.addr] = con]
                   /\ Answered(p, {Succ(p.addr, con)})
    BY <1>7 DEF HandleHandShake2New
  <2>2. /\ p.addr \in Addrs /\ p.cookie \in CookieType /\ p.numA \in Secrets
        /\ p.type = "HANDSHAKE2" /\ UNCHANGED <<mode, client>>
    BY <1>1, <1>7, PacketFacts DEF HandleHandShake2New
  <2>3. Drawn(Nonces, NoncesInUse) \in Nonces
    BY <1>7, DrawnFacts DEF HandleHandShake2New
  <2>4. Key(IF isDHKey THEN p.numA ELSE None, Drawn(Nonces, NoncesInUse)) \in KeyType
    BY <2>2, <2>3 DEF Key, KeyType
  <2>5. con \in ConnType /\ con.numA = p.numA
    BY <2>1, <2>2, <2>4 DEF ConnType, Kept
  <2>6. con.isDHKey => con.key.numA = con.numA
    BY <2>1 DEF Key
  <2>7. net' \subseteq (net \ {p}) \cup {Succ(p.addr, con)}
    BY <2>1, AnsweredFacts
  <2>8. \A a \in Addrs : conns'[a] = IF a = p.addr THEN con ELSE conns[a]
    BY <1>1, <2>1
  <2>. QED
    BY <1>5, <2>2, <2>5, <2>6, <2>7, <2>8
<1>8. ASSUME NEW a \in Addrs, FreeConn(a) PROVE CalmInv'
  <2>1. /\ UNCHANGED <<mode, client, net>>
        /\ \A b \in Addrs : conns'[b] = IF b = a THEN None ELSE conns[b]
    BY <1>1, <1>8 DEF FreeConn
  <2>2. \A c \in Clients : Agrees(c)'
    BY <1>1, <2>1, AgreesStays DEF Connected, client
  <2>. QED
    BY <1>1, <2>1, <2>2 DEF CalmInv, Connected
<1>. QED
  BY <1>3, <1>4, <1>6, <1>7, <1>8 DEF Server

\* The client's numbers are those of the HANDSHAKE2 under way, and the key it makes of the answer is
\* the connection's.
LEMMA ClientCalm ==
    ASSUME TypeOK, CalmInv, NEW c \in Clients, Client(c), mode = "calm"
    PROVE  CalmInv'
<1>1. /\ net \subseteq Packet /\ \A p, q \in net : p.addr = q.addr => p = q
      /\ \A a \in Addrs : a \in Connected /\ conns[a].isDHKey => conns[a].key.numA = conns[a].numA
      /\ \A d \in Clients : Agrees(d) /\ addr[d] \in Addrs
      /\ \A d \in Clients : d # c => addr[d] # addr[c]
      /\ conns \in [Addrs -> ConnType \cup {None}]
  BY DEF CalmInv, TypeOK
<1>2. CASE SendHandShake1(c)
  <2>1. /\ m_ulConnID[c] = 0 /\ \A p \in net : p.addr # addr[c]
        /\ net' = net \cup {HandShake1(addr[c])}
        /\ UNCHANGED <<mode, client, conns>>
    BY <1>2 DEF SendHandShake1
  <2>2. HandShake1(addr[c]).addr = addr[c] /\ HandShake1(addr[c]).type = "HANDSHAKE1"
    BY DEF HandShake1
  <2>3. \A p, q \in net' : p.addr = q.addr => p = q
    BY <1>1, <2>1, <2>2
  <2>4. ASSUME NEW d \in Clients PROVE Agrees(d)'
    <3>1. CASE d # c
      BY <1>1, <2>1, <2>2, <3>1, AgreesStays DEF Connected, client
    <3>2. CASE d = c
      <4>1. \A p \in net' : p.addr = addr[c] => p.type = "HANDSHAKE1"
        BY <2>1, <2>2
      <4>. QED
        BY <1>1, <2>1, <3>2, <4>1 DEF Agrees, client
    <3>. QED
      BY <3>1, <3>2
  <2>. QED
    BY <1>1, <2>1, <2>3, <2>4 DEF CalmInv, Connected
<1>3. ASSUME NEW p \in net, NEW a \in Addrs, HandleHandShake1Ack(c, p, a) PROVE CalmInv'
  <2>1. PICK s : /\ secret' = [secret EXCEPT ![c] = IF m_ulConnID[c] = 0 THEN s ELSE None]
                 /\ Answered(p, {HandShake2(a, p.cookie, s)})
    BY <1>3 DEF HandleHandShake1Ack
  <2>2. /\ p.addr = addr[c] /\ a = addr[c] /\ addr' = [addr EXCEPT ![c] = a]
        /\ UNCHANGED <<mode, m_ulConnID, key, conns>>
    BY <1>3 DEF HandleHandShake1Ack
  <2>3. addr' = addr
    BY <2>2 DEF TypeOK
  <2>4. m_ulConnID[c] = 0
    BY <1>1, <2>2 DEF Agrees
  <2>5. secret'[c] = s /\ \A d \in Clients : d # c => secret'[d] = secret[d]
    BY <2>1, <2>4 DEF TypeOK
  <2>6. /\ HandShake2(a, p.cookie, s).addr = p.addr /\ HandShake2(a, p.cookie, s).numA = s
        /\ HandShake2(a, p.cookie, s).type = "HANDSHAKE2"
    BY <2>2 DEF HandShake2
  <2>7. net' \subseteq (net \ {p}) \cup {HandShake2(a, p.cookie, s)}
    BY <2>1, AnsweredFacts
  <2>8. /\ \A q, r \in net' : q.addr = r.addr => q = r
        /\ \A q \in net' : q.addr = p.addr => q = HandShake2(a, p.cookie, s)
        /\ \A q \in net' : q.addr # p.addr => q \in net
    BY <1>1, <2>6, <2>7, OnePerAddr, Zenon
  <2>9. ASSUME NEW d \in Clients PROVE Agrees(d)'
    <3>1. CASE d # c
      BY <1>1, <2>2, <2>3, <2>5, <2>8, <3>1, AgreesStays DEF Connected
    <3>2. CASE d = c
      <4>1. \A q \in net' : q.addr = addr[c] => q.type = "HANDSHAKE2" /\ q.numA = s
        BY <2>2, <2>6, <2>8
      <4>2. "HANDSHAKE2" # "HANDSHAKE2_ACK"
        OBVIOUS
      <4>. QED
        BY <2>2, <2>3, <2>4, <2>5, <3>2, <4>1, <4>2 DEF Agrees
    <3>. QED
      BY <3>1, <3>2
  <2>. QED
    BY <1>1, <2>2, <2>8, <2>9 DEF CalmInv, Connected
<1>4. ASSUME NEW p \in net, HandleHandShake2Ack(c, p) PROVE CalmInv'
  <2>1. /\ p.type = "HANDSHAKE2_ACK" /\ p.addr = addr[c]
        /\ UNCHANGED <<mode, addr, conns>> /\ net' = net \ {p}
    BY <1>4, AnsweredFacts DEF HandleHandShake2Ack
  <2>2. \A q \in net' : q.addr # addr[c] /\ q \in net
    BY <1>1, <2>1
  <2>3. m_ulConnID[c] = 0
    BY <1>1, <2>1 DEF Agrees
  <2>4. ASSUME NEW d \in Clients PROVE Agrees(d)'
    <3>1. CASE d # c
      <4>1. m_ulConnID'[d] = m_ulConnID[d] /\ key'[d] = key[d] /\ secret'[d] = secret[d]
        BY <1>4, <3>1 DEF HandleHandShake2Ack, TypeOK
      <4>. QED
        BY <1>1, <2>1, <2>2, <3>1, <4>1, AgreesStays DEF Connected
    <3>2. CASE d = c /\ ~p.succ
      <4>1. UNCHANGED <<m_ulConnID, key, secret>>
        BY <1>4, <3>2 DEF HandleHandShake2Ack
      <4>. QED
        BY <1>1, <2>1, <2>2, <3>2, <4>1, AgreesStays DEF Connected
    <3>3. CASE d = c /\ p.succ
      <4>1. ~(m_ulConnID[c] > 0 \/ ~p.succ)
        BY <2>3, <3>3
      <4>2. /\ m_ulConnID' = [m_ulConnID EXCEPT ![c] = 1]
            /\ key' = [key EXCEPT ![c] = IF p.isKey THEN p.data ELSE Key(secret[c], p.data)]
        BY <1>4, <4>1 DEF HandleHandShake2Ack
      <4>3. key'[c] = IF p.isKey THEN p.data ELSE Key(secret[c], p.data)
        BY <4>2 DEF TypeOK
      <4>4. addr[c] \in Connected => key'[c] = conns[addr[c]].key
        BY <1>1, <2>1, <3>3, <4>3 DEF Agrees
      <4>. QED
        BY <2>1, <2>2, <3>3, <4>4 DEF Agrees, Connected
    <3>. QED
      BY <3>1, <3>2, <3>3
  <2>. QED
    BY <1>1, <2>1, <2>2, <2>4 DEF CalmInv, Connected
<1>. QED
  BY <1>2, <1>3, <1>4 DEF Client

\* Time changes no key.
LEMMA SecondCalm ==
    ASSUME TypeOK, CalmInv, Second, mode = "calm"
    PROVE  CalmInv'
<1>1. /\ net \subseteq Packet /\ \A p, q \in net : p.addr = q.addr => p = q
      /\ \A a \in Addrs : a \in Connected /\ conns[a].isDHKey => conns[a].key.numA = conns[a].numA
      /\ \A c \in Clients : Agrees(c) /\ addr[c] \in Addrs
      /\ conns \in [Addrs -> ConnType \cup {None}]
  BY DEF CalmInv, TypeOK
<1>2. UNCHANGED <<mode, m_ulConnID, addr, key, secret>>
  BY DEF Second, client
<1>3. \A q \in net' : \E p \in net : q = AgedPacket(p)
  BY SecondNet
<1>4. \A p \in net : /\ AgedPacket(p).type = p.type /\ AgedPacket(p).addr = p.addr
                     /\ p.type = "HANDSHAKE2" => AgedPacket(p).numA = p.numA
                     /\ p.type = "HANDSHAKE2_ACK" => AgedPacket(p) = p
  BY <1>1, AgedFacts
<1>5. \A q, r \in net' : q.addr = r.addr => q = r
  <2>1. SUFFICES ASSUME NEW q \in net', NEW r \in net', q.addr = r.addr PROVE q = r
    OBVIOUS
  <2>2. PICK p \in net, u \in net : q = AgedPacket(p) /\ r = AgedPacket(u)
    BY <1>3
  <2>3. p = u
    BY <1>1, <1>4, <2>1, <2>2
  <2>. QED
    BY <2>2, <2>3
<1>6. ASSUME NEW a \in Addrs
      PROVE  /\ a \in Connected' => a \in Connected
             /\ a \in Connected => /\ conns'[a].key = conns[a].key /\ conns'[a].numA = conns[a].numA
                                   /\ conns'[a].isDHKey = conns[a].isDHKey
  <2>1. conns'[a] = IF conns[a] = None \/ conns[a].cookie = None THEN conns[a]
                    ELSE [conns[a] EXCEPT !.cookie = Aged(@)]
    BY DEF Second, Aged
  <2>2. a \in Connected => conns[a] # None /\ conns[a] \in ConnType
    BY <1>1 DEF Connected
  <2>3. \A con \in ConnType : LET old == [con EXCEPT !.cookie = Aged(@)]
                              IN  old.key = con.key /\ old.numA = con.numA /\ old.isDHKey = con.isDHKey
    BY DEF ConnType
  <2>. QED
    BY <2>1, <2>2, <2>3 DEF Connected
<1>7. ASSUME NEW c \in Clients PROVE Agrees(c)'
  <2>1. m_ulConnID'[c] # 0 => \A q \in net' : q.addr # addr'[c]
    BY <1>1, <1>2, <1>3, <1>4 DEF Agrees
  <2>2. m_ulConnID'[c] # 0 /\ addr'[c] \in Connected' => key'[c] = conns'[addr'[c]].key
    BY <1>1, <1>2, <1>6 DEF Agrees
  <2>3. ASSUME NEW q \in net', q.type = "HANDSHAKE2", q.addr = addr'[c] PROVE q.numA = secret'[c]
    <3>1. PICK p \in net : q = AgedPacket(p)
      BY <1>3
    <3>. QED
      BY <1>1, <1>2, <1>4, <2>3, <3>1 DEF Agrees
  <2>4. ASSUME NEW q \in net', q.type = "HANDSHAKE2_ACK", q.succ, q.addr = addr'[c], addr'[c] \in Connected'
        PROVE  IF q.isKey THEN q.data = conns'[addr'[c]].key
                          ELSE conns'[addr'[c]].key = Key(secret'[c], q.data)
    <3>1. PICK p \in net : q = AgedPacket(p)
      BY <1>3
    <3>2. q = p
      BY <1>4, <2>4, <3>1
    <3>3. addr[c] \in Connected /\ conns'[addr[c]].key = conns[addr[c]].key
      BY <1>1, <1>2, <1>6, <2>4
    <3>. QED
      BY <1>1, <1>2, <2>4, <3>2, <3>3 DEF Agrees, Key
  <2>. QED
    BY <2>1, <2>2, <2>3, <2>4 DEF Agrees, Key
<1>8. \A a \in Addrs : a \in Connected' /\ conns'[a].isDHKey => conns'[a].key.numA = conns'[a].numA
  BY <1>1, <1>6
<1>. QED
  BY <1>5, <1>7, <1>8 DEF CalmInv

LEMMA CalmStep == TypeOK /\ CalmInv /\ [Next]_vars => CalmInv'
<1> SUFFICES ASSUME TypeOK, CalmInv, [Next]_vars, mode = "calm" PROVE CalmInv'
  <2>1. [Next]_vars => mode' = mode
    BY DEF Next, Server, Client, vars, HandleHandShake1, HandleHandShake2Again, HandleHandShake2Refuse, HandleHandShake2New,
           FreeConn, SendHandShake1, HandleHandShake1Ack, HandleHandShake2Ack, Lose, Second
  <2>. QED
    BY <2>1 DEF CalmInv
<1>1. CASE \E p \in net : Lose(p)
  <2>1. net' \subseteq net /\ UNCHANGED <<mode, client, conns>>
    BY <1>1 DEF Lose
  <2>2. \A c \in Clients : Agrees(c)'
    BY <2>1 DEF CalmInv, Agrees, Connected, client
  <2>. QED
    BY <2>1, <2>2 DEF CalmInv, Connected
<1>2. CASE UNCHANGED vars
  BY <1>2 DEF vars, client, CalmInv, Agrees, Connected, Key
<1>. QED
  BY <1>1, <1>2, ServerCalm, ClientCalm, SecondCalm DEF Next

LEMMA InitCalm == Init => CalmInv
<1> SUFFICES ASSUME Init PROVE CalmInv
  OBVIOUS
<1>1. net = {} /\ Connected = {} /\ \A c \in Clients : m_ulConnID[c] = 0
  BY DEF Init, Connected
<1>2. \A c \in Clients : Agrees(c)
  BY <1>1 DEF Agrees
<1>. QED
  BY <1>1, <1>2 DEF CalmInv

\* A client that is connected and a connection of its address have one key, however many packets
\* are lost and connections freed, if the network repeats nothing, addresses stay, and no answer comes
\* after its client has asked again (KeysAgreeWhenCalm).
THEOREM CalmKeysAgree == Spec => []KeysAgreeWhenCalm
<1>1. TypeOK /\ CalmInv => KeysAgreeWhenCalm
  BY DEF CalmInv, Agrees, KeysAgreeWhenCalm, KeysAgree
<1>. QED
  BY <1>1, InitCalm, CalmStep, TypeCorrect, PTL DEF Spec
===============================================================================
