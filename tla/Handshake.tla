------------------------------- MODULE Handshake -------------------------------
(* How a client gets a connection: NetWork's handshake handlers on both sides,   *)
(* BaseClient::Connect and CookieMgr, over a network that loses, repeats, delays *)
(* and reorders packets, while clients' addresses may change under way.          *)
(*                                                                              *)
(* HANDSHAKE1 asks, HANDSHAKE1_ACK brings a cookie (the server keeps nothing),   *)
(* HANDSHAKE2 brings the cookie back with a public number, HANDSHAKE2_ACK says   *)
(* that there is a connection, and how to make its key.  A cookie is abstracted  *)
(* to what it authenticates, timestamps to ages, numbers and keys to the pairs   *)
(* of secrets they come from; a secret that nobody has any more may be drawn     *)
(* again.  HandleReconnect and what a connection does later are in NetConnect,   *)
(* from which here only remains that it ends, at any time.                       *)
EXTENDS Integers, FiniteSets

CONSTANTS
    Clients, Addrs,
    None,
    Secrets,            \* the client's DH secrets, and their public numbers
    Nonces,             \* the server's
    SECRET_KEY_NUM,
    MAX_HANDSHAKE_COOKIES_TIME,
    KeyPeriod,          \* seconds between two Tick20S
    Modes,              \* what the network may be like: "calm", "rough"
    MaxPackets          \* bound: packets under way

ASSUME HandshakeAssumption ==
    /\ None \notin Secrets \cup Nonces \cup Addrs
    /\ None \notin 0 .. MAX_HANDSHAKE_COOKIES_TIME + 1
    \* Each client has an address of its own.
    /\ \E f \in [Clients -> Addrs] : \A c, d \in Clients : f[c] = f[d] => c = d
    /\ {SECRET_KEY_NUM, KeyPeriod} \subseteq Nat \ {0}
    /\ MAX_HANDSHAKE_COOKIES_TIME \in Nat
    /\ Modes \subseteq {"calm", "rough"}
    /\ IsFiniteSet(Clients) /\ MaxPackets \in Nat

VARIABLES
    mode,       \* calm: no packet is repeated, no address changes, and replies
                \* come before the client asks again
    addr,       \* the address of each client
    secret,     \* its m_stEncyptData until it is connected: NumA and its secret
    m_ulConnID, \* 0 until it is connected, then its own first id
    key,        \* the key of its connection
    conns,      \* the server's connections, by address
    bKeySeq, keyAge,    \* modulo SECRET_KEY_NUM; seconds since it changed
    net,        \* packets under way
    gone,       \* history: how long ago a client had each address
    made        \* history: how long ago a secret's number has last made a connection

client == <<addr, secret, m_ulConnID, key>>
time == <<bKeySeq, keyAge>>
vars == <<mode, client, conns, time, net, gone, made>>
-------------------------------------------------------------------------------
(* Packets. *)
OldAge == MAX_HANDSHAKE_COOKIES_TIME + 1
Older(age, max) == IF age < max THEN age + 1 ELSE age

Cookie(a, age, seq) == [addr |-> a, age |-> age, key |-> seq % SECRET_KEY_NUM]

HandShake1(a) == [type |-> "HANDSHAKE1", addr |-> a]
HandShake1Ack(a, cookie) == [type |-> "HANDSHAKE1_ACK", addr |-> a, cookie |-> cookie]
HandShake2(a, cookie, numA) == [type |-> "HANDSHAKE2", addr |-> a, cookie |-> cookie, numA |-> numA]
\* The client looks at dwConnId only to see whether it is 0, which it is for a
\* failure (and, after 2^32 connections, once for a success).
Fail(a) == [type |-> "HANDSHAKE2_ACK", addr |-> a, succ |-> FALSE]
\* With a DH key, the nonce in it; without, the key itself.
Succ(a, conn) == [type |-> "HANDSHAKE2_ACK", addr |-> a, succ |-> TRUE, isKey |-> ~conn.isDHKey,
                  data |-> IF conn.isDHKey THEN conn.key.nonce ELSE conn.key]

Key(numA, nonce) == [numA |-> numA, nonce |-> nonce]

\* A packet is received: it is gone, or it has been repeated.
Received(p) == {net \ {p}} \cup (IF mode = "rough" THEN {net} ELSE {})

\* It is answered, if it is, with one packet.
Answered(p, answers) ==
    \E rest \in Received(p) :
        /\ Cardinality(rest \cup answers) <= MaxPackets
        /\ net' = rest \cup answers

\* What is drawn is in nobody's memory and in no packet; which of them it is does not
\* matter.
Connected == {a \in Addrs : conns[a] # None}
Keys == ({key[c] : c \in Clients} \cup {conns[a].key : a \in Connected}) \ {None}
SecretsInUse ==
    {secret[c] : c \in Clients} \cup {k.numA : k \in Keys} \cup {conns[a].numA : a \in Connected}
        \cup {p.numA : p \in {q \in net : q.type = "HANDSHAKE2"}}
NoncesInUse ==
    {k.nonce : k \in Keys}
        \cup {IF p.isKey THEN p.data.nonce ELSE p.data : p \in {q \in net : q.type = "HANDSHAKE2_ACK" /\ q.succ}}
Drawn(all, used) == CHOOSE x \in all : x \notin used
-------------------------------------------------------------------------------
(* The server. *)
\* HANDSHAKE1: who has a connection is not answered, anybody else gets a cookie.
HandleHandShake1(p) ==
    /\ p.type = "HANDSHAKE1"
    /\ Answered(p, IF p.addr \in Connected THEN {}
                   ELSE {HandShake1Ack(p.addr, Cookie(p.addr, 0, bKeySeq))})
    /\ UNCHANGED <<mode, client, conns, time, gone, made>>

\* HANDSHAKE2 where a connection exists: answered again, if it is the one that made
\* the connection.  The cookie it should have is made with the current key, and compared
\* with what the connection kept of the first one, which is seldom the whole of it.
HandleHandShake2Again(p) ==
    /\ p.type = "HANDSHAKE2" /\ p.addr \in Connected
    /\ LET conn == conns[p.addr]
           same == /\ conn.cookie = Cookie(p.addr, p.cookie.age, bKeySeq)
                   /\ conn.cookie = p.cookie /\ conn.numA = p.numA
       IN  Answered(p, IF same THEN {Succ(p.addr, conn)} ELSE {})
    /\ UNCHANGED <<mode, client, conns, time, gone, made>>

\* Mutant: the age of the cookie is not looked at.
ValidAnyAge(p) == p.cookie = Cookie(p.addr, p.cookie.age, p.cookie.key)

Valid(p) ==
    /\ p.cookie.age <= MAX_HANDSHAKE_COOKIES_TIME
    /\ p.cookie = Cookie(p.addr, p.cookie.age, p.cookie.key)

\* Otherwise it is refused if the cookie is too old or is not this address's, or if
\* no connection can be made (CreateNewConn) ...
HandleHandShake2Refuse(p) ==
    /\ p.type = "HANDSHAKE2" /\ p.addr \notin Connected
    /\ Answered(p, {Fail(p.addr)})
    /\ UNCHANGED <<mode, client, conns, time, gone, made>>

\* What a connection keeps of its cookie, which it copies as a string: up to its first zero
\* byte, and without the last of its 20 bytes unless that is zero.  What is not the
\* whole cookie equals none, and is None.
Kept(cookie, isWhole) == IF isWhole THEN cookie ELSE None

\* ... and else a connection is made, with a key both sides can compute or, if
\* OpenSSL fails, with a random one.
HandleHandShake2New(p, isDHKey, isWhole) ==
    /\ p.type = "HANDSHAKE2" /\ p.addr \notin Connected
    /\ Valid(p)
    /\ Nonces \ NoncesInUse # {}
    /\ LET nonce == Drawn(Nonces, NoncesInUse)
           conn == [cookie |-> Kept(p.cookie, isWhole), numA |-> p.numA, isDHKey |-> isDHKey,
                    key |-> Key(IF isDHKey THEN p.numA ELSE None, nonce)]
       IN  /\ conns' = [conns EXCEPT ![p.addr] = conn]
           /\ Answered(p, {Succ(p.addr, conn)})
    /\ made' = [made EXCEPT ![p.numA] = 0]
    /\ UNCHANGED <<mode, client, time, gone>>

\* The connection ends, whoever ends it, and is freed (see NetConnect).
FreeConn(a) ==
    /\ a \in Connected
    /\ conns' = [conns EXCEPT ![a] = None]
    /\ UNCHANGED <<mode, client, time, net, gone, made>>
-------------------------------------------------------------------------------
(* A client. *)
Held(a) == \E c \in Clients : addr[c] = a

\* Mutant: HANDSHAKE1 is not sent again once it was answered.
SendHandShake1Once(c) ==
    /\ m_ulConnID[c] = 0 /\ secret[c] = None
    /\ mode = "calm" => \A p \in net : p.addr # addr[c]
    /\ HandShake1(addr[c]) \notin net /\ Cardinality(net) < MaxPackets
    /\ net' = net \cup {HandShake1(addr[c])}
    /\ UNCHANGED <<mode, client, conns, time, gone, made>>

\* BaseClient::Connect: at once, and every 5 seconds until it is connected.
SendHandShake1(c) ==
    /\ m_ulConnID[c] = 0
    /\ mode = "calm" => \A p \in net : p.addr # addr[c]
    /\ HandShake1(addr[c]) \notin net /\ Cardinality(net) < MaxPackets
    /\ net' = net \cup {HandShake1(addr[c])}
    /\ UNCHANGED <<mode, client, conns, time, gone, made>>

\* Mutant: the secret drawn first is kept, though a new number is sent.
HandleHandShake1AckKeep(c, p, a) ==
    /\ p.type = "HANDSHAKE1_ACK" /\ p.addr = addr[c]
    /\ Secrets \ SecretsInUse # {}
    /\ a # addr[c] => mode = "rough" /\ ~Held(a)
    /\ LET s == Drawn(Secrets, SecretsInUse)
       IN  /\ secret' = [secret EXCEPT ![c] = IF @ = None THEN s ELSE @]
           /\ Answered(p, {HandShake2(a, p.cookie, s)})
           /\ made' = [made EXCEPT ![s] = None]
    /\ addr' = [addr EXCEPT ![c] = a]
    /\ gone' = [gone EXCEPT ![a] = 0]
    /\ UNCHANGED <<mode, m_ulConnID, key, conns, time>>

\* HANDSHAKE1_ACK, whatever was asked or answered before: new numbers are drawn.
\* The packet may leave from another address than the cookie's.
HandleHandShake1Ack(c, p, a) ==
    /\ p.type = "HANDSHAKE1_ACK" /\ p.addr = addr[c]
    /\ Secrets \ SecretsInUse # {}
    /\ a # addr[c] => mode = "rough" /\ ~Held(a)
    /\ LET s == Drawn(Secrets, SecretsInUse)
       IN  /\ secret' = [secret EXCEPT ![c] = IF m_ulConnID[c] = 0 THEN s ELSE None]
           /\ Answered(p, {HandShake2(a, p.cookie, s)})
           /\ made' = [made EXCEPT ![s] = None]
    /\ addr' = [addr EXCEPT ![c] = a]
    /\ gone' = [gone EXCEPT ![a] = 0]
    /\ UNCHANGED <<mode, m_ulConnID, key, conns, time>>

\* HANDSHAKE2_ACK: the first success is taken, whichever HANDSHAKE2 it answers.  The
\* connection's id is the first of the client's own AllocID, not the server's.
HandleHandShake2Ack(c, p) ==
    /\ p.type = "HANDSHAKE2_ACK" /\ p.addr = addr[c]
    /\ IF m_ulConnID[c] > 0 \/ ~p.succ
       THEN UNCHANGED <<m_ulConnID, key, secret>>
       ELSE /\ m_ulConnID' = [m_ulConnID EXCEPT ![c] = 1]
            /\ secret' = [secret EXCEPT ![c] = None]
            /\ key' = [key EXCEPT ![c] = IF p.isKey THEN p.data ELSE Key(secret[c], p.data)]
    /\ Answered(p, {})
    /\ UNCHANGED <<mode, addr, conns, time, gone, made>>
-------------------------------------------------------------------------------
\* A packet gets lost, or reaches nobody, or OpenSSL fails where nothing but an
\* early return follows.
Lose(p) ==
    /\ net' = net \ {p}
    /\ UNCHANGED <<mode, client, conns, time, gone, made>>

\* Mutant: the number of the key is not taken modulo the number of keys.
SecondWide ==
    LET Aged(cookie) == [cookie EXCEPT !.age = Older(@, OldAge)] IN
    /\ net' = {IF p.type \in {"HANDSHAKE1_ACK", "HANDSHAKE2"} THEN [p EXCEPT !.cookie = Aged(@)] ELSE p : p \in net}
    /\ conns' = [a \in Addrs |->
                    IF conns[a] = None \/ conns[a].cookie = None THEN conns[a]
                    ELSE [conns[a] EXCEPT !.cookie = Aged(@)]]
    /\ gone' = [a \in Addrs |-> IF Held(a) THEN 0 ELSE Older(gone[a], OldAge)]
    /\ keyAge' = (keyAge + 1) % KeyPeriod
    /\ bKeySeq' = IF keyAge' = 0 THEN bKeySeq + 1 ELSE bKeySeq
    /\ made' = [s \in Secrets |-> IF made[s] = None THEN None ELSE Older(made[s], OldAge)]
    /\ UNCHANGED <<mode, client>>

\* A second goes by: everything is older, and the key changes every 20 seconds.
Second ==
    LET Aged(cookie) == [cookie EXCEPT !.age = Older(@, OldAge)] IN
    /\ net' = {IF p.type \in {"HANDSHAKE1_ACK", "HANDSHAKE2"} THEN [p EXCEPT !.cookie = Aged(@)] ELSE p : p \in net}
    /\ conns' = [a \in Addrs |->
                    IF conns[a] = None \/ conns[a].cookie = None THEN conns[a]
                    ELSE [conns[a] EXCEPT !.cookie = Aged(@)]]
    /\ gone' = [a \in Addrs |-> IF Held(a) THEN 0 ELSE Older(gone[a], OldAge)]
    /\ keyAge' = (keyAge + 1) % KeyPeriod
    /\ bKeySeq' = IF keyAge' = 0 THEN (bKeySeq + 1) % SECRET_KEY_NUM ELSE bKeySeq
    /\ made' = [s \in Secrets |-> IF made[s] = None THEN None ELSE Older(made[s], OldAge)]
    /\ UNCHANGED <<mode, client>>

Init ==
    /\ mode \in Modes
    \* (Which addresses these are does not matter.)
    /\ addr = CHOOSE f \in [Clients -> Addrs] : \A c, d \in Clients : f[c] = f[d] => c = d
    /\ secret = [c \in Clients |-> None]
    /\ m_ulConnID = [c \in Clients |-> 0]
    /\ key = [c \in Clients |-> None]
    /\ conns = [a \in Addrs |-> None]
    /\ bKeySeq = 0 /\ keyAge = 0
    /\ net = {}
    /\ gone = [a \in Addrs |-> IF Held(a) THEN 0 ELSE OldAge]
    /\ made = [s \in Secrets |-> None]

Server ==
    \/ \E p \in net : HandleHandShake1(p)
    \/ \E p \in net : HandleHandShake2Again(p)
    \/ \E p \in net : HandleHandShake2Refuse(p)
    \/ \E p \in net, dh, whole \in BOOLEAN : HandleHandShake2New(p, dh, whole)
    \/ \E a \in Addrs : FreeConn(a)

Client(c) ==
    \/ SendHandShake1(c)
    \/ \E p \in net, a \in Addrs : HandleHandShake1Ack(c, p, a)
    \/ \E p \in net : HandleHandShake2Ack(c, p)

Next ==
    \/ Server
    \/ \E c \in Clients : Client(c)
    \/ \E p \in net : Lose(p)
    \/ Second

Spec == Init /\ [][Next]_vars
-------------------------------------------------------------------------------
\* A client tries again until it is connected; a packet of a kind that is sent again
\* and again arrives at last, and before its cookie is too old; a connection
\* can be made at last; and one whose client does not know of it is freed, since no
\* heartbeat keeps it alive.  No packet is under way for ever.
Fairness ==
    /\ \A c \in Clients :
        /\ WF_vars(SendHandShake1(c))
        /\ SF_vars(\E p \in net : HandleHandShake1(p) /\ p.addr = addr[c])
        /\ SF_vars(\E p \in net, a \in Addrs : HandleHandShake1Ack(c, p, a) /\ p.cookie.age = 0)
        /\ SF_vars(\E p \in net, whole \in BOOLEAN : HandleHandShake2New(p, TRUE, whole) /\ p.addr = addr[c])
        /\ SF_vars(\E p \in net : HandleHandShake2Ack(c, p) /\ p.succ)
    /\ \A a \in Addrs : WF_vars(FreeConn(a)) /\ WF_vars(\E p \in net : p.addr = a /\ Lose(p))
    /\ WF_vars(Second)

FairSpec == Spec /\ Fairness
-------------------------------------------------------------------------------
CookieType == [addr : Addrs, age : 0 .. OldAge, key : 0 .. SECRET_KEY_NUM - 1]
KeyType == [numA : Secrets \cup {None}, nonce : Nonces]
ConnType == [cookie : CookieType \cup {None}, numA : Secrets, isDHKey : BOOLEAN, key : KeyType]

Packet ==
    [type : {"HANDSHAKE1"}, addr : Addrs]
    \cup [type : {"HANDSHAKE1_ACK"}, addr : Addrs, cookie : CookieType]
    \cup [type : {"HANDSHAKE2"}, addr : Addrs, cookie : CookieType, numA : Secrets]
    \cup [type : {"HANDSHAKE2_ACK"}, addr : Addrs, succ : {FALSE}]
    \cup [type : {"HANDSHAKE2_ACK"}, addr : Addrs, succ : {TRUE}, isKey : {FALSE}, data : Nonces]
    \cup [type : {"HANDSHAKE2_ACK"}, addr : Addrs, succ : {TRUE}, isKey : {TRUE}, data : KeyType]

\* Types; two clients never have one address.
TypeOK ==
    /\ mode \in Modes
    /\ addr \in [Clients -> Addrs]
    /\ \A c, d \in Clients : addr[c] = addr[d] => c = d
    /\ secret \in [Clients -> Secrets \cup {None}]
    /\ m_ulConnID \in [Clients -> {0, 1}]
    /\ key \in [Clients -> KeyType \cup {None}]
    /\ conns \in [Addrs -> ConnType \cup {None}]
    /\ bKeySeq \in 0 .. SECRET_KEY_NUM - 1 /\ keyAge \in 0 .. KeyPeriod - 1
    /\ net \subseteq Packet
    /\ gone \in [Addrs -> 0 .. OldAge]
    /\ made \in [Secrets -> (0 .. OldAge) \cup {None}]

\* A client that is connected, and a connection of its address, have one key.
KeysAgree ==
    \A c \in Clients :
        m_ulConnID[c] # 0 /\ addr[c] \in Connected => key[c] = conns[addr[c]].key

\* They do if nothing is repeated, addresses stay, and an answer never comes after the
\* client has asked again, whatever is lost and however long the server keeps a
\* connection whose client never heard of it.
KeysAgreeWhenCalm == mode = "calm" => KeysAgree

Created(a) == conns[a] = None /\ conns'[a] # None

\* A connection is made only for an address that a client had within the time a
\* cookie is good for, however long a HANDSHAKE2 was under way.
MadeForTheLiving == [][\A a \in Addrs : Created(a) => gone[a] <= MAX_HANDSHAKE_COOKIES_TIME]_vars

\* A HANDSHAKE2 that is repeated, and comes again when the connection it made is
\* freed, makes another one that nobody uses, but only as long as its cookie is good: a
\* connection that lasted longer never comes back.
NeverMadeAgainLater == [][\A a \in Addrs : Created(a) => made[conns'[a].numA] # OldAge]_vars

\* A client gets its connection, whichever packets are lost, also when the answer
\* to HANDSHAKE2 is: the connection it does not know of must go first.
Connects == \A c \in Clients : mode = "calm" ~> m_ulConnID[c] # 0
===============================================================================
