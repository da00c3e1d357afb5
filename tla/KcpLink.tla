------------------------------- MODULE KcpLink -------------------------------
(* A reliable stream from one end of a connection to the other: the sending     *)
(* half of ikcp.c at the server, under the server's NetConnect, the receiving    *)
(* half (KcpRecv) at the client, and a network that loses, repeats and reorders  *)
(* datagrams.  It is shown to keep to KcpRecv's Spec, so the promise of MsgQueue *)
(* holds of it too, and what KcpRecv assumes of the peer is what this peer does. *)
(*                                                                              *)
(* Clocks are left out: a retransmission timer, a fast retransmission or the     *)
(* window probe may be due at any flush.  The acknowledgements of a flush travel  *)
(* in one datagram, each data segment in one of its own.  Of the server's        *)
(* NetConnect there remain what decides whether KCP runs: DisConnect,            *)
(* FinConnect, Reconnect and ClearConnData.                                     *)
EXTENDS KcpRecv

CONSTANTS
    KCP_CONF_MAX_WAITSND,
    ackblock,           \* places in the list of acknowledgements
    dead_link,          \* transmissions of one segment that make a dead link
    Lifetime,           \* how far behind, in segments, a late datagram still arrives
    MaxAcks             \* bound: datagrams on their way to the server

ASSUME LinkAssumption ==
    /\ {KCP_CONF_MAX_WAITSND, ackblock, dead_link, Lifetime, MaxAcks} \subseteq Nat \ {0}

VARIABLES
    mode,               \* "calm": one datagram at a time is on its way to the server;
                        \* "rough": several are
    m_eState,           \* the server's connection: ESTABLISHED, DISCONNET, FIN_WAIT1
    finSent,            \* whether it has sent NET_PACKET_FIN
    cleared,            \* whether ClearConnData threw away what KCP had to send
    snd_una, snd_nxt,
    snd_queue,          \* fragments not numbered yet
    snd_buf,            \* segments in flight, each with its count of transmissions
    rmt_wnd,
    probing,            \* probe_wait # 0
    state,              \* of the ikcpcb: "ok" (0) or "dead" (-1); a broken link (-2) is
                        \* given up in the same step
    acks, ackcount,     \* at the client: the acknowledgements to flush
    askTell,            \* at the client: IKCP_ASK_TELL is in probe
    toClient,           \* on their way: segments (their positions in the stream),
                        \* and maybe an IKCP_CMD_WASK
    toServer,           \* on their way: acknowledgements and answers to probes
    arrived             \* history: the positions of the segments the client accepted

kcb == <<snd_una, snd_nxt, snd_queue, snd_buf, rmt_wnd, probing, state>>
server == <<mode, m_eState, finSent, cleared, kcb>>
link == <<server, acks, ackcount, askTell, arrived, toClient, toServer>>
linkVars == <<kvars, link>>
-------------------------------------------------------------------------------
(* The network.  A datagram that was received may come again: of a segment the    *)
(* client has accepted at any time, of what the server received while it is kept.  *)

WASK == 0

\* The place of a segment in the stream.
Position(seg) == CHOOSE p \in 1 .. Len(stream) : stream[p].msg = seg.msg /\ stream[p].frg = seg.frg

Places == IF mode = "calm" THEN 1 ELSE MaxAcks

\* The network takes a datagram to the server, and loses another when there are too
\* many.
Takes(d) == \E kept \in SUBSET toServer :
    /\ toServer' = kept \union {d}
    /\ Cardinality(toServer') = Min({Places, Cardinality(toServer \union {d})})

\* A datagram to the client, or one to the server, is lost.
Lose(x) ==
    /\ x \in toClient
    /\ toClient' = toClient \ {x}
    /\ UNCHANGED <<kvars, server, acks, ackcount, askTell, arrived, toServer>>

LoseReply(d) ==
    /\ toServer' = toServer \ {d}
    /\ UNCHANGED <<kvars, server, acks, ackcount, askTell, arrived, toClient>>
-------------------------------------------------------------------------------
(* The server. *)

\* GetWaitSnd
Waiting == Len(snd_buf) + Len(snd_queue)

\* NetConnect::SendMsg of a reliable message, KcpWrapper::Send and ikcp_send.
SendMsg(m) ==
    /\ m_eState = "ESTABLISHED"
    /\ Waiting < KCP_CONF_MAX_WAITSND
    /\ SendNumbered(m, snd_nxt + Len(snd_queue))
    /\ snd_queue' = snd_queue \o
         [k \in 1 .. FragCount(m) |-> [frg |-> FragCount(m) - k, msg |-> Len(sent) + 1]]
    /\ UNCHANGED <<mode, m_eState, finSent, cleared, snd_una, snd_nxt, snd_buf, rmt_wnd, probing, state,
                   acks, ackcount, askTell, arrived, toClient, toServer>>

\* Mutant: the windows are not looked at.
MovedAll == Len(snd_queue)

\* How many segments ikcp_flush moves from snd_queue to snd_buf.
Moved ==
    LET window == Min({snd_wnd, rmt_wnd})
    IN  Min({Len(snd_queue), Max({0, window - itimediff(snd_nxt, snd_una)})})

\* snd_buf with them, numbered.
Numbered ==
    snd_buf \o [j \in 1 .. Moved |-> [sn |-> (snd_nxt + j - 1) % SnMod, frg |-> snd_queue[j].frg,
                                      msg |-> snd_queue[j].msg, xmit |-> 0]]

\* Whether the peer is asked for its window: it was zero at an earlier flush too.
Asks(probeDue) == rmt_wnd = 0 /\ probing /\ probeDue

\* Mutant: only the first transmission of a segment is tested.
SentTooOftenFirst(seg) == seg.xmit = 0 /\ seg.xmit + 1 >= dead_link

\* Whether a segment about to be sent has been sent so often that the link is dead.
SentTooOften(seg) == seg.xmit + 1 >= dead_link

\* ikcp_flush of the sending half.  It sends the new segments and those that are due.
Flush(due, probeDue) ==
    LET buf == Numbered
        now == {i \in 1 .. Len(buf) : i \in due \/ buf[i].xmit = 0}
    IN  /\ snd_buf' = [i \in 1 .. Len(buf) |->
                         IF i \in now THEN [buf[i] EXCEPT !.xmit = Min({@ + 1, dead_link})] ELSE buf[i]]
        /\ toClient' = toClient \union ({Position(buf[i]) : i \in now} \ arrived)
                                \union (IF Asks(probeDue) THEN {WASK} ELSE {})
        /\ state' = IF \E i \in now : SentTooOften(buf[i]) THEN "dead" ELSE state
        /\ snd_queue' = SubSeq(snd_queue, Moved + 1, Len(snd_queue))
        /\ snd_nxt' = (snd_nxt + Moved) % SnMod
        /\ probing' = (rmt_wnd = 0)
        /\ UNCHANGED <<snd_una, rmt_wnd>>

\* Mutant: a connection about to finish does not wait for what is in flight.
FinishesEarly == m_eState = "FIN_WAIT1" /\ snd_queue' = <<>>

\* NetConnect::Proc sends the FIN once nothing is waiting.
Finishes == m_eState = "FIN_WAIT1" /\ snd_queue' = <<>> /\ snd_buf' = <<>>

\* NetConnect::Proc: Update, then the tests for a dead link and for the FIN.
Proc(due, probeDue) ==
    /\ m_eState # "DISCONNET"
    /\ UNCHANGED <<kvars, mode, cleared, acks, ackcount, askTell, arrived, toServer>>
    /\ Flush(due, probeDue)
    /\ m_eState' = IF m_eState = "ESTABLISHED" /\ state' = "dead" THEN "DISCONNET" ELSE m_eState
    /\ finSent' = (finSent \/ Finishes)

\* The main thread closes the connection.
FinConnect ==
    /\ m_eState = "ESTABLISHED"
    /\ m_eState' = "FIN_WAIT1"
    /\ UNCHANGED <<kvars, mode, finSent, cleared, kcb, acks, ackcount, askTell, arrived, toClient, toServer>>

\* KcpWrapper::Reset.
ResetKcp ==
    /\ snd_una' = 0 /\ snd_nxt' = 0
    /\ snd_queue' = <<>> /\ snd_buf' = <<>>
    /\ rmt_wnd' = IKCP_WND_RCV
    /\ probing' = FALSE
    /\ state' = "ok"

\* Mutant: KCP is reset although it was not cleared.
ReconnectAnew ==
    /\ m_eState = "DISCONNET" /\ ~crashed
    /\ m_eState' = "ESTABLISHED"
    /\ ResetKcp
    /\ UNCHANGED <<kvars, mode, finSent, cleared, acks, ackcount, askTell, arrived, toClient, toServer>>

\* The client asks to reconnect, and NetConnect::Reconnect accepts: KCP goes on where
\* it was, its counts of transmissions started anew.
Reconnect ==
    /\ m_eState = "DISCONNET" /\ ~crashed
    /\ m_eState' = "ESTABLISHED"
    /\ state' = "ok"
    /\ snd_buf' = [i \in 1 .. Len(snd_buf) |-> [snd_buf[i] EXCEPT !.xmit = 0]]
    /\ UNCHANGED <<kvars, mode, finSent, cleared, snd_una, snd_nxt, snd_queue, rmt_wnd, probing,
                   acks, ackcount, askTell, arrived, toClient, toServer>>

\* The sequence number una carries is that of the first segment not taken.
Una(d) == d.taken % SnMod

\* What is left of snd_buf after ikcp_parse_una of una, and then after
\* ikcp_parse_ack of the acknowledgements in it.
AfterUna(una) ==
    SubSeq(snd_buf, 1 + Max({0} \union {n \in 1 .. Len(snd_buf) :
                                \A i \in 1 .. n : itimediff(una, snd_buf[i].sn) > 0}),
           Len(snd_buf))

\* The elements of s at some of its places, in their order.
At(s, places) ==
    [k \in 1 .. Cardinality(places) |->
       s[CHOOSE i \in places : Cardinality({j \in places : j <= i}) = k]]

\* Mutant: an acknowledgement removes what came before it as well.
AfterAcksAll(buf, sns) ==
    At(buf, {i \in 1 .. Len(buf) : \A sn \in sns : itimediff(sn, buf[i].sn) < 0})

AfterAcks(buf, sns) == At(buf, {i \in 1 .. Len(buf) : buf[i].sn \notin sns})

\* ikcp_input of a datagram without data.
InputAcks(d) ==
    LET buf == AfterAcks(AfterUna(Una(d)), d.acks)
    IN  /\ snd_buf' = buf
        /\ snd_una' = IF buf = <<>> THEN snd_nxt ELSE buf[1].sn
        /\ rmt_wnd' = d.wnd
        /\ UNCHANGED <<snd_nxt, snd_queue, probing, state>>

\* Whether KCP finds una ahead of all that it has numbered.
IsSnBroken(d) == itimediff(Una(d), snd_nxt) > 0

\* HandleNetMsg of a datagram of the client: NetConnect::RecvReliable, which gives up
\* a link KCP finds broken ...
RecvReliable(d) ==
    /\ m_eState # "DISCONNET"
    /\ taken - Lifetime <= d.taken
    /\ toServer' \in {toServer, toServer \ {d}}
    /\ IF IsSnBroken(d)
       THEN /\ ResetKcp
            /\ cleared' = TRUE
            /\ m_eState' = IF m_eState = "ESTABLISHED" THEN "DISCONNET" ELSE m_eState
       ELSE InputAcks(d) /\ UNCHANGED <<m_eState, cleared>>
    /\ UNCHANGED <<kvars, mode, finSent, acks, ackcount, askTell, arrived, toClient>>

\* ... and, of a connection that is DISCONNET, ClearConnData.  The client's KCP is
\* not reset with it: the two ends no longer agree on the numbers of segments, and
\* the behaviour is followed no further.
RecvWhileDisconnected(d) ==
    /\ m_eState = "DISCONNET"
    /\ toServer' \in {toServer, toServer \ {d}}
    /\ ResetKcp
    /\ cleared' = TRUE
    /\ UNCHANGED <<kvars, mode, m_eState, finSent, acks, ackcount, askTell, arrived, toClient>>
-------------------------------------------------------------------------------
(* The client. *)

\* ikcp_wnd_unused
Unused == Max({0, rcv_wnd - Len(rcv_queue)})

\* ikcp_ack_push drops an acknowledgement its list is too full for.  (Where there is no
\* list, the first one is written through NULL: InputSegment.)
AckPush(sn) ==
    IF Acked(sn) /\ ~WritesNull(sn) /\ ackcount < ackblock
    THEN acks' = acks \union {sn} /\ ackcount' = ackcount + 1
    ELSE UNCHANGED <<acks, ackcount>>

\* ikcp_input of a data segment ...
RecvPush(p) ==
    /\ p \in toClient \union arrived
    /\ taken - Lifetime - snd_wnd < p
    /\ toClient' = toClient \ {p}
    /\ AckPush(stream[p].sn)
    /\ InputSegment(stream[p])
    /\ arrived' = arrived \union
                    (IF InWindow(stream[p].sn) /\ ~WritesNull(stream[p].sn) THEN {p} ELSE {})
    /\ UNCHANGED <<server, askTell, toServer>>

\* ... and of a window probe.
RecvAsk ==
    /\ ~crashed
    /\ WASK \in toClient
    /\ toClient' = toClient \ {WASK}
    /\ askTell' = TRUE
    /\ UNCHANGED <<kvars, server, acks, ackcount, arrived, toServer>>

\* ikcp_flush of the acknowledgements and of the answer to a probe.
AckFlush ==
    /\ ~crashed
    /\ ackcount > 0 \/ askTell
    /\ Takes([taken |-> taken, wnd |-> Unused, acks |-> acks])
    /\ acks' = {} /\ ackcount' = 0
    /\ askTell' = FALSE
    /\ UNCHANGED <<kvars, server, arrived, toClient>>

\* ikcp_recv, which announces the window when it was full and no longer is.
ClientRecv ==
    /\ Recv
    /\ askTell' = (askTell \/ (/\ Len(rcv_queue) >= rcv_wnd
                               /\ Len(rcv_queue') < rcv_wnd))
    /\ UNCHANGED <<server, acks, ackcount, arrived, toClient, toServer>>
-------------------------------------------------------------------------------
LinkStart ==
    /\ Init
    /\ mode \in {"calm", "rough"}
    /\ m_eState = "ESTABLISHED" /\ finSent = FALSE
    /\ snd_una = 0 /\ snd_nxt = 0 /\ snd_queue = <<>> /\ snd_buf = <<>>
    /\ rmt_wnd = IKCP_WND_RCV /\ probing = FALSE /\ state = "ok"
    /\ acks = {} /\ ackcount = 0 /\ askTell = FALSE
    /\ toClient = {} /\ toServer = {} /\ arrived = {}

\* No datagram arrives so late that its numbers are taken for new ones: those in an
\* acknowledgement may be Lifetime older than the client's list of them, which may be
\* two windows behind what the client has taken and is as late again at the server.
LinkInit ==
    /\ LinkStart
    /\ cleared = FALSE
    /\ 2 * Lifetime + 2 * rcv_wnd + 3 * snd_wnd <= SnMod

LinkNext ==
    \/ /\ ~cleared
       /\ \/ \E m \in Msgs : SendMsg(m)
          \/ \E due \in SUBSET (1 .. Len(snd_buf)), probeDue \in BOOLEAN : Proc(due, probeDue)
          \/ FinConnect
          \/ Reconnect
          \/ \E d \in toServer : RecvReliable(d)
          \/ \E d \in toServer : RecvWhileDisconnected(d)
          \/ \E p \in 1 .. Len(stream) : RecvPush(p)
          \/ RecvAsk
          \/ AckFlush
          \/ ClientRecv
          \/ \E x \in toClient : Lose(x)
          \/ \E d \in toServer : LoseReply(d)
    \/ (cleared \/ crashed) /\ UNCHANGED linkVars

LinkSpec == LinkInit /\ [][LinkNext]_linkVars

\* The server's net thread keeps running, so that every timer of its KCP is due at some
\* flush.  Nothing is assumed of the client and of the network.
LinkFairness == WF_linkVars(~cleared /\ Proc(1 .. Len(snd_buf), TRUE))

FairLinkSpec == LinkSpec /\ LinkFairness
-------------------------------------------------------------------------------
\* What arrives at the client keeps to KcpRecv's account of a peer and its network:
\* segments of the stream as it was cut, none further ahead than the window.
KeepsToRecv == Spec

\* Nothing sent is forgotten, also when acknowledgements come late, twice or out of
\* order: a numbered segment is kept for retransmission until it has arrived, and no
\* acknowledgement makes KCP take the link for broken (the "sn" checking of
\* ikcp_input), after which the server would throw its data away.
KeptUntilArrived ==
    ~cleared =>
        /\ \A p \in 1 .. Len(stream) - Len(snd_queue) :
              p \in arrived \/ \E i \in 1 .. Len(snd_buf) : Position(snd_buf[i]) = p
        /\ \A d \in toServer : taken - Lifetime <= d.taken => ~IsSnBroken(d)

\* Nothing fills up beyond its limit, whatever is late or lost: what the server has in
\* flight is within its window, also where the window is measured by numbers that wrap;
\* KCP_CONF_MAX_WAITSND, tested before a message is cut up, is exceeded by the rest of one
\* message at most; and of what waits at the client no segment waits twice.
Bounded ==
    /\ Len(snd_buf) <= snd_wnd
    /\ Waiting <= KCP_CONF_MAX_WAITSND + IKCP_WND_RCV - 2
    /\ Len(rcv_buf) <= rcv_wnd /\ Len(rcv_queue) <= rcv_wnd

\* NET_PACKET_FIN is sent when all reliable messages have got through (the comment at
\* its definition).
FinAfterAll == finSent => arrived = 1 .. Len(stream)

IsInFlight(sn) == \E k \in 1 .. Len(snd_buf) : snd_buf[k].sn = sn

\* Segment sn of the server does not stay in flight for ever: it is acknowledged,
\* or the link is found dead, whatever is lost and also when the client's process is gone;
\* unless the server throws its data away.
HeardOrDead(sn) ==
    IsInFlight(sn) ~> (~IsInFlight(sn) \/ state = "dead" \/ cleared)
===============================================================================
