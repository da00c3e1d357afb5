--------------------------------- MODULE MCKcp ---------------------------------
(* Small instances for TLC of KcpRecv and of the two modules that are built on it:  *)
(* RecvLoop, where the network does whatever KcpRecv allows, and KcpLink, where it  *)
(* carries what a peer's KCP sends.  Which of them a behaviour is of is chosen at   *)
(* its start, and with it the windows.  (The receive loop never ends: only a        *)
(* behaviour of KcpRecv alone gets past a wrap of the sequence numbers.)            *)
EXTENDS RecvLoop, KcpLink

CONSTANTS empty, short, full, over, huge, Which

\* Messages of no bytes, of one segment, of two (the longest one the loop accepts, and
\* one byte more), and of as many segments as the receive window has places.
LengthVal == [m \in Msgs |-> CASE m = empty -> 0 [] m = short -> 1 [] m = full -> 3
                               [] m = over -> 4 [] m = huge -> 7]

RecvWindows == [snd |-> 3, rcv |-> 3]
LoopWindows == [snd |-> 3, rcv |-> 2]
LinkWindows == [snd |-> 2, rcv |-> 2]
WindowsVal == {RecvWindows, LoopWindows, LinkWindows}

VARIABLE part           \* "recv", "loop" or "link"

vars == <<part, kvars, loop, link>>

\* Where KcpLink is not followed, it stands still, as a link that is cleared.
MCInit ==
    /\ LoopInit
    /\ \/ part \in {"recv", "loop"} /\ LinkStart /\ cleared = TRUE /\ mode = "rough"
       \/ part = "link" /\ LinkInit
    /\ part \in Which
    /\ [snd |-> snd_wnd, rcv |-> rcv_wnd] = 
          CASE part = "recv" -> RecvWindows [] part = "loop" -> LoopWindows [] part = "link" -> LinkWindows

\* How many segments a link carries.  Three are more than its receive window takes.
Most == IF mode = "calm" THEN 3 ELSE 2

AckListsVal == {"NULL", "places"}
NoAckList == {"NULL"}

\* The messages of each part.  In "recv" the first ones are long: numbers wrap soon.
MCNext ==
    \/ /\ part = "recv"
       /\ Next
       /\ \A n \in 1 .. Len(sent') : sent'[n] \in IF n <= 3 THEN {full} ELSE {short, full, huge}
       /\ UNCHANGED <<part, loop, link>>
    \/ /\ part = "loop"
       /\ LoopNext
       /\ Len(sent') <= 4
       /\ UNCHANGED <<part, link>>
    \/ /\ part = "link"
       /\ LinkNext
       /\ Len(stream') <= Most
       /\ Len(sent') <= 2
       /\ \A n \in 1 .. Len(sent') : sent'[n] \in {short, full}
       /\ UNCHANGED <<part, loop>>

MCSpec == MCInit /\ [][MCNext]_vars /\ Fairness /\ LinkFairness

\* Of the messages the loop takes out of KCP, the main thread's queue gets each one of a
\* good length that RecvOneMsg does not fail for (RecvLoop).
LoopHandsGoodOnes == part = "loop" => GoodOnesHanded

\* The loop takes out all that has arrived (RecvLoop).
LoopTakesOut == part = "loop" => ArrivedTakenOut

\* A segment is acknowledged or the link found dead (KcpLink), for all the numbers that a
\* link uses here.
LinkHeardOrDead == \A sn \in 0 .. 2 : HeardOrDead(sn)
================================================================================
