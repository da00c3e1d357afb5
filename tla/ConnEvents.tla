------------------------------ MODULE ConnEvents ------------------------------
(* What the business thread may rely on about the connection events it is      *)
(* sent (EnmConnEventType): for each connection object, the order in which     *)
(* CONNECT, DISCONNECT, RECONNECT and CLOSE can follow each other.             *)
CONSTANT Objs

VARIABLE told    \* what the last event about the connection said

Phases == {"nothing", "connected", "disconnected", "closed", "closed twice"}

\* CONNECT comes first.  DISCONNECT and RECONNECT alternate, except that a
\* RECONNECT may come with no DISCONNECT before it.  CLOSE ends the sequence, and
\* may be said twice (a connection in TIME_WAIT has announced it, and announces
\* it again when it is closed with a reason).  The object is gone only after a
\* CLOSE, or silently after a DISCONNECT.
Follows == {<<"nothing", "connected">>,
            <<"connected", "disconnected">>, <<"disconnected", "connected">>,
            <<"connected", "closed">>, <<"disconnected", "closed">>,
            <<"closed", "closed twice">>,
            <<"closed", "nothing">>, <<"closed twice", "nothing">>,
            <<"disconnected", "nothing">>}

Init == told = [o \in Objs |-> "nothing"]

Next == /\ told' \in [Objs -> Phases]
        /\ \A o \in Objs : told'[o] = told[o] \/ <<told[o], told'[o]>> \in Follows

Spec == Init /\ [][Next]_told
===============================================================================
