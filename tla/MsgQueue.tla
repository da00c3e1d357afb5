------------------------------ MODULE MsgQueue ------------------------------
(***************************************************************************)
(* What a caller of RingQueue relies on, with no bytes, indices or locks:  *)
(* a FIFO of whole messages.  Push either appends the message in one step  *)
(* or (when it returns -1) changes nothing; Pop removes the oldest message *)
(* and hands it out.  RingQueue is shown to implement this module.         *)
(***************************************************************************)
EXTENDS Sequences

CONSTANT Msgs

VARIABLES
    queue,      \* the messages accepted and not yet handed out
    handed      \* every message handed out so far, in order

qvars == <<queue, handed>>

Init == queue = <<>> /\ handed = <<>>

Push(m) ==
    /\ queue' = Append(queue, m)
    /\ UNCHANGED handed

Pop ==
    /\ queue # <<>>
    /\ queue' = Tail(queue)
    /\ handed' = Append(handed, Head(queue))

Next == Pop \/ \E m \in Msgs : Push(m)

Spec == Init /\ [][Next]_qvars
=============================================================================
