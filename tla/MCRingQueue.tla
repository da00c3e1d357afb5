---------------------------- MODULE MCRingQueue -----------------------------
(* Small instances of RingQueue for TLC. *)
EXTENDS RingQueue

CONSTANTS a, b, c

\* An empty message, and messages of one and two bytes.
LengthVal == [m \in {a, b, c} |-> IF m = a THEN 0 ELSE IF m = b THEN 1 ELSE 2]
=============================================================================
