----------------------------- MODULE MCNetConnect -----------------------------
(* Small instances of NetConnect for TLC. *)
EXTENDS NetConnect, TLC

CONSTANTS o1, o2, A, B

\* Clients move from one address to the other and back; or stay where they are.
Moving == {<<A, B>>, <<B, A>>}
Staying == {}

Objects == Permutations(Objs)
===============================================================================
