----------------------------- MODULE MCHandshake -----------------------------
(* Small instances of Handshake for TLC. *)
EXTENDS Handshake

CONSTANTS c1, A, B, s1, s2, n1, n2
===============================================================================
