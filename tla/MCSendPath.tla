------------------------------ MODULE MCSendPath ------------------------------
(* A small instance of SendPath for TLC: packets with room for one long message, or  *)
(* for two or three short ones, where the last fills them or misses by one byte.      *)
EXTENDS SendPath, TLC

Symmetry == Permutations(Conns) \union Permutations(Packets) \union Permutations(Addrs)
===============================================================================
