---------------------------- MODULE MCOrderbook ----------------------------
(* Orderbook on small sets, for TLC. *)
EXTENDS Orderbook, TLC

CONSTANTS w1, w2, w3, o1, o2, o3, o4

Symmetry == Permutations(Workers) \cup Permutations(Orders \ Amendable)
=============================================================================
