-------------------------- MODULE MCOrderbookMatch --------------------------
(* OrderbookSerial on small sets, for TLC. *)
EXTENDS MCOrderbook, OrderbookSerial
=============================================================================
