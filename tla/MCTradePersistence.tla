------------------------ MODULE MCTradePersistence ------------------------
(* Model checking of TradePersistence: trades are interchangeable. *)
EXTENDS TradePersistence, TLC

Symmetry == Permutations(Trades)

\* Bound for liveness: a panic or a crash, not both.  Neither is a fair action.
LiveNext == Next /\ panics' + crashes' <= 1
LiveSpec == Init /\ [][LiveNext]_vars /\ Fairness
===========================================================================
