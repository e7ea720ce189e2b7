--------------------------- MODULE MatchingLedger ---------------------------
(***************************************************************************)
(* What one market of the matching engine promises about quantity, with no *)
(* queue, index, lock or thread in sight: an order opens once with a       *)
(* quantity; open quantity is executed against another open order, for the *)
(* same amount on both sides; or it is withdrawn, all that is left at      *)
(* once.  Nothing else changes it, and nothing brings it back.             *)
(***************************************************************************)
EXTENDS Integers

CONSTANTS Orders, Quantities, None

VARIABLES
    open,    \* order -> quantity still to trade, None before the order exists
    traded   \* order -> quantity traded

vars == <<open, traded>>

Init ==
    /\ open = [o \in Orders |-> None]
    /\ traded = [o \in Orders |-> 0]

Place(o, q) ==
    /\ open[o] = None
    /\ open' = [open EXCEPT ![o] = q]
    /\ UNCHANGED traded

Execute(maker, taker, q) ==
    /\ maker # taker /\ open[taker] # None
    /\ q <= open[maker] /\ q <= open[taker]
    /\ open' = [open EXCEPT ![maker] = @ - q, ![taker] = @ - q]
    /\ traded' = [traded EXCEPT ![maker] = @ + q, ![taker] = @ + q]

Withdraw(o) ==
    /\ open[o] # None /\ open[o] > 0
    /\ open' = [open EXCEPT ![o] = 0]
    /\ UNCHANGED traded

Next ==
    \E o \in Orders :
        \/ \E q \in Quantities : Place(o, q)
        \/ Withdraw(o)
        \/ /\ open[o] # None
           /\ \E p \in Orders : \E q \in 1..open[o] : Execute(o, p, q)

Spec == Init /\ [][Next]_vars
=============================================================================
