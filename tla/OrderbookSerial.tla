-------------------------- MODULE OrderbookSerial --------------------------
(* Orderbook with a memory of whether calls ever overlapped. *)
EXTENDS Orderbook

VARIABLE overlapped

Overlap == \E v, w \in Workers : v # w /\ pc[v] # "idle" /\ pc[w] # "idle"

WatchedSpec ==
    /\ Init /\ overlapped = FALSE
    /\ [][Next /\ overlapped' = (overlapped \/ Overlap')]_<<vars, overlapped>>

\* The best bid is below the best ask as long as calls never overlapped (two threads
\* can cross the book: match and add_order are separate critical sections).
SerialBookUncrossed == ~overlapped => RestingBookUncrossed
=============================================================================
