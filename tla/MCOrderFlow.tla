---------------------------- MODULE MCOrderFlow ----------------------------
(* OrderFlow on small sets, for TLC. *)
EXTENDS OrderFlow, TLC

CONSTANT o1

Symmetry == Permutations(Requests) \cup Permutations(Orders \ Amendable)

\* Bound: a behaviour in which an order is disturbed is followed only while
\* there is one order; undisturbed ones are followed with all of them.
OneDisturbed ==
    disturbed = {} \/ Cardinality({o \in Orders : rows[o].status # "none" \/ Active(o)}) <= 1
=============================================================================
