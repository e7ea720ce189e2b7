---------------------------- MODULE MCPositions ----------------------------
(* Positions on small sets, for TLC. *)
EXTENDS Positions, TLC

CONSTANTS
    MaxEvents,
    Takers       \* the orders that may meet resting ones

Symmetry == Permutations(Workers) \cup Permutations(Orders \ Takers) \cup Permutations(Pids)

\* Bound: what follows a write over a changed row, a second leak, or a leak that
\* moved money only, is not explored; nor are more than MaxEvents orders and calls.
Leakless == leaks \subseteq {"mirrored", "forfeited", "unbacked"} /\ Cardinality(leaks) <= 1
Events == calls + Cardinality({o \in Orders : orders[o].status # "none"})

\* Bound: the last event is no taker's order, and after it no statement fails.
LastIsPlain == Events' = MaxEvents =>
    /\ Events < MaxEvents => \A o \in Takers : orders'[o].status # "pending" \/ orders[o] = orders'[o]
    /\ Events = MaxEvents => {"failed", "dropped"} \cap leaks' = {}

Continue ==
    \/ \E w \in Workers : Proceed(w) \/ \E o \in Orders : Apply(w, o)
    \/ \E o \in Orders : Rest(o) \/ Answered(o) \/ Cancel(o) \/ Fill(o)

BoundedNext ==
    /\ Leakless
    /\ \/ Events < MaxEvents /\ Next
       \/ Events = MaxEvents /\ Continue
    /\ \A o \in Orders \ Takers : orders'[o].due = "none"
    /\ LastIsPlain
BoundedSpec == Init /\ [][BoundedNext]_vars
=============================================================================
