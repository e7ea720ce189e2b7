------------------------------- MODULE MCRisk -------------------------------
(* The risk worker with its liquidations, and the position lock, for TLC.  The *)
(* two share nothing: each behaviour runs one of them, the other stays as it   *)
(* was initialised.                                                            *)
EXTENDS RiskWorker, PositionLock

CONSTANTS u1, u2, u3, c1, c2, c3, MaxEvents

VARIABLE part

vars == <<riskVars, poolVars, part>>

SmallBook ==
    (u1 :> [status |-> "open", side |-> "long", tokens |-> 2, size |-> 40, coll |-> 20])
    @@ (u2 :> [status |-> "open", side |-> "long", tokens |-> 2, size |-> 40, coll |-> 20])
    @@ (u3 :> [status |-> "open", side |-> "short", tokens |-> 4, size |-> 80, coll |-> 40])

TwoKeys == [c \in Callers |-> IF c = c3 THEN "other" ELSE "same"]

Init == RiskInit /\ PoolInit /\ part \in {"risk", "lock"}

\* Bound: a close by a user comes without a crash and without an order; a crash
\* beside an order leaves one ranking.
Few ==
    /\ crashes' + closes' <= MaxEvents /\ closes' + placed' <= MaxEvents
    /\ crashes' + placed' > MaxEvents => ranker'.runs < MaxRankings

Next ==
    \/ part = "risk" /\ RiskNext /\ Few /\ UNCHANGED <<poolVars, part>>
    \/ part = "lock" /\ PoolNext /\ UNCHANGED <<riskVars, part>>

Spec ==
    /\ Init /\ [][Next]_vars
    /\ WF_riskVars(part = "risk" /\ Worker)
    /\ WF_riskVars(part = "risk" /\ SweepTask /\ UNCHANGED riskOnly)
    /\ WF_riskVars(part = "risk" /\ RiskTask /\ UNCHANGED riskOnly)
    /\ PoolFairness
=============================================================================
