----------------------------- MODULE MCRewards -----------------------------
(* Trade persistence and, beside it, two parts that a persisted trade feeds    *)
(* and that keep no state in common with it: referral commissions and points.  *)
(* Each behaviour runs one of them, the others stay as they were initialised.  *)
EXTENDS MCTradePersistence, Referral, Points

CONSTANTS f1, f2, xa, ra, rb, q1, q2, ann, bob, cid, p1, p2, k1, k2

VARIABLE part

tradeVars == vars
rewardVars == <<tradeVars, referralVars, pointsVars, part>>

OneTrader == [f \in Fees |-> xa]
AnyOrder == Referrers \X Referees

Makers == [t \in Deals |-> bob]
Takers == [t \in Deals |-> IF t = p1 THEN cid ELSE bob]
Closers == [c \in Closes |-> bob]
OpenPositions == <<bob, bob, bob>>
Introduced == [u \in Users |-> IF u = ann THEN NoReferrer ELSE ann]
Limits == [k \in Kinds |-> IF k = "tp" THEN 2 ELSE 3]
\* The last day of a year, and three of the next; its first week began in the old one.
Weeks == <<1, 1, 2, 2>>
Years == <<1, 2, 2, 2>>

RewardsInit ==
    /\ part \in {"trades", "referral", "points"}
    /\ Init /\ ReferralInit /\ PointsInit

\* Bound: one failure or crash, or a second request.  Requests, commissions and
\* referrers are interchangeable: the first goes first.
OneTrouble == slips' + restarts' <= IF form'[q2].pc = "new" THEN 1 ELSE 0
FirstForm ==
    /\ form[q1].pc = "new" => form'[q2].pc = "new" /\ form'[q1].code # rb
    /\ saving[f1] = "none" => saving'[f2] = "none"

\* Bounds: trades apart from positions, referrals on the first day with one trade,
\* no more than two days once something failed or overlapped.
Apart ==
    /\ (\E t \in Deals : deal'[t] # "new") => closed' = {} /\ batches' = 0
    /\ (\E t \in Tellers : teller'[t].pc = "checked") => today' = 1
    /\ triggered' # {} => today' = 1 /\ deal'[p2] = "new"
    /\ mishaps' > 0 \/ overlapped' # {} => today' <= 2

RewardsNext ==
    \/ part = "trades" /\ Next /\ UNCHANGED <<referralVars, pointsVars, part>>
    \/ part = "referral" /\ ReferralNext /\ OneTrouble /\ FirstForm
          /\ UNCHANGED <<tradeVars, pointsVars, part>>
    \/ part = "points" /\ PointsNext /\ Apart
          /\ UNCHANGED <<tradeVars, referralVars, part>>

RewardsSpec == RewardsInit /\ [][RewardsNext]_rewardVars
=============================================================================
