----------------------------- MODULE RiskWorker -----------------------------
(***************************************************************************)
(* The risk worker of unified accounts (services/unified_margin:           *)
(* risk_worker.rs, enforcement.rs, calculator.rs), composed with the       *)
(* liquidations of module Liquidation.  A tick reads all accounts, then    *)
(* visits them one by one: it stores the new status, cancels the orders of *)
(* an account that became restricted, and closes a position of one that is *)
(* liquidating.  Users place and cancel orders meanwhile.                  *)
(***************************************************************************)
EXTENDS Liquidation

CONSTANTS
    OrderMargin,   \* margin of an order
    MaxOrders   \* bounds

ASSUME OrderAssumption == OrderMargin \in Nat /\ MaxOrders \in Nat

VARIABLES
    account,   \* unified user -> stored account_status
    order,     \* unified user -> order: status, whether it passed the gate
    tick,      \* the worker: phase, users to visit, what it read, current user
    released,  \* history: unified user -> times the margin of the order was released
    placed     \* history: orders placed

riskOnly == <<account, order, tick, released, placed>>
riskVars == <<liqVars, riskOnly>>

Idle == [phase |-> "idle", todo |-> {}, prev |-> << >>, wallet |-> << >>, rows |-> << >>,
         price |-> 0, user |-> "", new |-> ""]

RiskInit ==
    /\ LiqInit
    /\ account = [u \in Unified |-> "normal"]
    /\ order = [u \in Unified |-> "none"]
    /\ tick = Idle
    /\ released = [u \in Unified |-> 0] /\ placed = 0

-----------------------------------------------------------------------------
(* calculator.rs. *)

Equity(wallet, r, price) ==
    IF r.status = "open" THEN wallet + r.coll + PnlAt(r, price) ELSE wallet

Maintenance(r) == IF r.status = "open" THEN r.size ELSE 0   \* times MmrDiv

\* classify: the ratio of equity and maintenance margin against 1.05, 1.20 and 2.00
\* (both warning levels are one here: nothing depends on which).
Classify(equity, maint) ==
    LET below(percent) == 100 * MmrDiv * equity <= percent * maint IN
    IF maint = 0 THEN "normal"
    ELSE IF below(105) THEN "liquidating"
    ELSE IF below(120) THEN "reduce_only"
    ELSE IF below(200) THEN "warning" ELSE "normal"

Restricted == {"reduce_only", "liquidating"}

Live(u) == Classify(Equity(avail[u] + hold[u], row[u], mark), Maintenance(row[u]))

-----------------------------------------------------------------------------
(* The user's side: the gate of create_order, then the insert; a cancel. *)

PlaceGate(u) ==
    /\ order[u] = "none" /\ placed < MaxOrders /\ placed' = placed + 1
    /\ Live(u) \notin Restricted
    /\ avail[u] >= OrderMargin
    /\ order' = [order EXCEPT ![u] = "checked"]
    /\ UNCHANGED <<liqVars, account, tick, released>>

PlaceInsert(u) ==
    /\ order[u] = "checked"
    /\ order' = [order EXCEPT ![u] = "open"]
    /\ avail' = [avail EXCEPT ![u] = @ - OrderMargin]
    /\ hold' = [hold EXCEPT ![u] = @ + OrderMargin]
    /\ lost' = IF account[u] \in Restricted THEN lost \cup {"late order"} ELSE lost
    /\ UNCHANGED <<row, mark, fund, ranks, ranker, locked, step, mem, cases, reduced, counters,
                   account, tick, released, placed>>

Release(u) ==
    /\ Settle(u, OrderMargin, OrderMargin)
    /\ released' = [released EXCEPT ![u] = @ + 1]

\* Mutated: an order is cancelled whatever its status.
EverPlaced(u) == order[u] \in {"open", "cancelled"}
Cancellable(u) == order[u] = "open"

UserCancels(u) ==
    /\ Cancellable(u)
    /\ order' = [order EXCEPT ![u] = "cancelled"]
    /\ Release(u)
    /\ UNCHANGED <<row, mark, fund, ranks, ranker, locked, step, mem, cases, reduced, lost,
                   counters, account, tick, placed>>

-----------------------------------------------------------------------------
(* tick: two reads, then the accounts one by one. *)

Quiet == step["risk"] = "idle"

TickBalances ==
    /\ tick.phase = "idle" /\ Quiet
    /\ tick' = [tick EXCEPT !.phase = "read", !.prev = account,
                            !.wallet = [u \in Unified |-> avail[u] + hold[u]]]
    /\ UNCHANGED <<liqVars, account, order, released, placed>>

TickPositions ==
    /\ tick.phase = "read"
    /\ tick' = [tick EXCEPT !.phase = "visit", !.todo = Unified, !.rows = [u \in Unified |-> row[u]],
                            !.price = mark]
    /\ UNCHANGED <<liqVars, account, order, released, placed>>

TickEnd ==
    /\ tick.phase = "visit" /\ Quiet /\ tick.todo = {}
    /\ tick' = Idle
    /\ UNCHANGED <<liqVars, account, order, released, placed>>

\* Mutated: only one of the two restricted states cancels the orders.
CancelsLiquidating(status) == status = "liquidating"
CancelsReduceOnly(status) == status = "reduce_only"
CancelsOrders(status) == status \in Restricted

\* Mutated: an account is liquidated when it becomes liquidating, not while it is.
OnEntry(prev, new) == new = "liquidating" /\ prev # new
WhileIn(prev, new) == new = "liquidating"

\* Where the visit goes on after the orders.
Onward(prev, new) == IF WhileIn(prev, new) THEN "liquidate" ELSE "visit"

Visit(u) ==
    LET new == Classify(Equity(tick.wallet[u], tick.rows[u], tick.price), Maintenance(tick.rows[u]))
    IN
    /\ tick.phase = "visit" /\ Quiet /\ u \in tick.todo
    /\ account' = [account EXCEPT ![u] = new]
    /\ tick' = [tick EXCEPT !.todo = @ \ {u}, !.user = u, !.new = new, !.phase =
         IF tick.prev[u] # new /\ CancelsOrders(new) THEN "list" ELSE Onward(tick.prev[u], new)]
    /\ UNCHANGED <<liqVars, order, released, placed>>

-----------------------------------------------------------------------------
(* cancel_all_open_orders: list, flip the status, release the margin. *)

AfterCancel == Onward(tick.prev[tick.user], tick.new)

CancelList ==
    /\ tick.phase = "list"
    /\ tick' = [tick EXCEPT !.phase = IF order[tick.user] = "open" THEN "flip" ELSE AfterCancel]
    /\ UNCHANGED <<liqVars, account, order, released, placed>>

CancelFlip ==
    /\ tick.phase = "flip"
    /\ IF order[tick.user] = "open"
       THEN order' = [order EXCEPT ![tick.user] = "cancelled"] /\ UNCHANGED lost
       ELSE lost' = lost \cup {"refunded twice"} /\ UNCHANGED order
    /\ tick' = [tick EXCEPT !.phase = "refund"]
    /\ UNCHANGED <<rowsAndMoney, mark, fund, ranks, ranker, locked, step, mem, cases, reduced,
                   counters, account, released, placed>>

\* The rows the update affected are not looked at.
CancelRefund ==
    /\ tick.phase = "refund"
    /\ Release(tick.user)
    /\ tick' = [tick EXCEPT !.phase = AfterCancel]
    /\ UNCHANGED <<row, mark, fund, ranks, ranker, locked, step, mem, cases, reduced, lost,
                   counters, account, order, placed>>

\* A failing statement is logged and passed over: after the list nothing is
\* cancelled, after the update the order stays open, after the release its margin
\* stays frozen.  The visit goes on as if all had gone well.
CancelErrs ==
    /\ tick.phase \in {"list", "flip", "refund"}
    /\ tick' = [tick EXCEPT !.phase = AfterCancel]
    /\ lost' = lost \cup (IF tick.phase = "refund" THEN {"not refunded"}
                          ELSE IF order[tick.user] = "open" THEN {"not cancelled"} ELSE {})
    /\ UNCHANGED <<rowsAndMoney, mark, fund, ranks, ranker, locked, step, mem, cases, reduced,
                   counters, account, order, released, placed>>

Forced ==
    /\ tick.phase = "liquidate" /\ Quiet
    /\ IF IsOpen(tick.user) THEN LiquidateOne(tick.user) ELSE UNCHANGED <<step, mem>>
    /\ tick' = [tick EXCEPT !.phase = "visit"]
    /\ UNCHANGED <<rowsAndMoney, mark, fund, ranks, ranker, locked, cases, reduced, lost,
                   counters, account, order, released, placed>>

\* The process stops in the middle of a tick.
Crash ==
    /\ LiqCrash(IF tick.phase \in {"list", "flip", "refund"} THEN {"cancel"} ELSE {})
    /\ tick' = Idle
    /\ order' = [u \in Unified |-> IF order[u] = "checked" THEN "none" ELSE order[u]]
    /\ UNCHANGED <<account, released, placed>>

-----------------------------------------------------------------------------
Worker == TickBalances \/ TickPositions \/ TickEnd \/ (\E u \in Unified : Visit(u))
          \/ CancelList \/ CancelFlip \/ CancelRefund \/ CancelErrs \/ Forced

Closing ==
    \/ Sweep \/ Pick
    \/ \E w \in Liquidators : LockPosition(w) \/ CommitLiquidation(w)
    \/ Gap \/ AdlDone \/ AdlReduce \/ AdlPay

Ranking == RankRead \/ RankWrite

People ==
    \/ \E price \in Marks : MoveMark(price)
    \/ \E u \in Users : \E n \in 1..Book[u].tokens : ClosePart(u, n)

RiskNext ==
    \/ (Closing \/ Ranking \/ People) /\ UNCHANGED riskOnly
    \/ Worker
    \/ \E u \in Unified : PlaceGate(u) \/ PlaceInsert(u) \/ UserCancels(u)
    \/ Crash

\* The steps of each task: none of them is ever kept from its next step for good.
SweepTask == Sweep \/ Pick \/ LockPosition("sweep") \/ CommitLiquidation("sweep")
RiskTask == LockPosition("risk") \/ CommitLiquidation("risk")
            \/ Gap \/ AdlDone \/ AdlReduce \/ AdlPay

RiskSpec ==
    /\ RiskInit /\ [][RiskNext]_riskVars
    /\ WF_riskVars(Worker)
    /\ WF_riskVars(SweepTask /\ UNCHANGED riskOnly) /\ WF_riskVars(RiskTask /\ UNCHANGED riskOnly)

-----------------------------------------------------------------------------
(* Properties. *)

\* What leaves a restricted account with an order: one that passed the gate before
\* and was inserted after, a crash between the new status and the cancel, a
\* statement of the cancel that failed.  What makes a release go wrong: a cancel of
\* the user's between the worker's list and its update, a crash, a failure.
LeavesOrder == {"late order", "cancel", "not cancelled"}
WrongRelease == {"refunded twice", "cancel", "not refunded"}
Disturbances == {"stale rank", "gap"} \cup LeavesOrder \cup WrongRelease

RiskTypeOK ==
    /\ \A u \in Users : row[u].status \in {"open", "closed", "liquidated"}
                       /\ avail[u] \in Int /\ hold[u] \in Nat
    /\ locked \subseteq Users
    /\ step \in [Liquidators -> {"idle", "pick", "lock", "commit", "gap", "adl", "adlpay"}]
    /\ account \in [Unified -> {"normal", "warning"} \cup Restricted]
    /\ order \in [Unified -> {"none", "checked", "open", "cancelled"}]
    /\ tick.phase \in {"idle", "read", "visit", "list", "flip", "refund", "liquidate"}
    /\ lost \subseteq Disturbances

\* An account that becomes restricted loses its resting order, also when the order
\* was placed while the tick was under way, outside those windows.
RestrictedLosesOrder == \A u \in Unified :
    LET exposed == order[u] = "open" /\ account[u] \in Restricted
                   /\ lost \cap LeavesOrder = {}
    IN exposed ~> ~exposed

\* The orders go first: a unified position is not liquidated while an order of its
\* owner still holds margin, with the same exceptions.
OrdersGoFirst ==
    step["risk"] \in {"lock", "commit"} /\ lost \cap LeavesOrder = {} =>
        order[mem["risk"].user] # "open"

\* A liquidating account loses its position, also when a crash or a failure cut
\* the tick that found it: it is closed while the account is liquidating, not only
\* when it enters that state.
LiquidatingIsClosed == \A u \in Unified :
    LET bad == IsOpen(u) /\ Live(u) = "liquidating" IN bad ~> ~bad

\* The margin of an order that was cancelled comes back, and once, whoever cancelled
\* it, outside the windows of a wrong release.
ReleasedOnce == \A u \in Unified :
    lost \cap WrongRelease = {} /\ ~(tick.phase = "refund" /\ tick.user = u)
        => released[u] = (IF order[u] = "cancelled" THEN 1 ELSE 0)
\* The worker clears a restricted account in the order its comments promise, orders
\* first, and gives back what they held exactly once.
OrdersClearedFirst == RiskTypeOK /\ OrdersGoFirst /\ ReleasedOnce

\* Whatever fails or restarts, no position that has to be liquidated stays open:
\* the sweep finds the isolated ones, the tick the unified ones.
BadPositionsClose == UnderwaterIsClosed /\ LiquidatingIsClosed
=============================================================================
