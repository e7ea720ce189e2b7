# TLA+ models of the Riabow DEX backend

This directory holds TLA+ specifications of the trading core of the backend
(`src/backend/src`): a perpetual-futures exchange with an in-memory matching
engine, a PostgreSQL database as the only durable state, and asynchronous
workers between the two; beside it a spot exchange, two vaults on a chain, fixed-term
plans, referral commissions and points.  The modules are translated from the Rust source; TLC
checks them on small instances, and TLAPS proves most of the checked safety
properties for every value of the constants (section 11).

Run everything from this directory:

    tlc -workers 2 -config MCOrderFlowRequests.cfg MCOrderFlow
    tlapm OrderFlowProofs.tla

Paths below are relative to `src/backend/src`.

## 1. Inventory

An order travels: API handler (`order.rs`) → balance freeze and `orders` row →
matching engine (in memory) → trade event → persistence queue → persistence
task → `trades`, `orders`, `balances` → position updates → `positions`.  The
periodic workers (recovery, liquidation, funding, keeper) read and write the
same tables.  The components share no lock: what one statement read may be
outdated when the next one writes.

| Component | State | Operations | Hard behaviours | What makes it correct |
|---|---|---|---|---|
| Order book, engine (`services/matching/{orderbook,engine,types}.rs`) | price levels of FIFO queues, one lock per side, lock-free index id → level, counter, last price | submit (GTC/IOC/FOK, limit/market), cancel (index path and scan path), amend | callers on several threads; match and rest are two critical sections; the index is updated outside the locks | queue and index agree; price-time priority; limits respected; FOK all or nothing; a cancel is final; quantity is conserved; calls return |
| Trade persistence (`services/matching/{orchestrator,retry}.rs`) | channel, overflow tasks, permits, `trades`, `trade_position_sync`, `dead_letter_trades` | enqueue, persist with retries, dead-letter, update positions, recover | retries after lost acknowledgements, partial failure of two legs, recovery beside live tasks, panics, crashes | a fill is booked once; a marker means applied; every trade is settled and eventually applied |
| Order life cycle (`api/handlers/order.rs`, `developer_trade.rs`) | `orders`, `balances` | create, update, cancel, batch cancel, restart recovery | statements of several requests and of the persistence pipeline interleave; stale rows; failing statements; dropped handlers | cancels hold; fills are never overstated; margin is neither lost nor given twice |
| Positions (`services/position/mod.rs`, `api/handlers/position.rs`) | `positions`, `balances`, advisory locks | increase (with netting and flips), decrease, close, open, liquidate, add/remove collateral, charge funding | whole rows written back after an unlocked read; the lock holds a connection while the work asks for another; residual clean-up of frozen margin | one row per user and market; a collateral is paid out once; the money adds up; calls end |
| Liquidation, ADL, insurance (`services/liquidation`, `services/adl`) | insurance fund, rankings, `positions` | sweep, liquidate, cover from the fund, deleverage, rank | candidates and rankings read earlier, racing closes, overlapping payouts, crash between debt and cover | a closed position stays closed; a case is covered once; a bad position is eventually closed |
| Funding (`services/funding_rate`) | rates, open interest | settle every eight hours | settlement racing closes; no idempotence guard | a closed position is not charged |
| Unified margin, risk worker (`services/unified_margin`) | account status, orders, balances | classify, restrict, cancel orders, liquidate | orders placed during a tick; crash between status and cancel; user's cancel beside the worker's | orders are cleared first and refunded once; a restricted account loses its order |
| Keeper and trigger orders (`services/keeper`, `services/trigger_orders`) | `trigger_orders`, `position_tp_sl` | set, delete, cancel, fire, deferred creation, clean-up | check-then-insert, stale lists and sizes, crash between claim and order | a stop fires once and never after its cancel; a stop belongs to its position |
| Spot matching (`services/spot/matching`) | one book per market, `spot_orders`, `spot_balances` | place, cancel, cancel all, commit a fill, rebuild | only statements are atomic; the book is ahead of the rows; crash anywhere | locks cover what live orders need; book and rows agree |
| Spot vault (`services/spot/{blockchain,reaper}.rs`, `api/handlers/spot`) | `spot_deposits`, `spot_withdrawals`, cursors | sign, credit, confirm, reap | pollers die in mid batch, blocks are reorganised, the reaper races a redemption | account and vault agree |
| Reserve vault (`services/withdraw`, `services/blockchain`) | `withdrawals`, `deposits`, `balances`, cursors | request, cancel, confirm, expire, scan | check-then-act, shared nonces, no confirmation depth, errors skipped | what is frozen is pending; the balance is backed |
| Earn (`services/earn`) | `earn_products`, `earn_subscriptions`, events, the contract | create, open, activate, close, join, redeem, poll | the chain is called first and the row written after; events come again | the row follows the chain; a join is booked once |
| Developer API orders (`api/handlers/developer_trade.rs`) | `orders`, `balances`, the book | new, cancel, cancel all, batch cancel, modify | margin moved outside of transactions; modify pulls and resubmits; what is read first is stale | a cancelled order never trades; margin adds up |
| Referral commissions (`services/referral`, `api/handlers/referral.rs`) | relations, `referral_earnings`, a queue in memory, the contract | bind, unbind, earn, settle, claim, redeem | a commission waits in memory and in a row; rebinding between match and persistence | it goes to the right referrer; it is never lost |
| Points (`services/points`) | `user_points_summary`, trigger events | award for trades, closes, holdings, referrals | two tellers for every trade, unlocked reads, midnight and new year | limits hold |
| VIP tiers (`services/vip_tier`) | levels | recompute daily | – | – |
| Market-maker scores, RWA (`services/mm_pool`, `services/rwa`) | snapshots, balances of points, sessions | sample, add up, market hours | two statements per sample | a sample counts once |
| Sharding (`services/sharding`) | owner of a symbol | forward | two owners during a resize | a symbol has one book |
| Price feed, klines, external data | caches | poll, aggregate, circuit breaker | stale prices, out-of-order ticks | candles consistent |
| Caches, pub/sub (`cache`) | Redis keys | get, set, publish | staleness | read-through only |
| Authentication, rate limiting (`auth`) | nonces, windows | verify, count | window boundaries | limit enforced |
| WebSocket gateway (`websocket`) | sessions | fan-out | slow consumers | none relied on elsewhere |
| Configuration, db access, metrics, i18n, utilities | – | start-up, formatting | – | – |

`PROJECT.json` lists the same components with their status, and every hazard
met at its line.

## 2. Plan

Order of work, by what depends on what; all of it is in place:

1. **Orderbook** with the abstract **MatchingLedger** and, for serial calls,
   **OrderbookSerial**; **TradePersistence**; **OrderFlow**; a module of proofs
   for each.
2. **Positions** and **PositionLock**; **Liquidation**, extended by
   **RiskWorker**; **PositionsProofs**, **RiskProofs** (which also has the lock's).
3. The services beside the trading core: **SpotEngine**, **SpotVault**,
   **Custody**, **TriggerOrders**, **Earn**, **DeveloperTrade**; **ServicesProofs**
   (SpotEngine's theorems are in OrderbookProofs, Earn's in RewardsProofs,
   DeveloperTrade's in TradePersistenceProofs).
4. What a persisted trade feeds: **Referral**, **Points**; **RewardsProofs**.
5. What several proofs need: **SumFacts**, sums over finite sets.

Compositions: OrderFlow composes the engine (atomically) with the persistence
pipeline (one transaction per lot); RiskWorker composes the risk tick with the
liquidations, the rankings and the insurance fund.  `MCRisk`, `MCServices` and
`MCRewards` put parts that share no state side by side: the initial state
chooses one part and the others stay as they were initialised, so that their
states add up and do not multiply.  Such a run asks one question of several
parts: do they keep their books across the failures each of them models.  In
`MCRisk` these are a crash and failing statements of the worker's cancel; in
`MCServices` one failing statement, call or crash per part (for the vault a crash or
a reorganisation); in `MCRewards` failing statements and batches and a crash.

Left to do: `Positions` with `TradePersistence`'s pipeline in place of its
one-step hand-over; funding as a module of its own; epochs and seasons of the
points; the candidates under "Not modelled".

Bounds of two requests, trades or threads (three for the book) are the smallest
at which every overlap named in the hazard list occurs; two units of quantity
give partial fills; one or two faults give a failure in every place and a second
one during its repair.

## 3. Orderbook

`Orderbook.tla` models `Orderbook` and the parts of `MatchingEngine` that call
it.  Each of the `Workers` is a thread of the runtime inside one engine call.

* **State.** `book` is the set of queued entries of both sides (side, price,
  remaining quantity, turn; the turn is the position in the queue), `index` the
  DashMap id → (side, level), `count` the atomic counter, `last` the last price,
  `lock` the writer of each side's BTreeMap lock.
* **Grain.** A step is a critical section or a single operation on a lock-free
  structure.  A sweep keeps the lock of the opposite side over many trades, so
  the lock is explicit there; `AddOrder`, `Unqueue` and the two scans take and
  give their lock in one step.  `Unindex` (index removal), `DropIndex`,
  `CountOrder` and `Uncount` are separate, because the code does them outside
  the lock.
* **Submit**: validation, `BeginMatch` (with the fill-or-kill count), `Trade`
  per maker, `EndMatch`, `Settle` (status and whether the rest is queued),
  `AddOrder`, `CountOrder`, `SelfCheck`.  **Cancel**: `Unindex`, `Unqueue`, and
  on failure `ScanBids`, `ScanAsks`, `DropIndex`, then `Uncount`.  **Amend** is
  what `update_order` does to the engine: a cancel, then a submit of the same id.
* **Prices** are integers in units of which `Scale` make a level; `Scale = 1`
  means that no price is finer than a level's eight decimals.

| Run | Question and result |
|---|---|
| `orderbook_race` | three threads, two orders, two cancels each: the index and the queues agree up to the cancels in flight, a cancel called after the submit returned is final, a lock is held exactly during a sweep, and the book implements `MatchingLedger` |
| `orderbook_match` | two threads, three orders of all times in force, two prices: fill-or-kill is all or nothing; as long as no two calls have overlapped, the resting book is not crossed.  Two overlapping ones can cross it, since matching and resting are separate critical sections |
| `orderbook_live` | two threads with amends: every call returns, and the counter is right up to the increments and decrements still owed |

`MatchingLedger` is the abstract specification: an order is unplaced, has an
open quantity, and quantity leaves only by an execution that reduces two orders
by the same amount, or by one withdrawal of what is left.  The refinement maps
the open quantity to what its taker has left plus what rests.

*Fairness* (`FairSpec`): weak fairness of every worker's steps, that is, the
runtime schedules its threads and a lock that stays free is granted.  Nothing
is assumed of callers.  Deadlock checking is off in all runs because the calls
are bounded and the system may stop when they are used up; that no set of calls
blocks itself is what `EveryCallReturns` says.

*Bounds.* Each order is submitted once (amends apart), cancelled at most
`MaxCancels` times.  Quantities 1 and 2 suffice for partial fills on both sides.

## 4. TradePersistence

`TradePersistence.tla` models the way of a trade from `submit_order` to the
position updates.

* **State.** `rows`, `fills`, `legs`, `synced`, `flagged`, `dlq` are tables:
  trade rows, how often the trade went into its maker's `filled_amount`, how
  often each leg's `increase_position` took effect, `trade_position_sync`,
  `trades.position_synced`, `dead_letter_trades`.  `queue`, `pc`, `attempts`,
  `tries`, `made`, `batch`, `target` are memory and vanish in `Crash`.
* **Updaters** are the trades (one task each) and the recovery worker; both run
  `update_positions_after_trade` statement by statement: `Guard`, `MakerLeg`,
  `TakerLeg`, `Record`, `Flag`.
* **Failures.** Every statement may fail (`MaxFaults`).  A failing commit may
  have committed (lost acknowledgement), a failing leg may have taken effect.
  `Panic` is the arithmetic panic of a leg: caught in a task, fatal for the
  recovery worker.  `Crash` keeps the database only.
* `disturbed` remembers the trades for which the code cannot promise exactly
  once: an update that failed or was cut part way, or overlapped another one.

| Run | Question and result |
|---|---|
| `persist_faults` | two faults, one panic, one crash: fills are booked with the row exactly once, markers are sound, legs take effect at most once outside the disturbed windows (and the two parts of section 9) |
| `persist_live` | two faults, and a panic or a crash: every emitted trade is persisted or dead-lettered unless a crash takes it; every persisted trade is applied, unless the recovery worker panicked |
| `persist_overlap` | finding: with no failure at all a recovery pass beside the trade's own task applies it twice |

*Fairness*: the tokio tasks run, the queue is served, the recovery timer fires;
weak fairness is enough because the queue is FIFO and permits are released by
every task.  *Bounds*: a queue of one place forces the overflow path with two
trades; `persist_live` has as many faults as one trade has attempts, so that
the dead-letter path is taken, but not one more, since a dead letter whose own
insert fails is only logged.  A panic of the recovery worker is final (see the
findings), that of a task is repaired by recovery.  `RecoveryRuns = FALSE` describes the minutes before the
first pass; no current run needs it.

Not in the model: the fee columns of the transaction and the superseded
`persist_trade`, `batch_persist` and `process_order`.  Referral commissions,
points and the deferred take-profit and stop-loss orders have modules of their
own (sections 8 and 9).

## 5. OrderFlow

`OrderFlow.tla` models `create_order`, `update_order`, `cancel_order` and
`batch_cancel` of one user, each as its sequence of statements; the maker part
of `persist_trade_with_tx`; and `recover_orders_from_db`.

* **State.** `rows` are the user's `orders` rows (status, type, amount, filled
  amount, frozen margin), `available` and `frozen` the balance, `rest` the lots
  in the book, `pending` the lots traded as maker whose transaction has not run
  yet, `pc` and `req` the handlers' positions and local variables.
* **Create**: `Create` (balance check), `Freeze` (transaction), `Slippage`,
  `Reject`, `RejectRefund`, `Submit`, `Record`, `Release`, `Unfreeze`.
  **Update**: `Update` (row read and checks), `Pull`, `Amend`, `Resubmit`,
  `Rerecord`.  **Cancel**: `Cancel`, then per order `Read`, `EngineCancel`,
  `Mark`, and `RefundAll`; `cancel_order` is a batch of one.
* **Environment**: `Take` (another user trades with a resting lot), `Persist`,
  `Cut` (a statement fails and the handler returns, the engine refuses, or the
  client disconnects and the handler's future is dropped), `Ignored` (a failing
  statement whose error the handler drops), `Crash` (restart and recovery).
* **Abstractions.** The engine call is one step (its interleavings are
  Orderbook's subject).  Every order has the same price and leverage, so a lot
  takes `Collateral` and freezes `Collateral + Buffer`; amounts are lots and
  resting lots are taken one by one.  The user only opens, so no order nets
  against a position, and authentication is on.  Refunds are rounded down to
  whole units; the runs' units divide evenly except after overlaps.
* `disturbed` remembers the orders whose requests met another request or an
  unpersisted trade, were cut, lost a statement, or raised the amount.  The
  money properties are claimed while it is empty: those are the windows in
  which the code has no protection.  `FilledNeverOverstated` and `CancelHolds`
  have no such premise.

| Run | Question and result |
|---|---|
| `orderflow_requests` | two requests, two orders, two faults: answered cancels hold, rows never overstate fills; undisturbed, the deposit covers available + positions + resting lots, and nothing of it vanishes |
| `orderflow_amend` | finding: an amend resubmits lots that traded but are not persisted |

`OneDisturbed` in `MCOrderFlow` keeps the state space within reach: behaviours
with a disturbed order are followed while there is one order; undisturbed ones
with two.  Overlaps on one order need no second order, and orders meet only in
the balance.  `CancelHolds` speaks of cancels that found no other request at
work on the order, for orders nobody amends; a cancel under a running create is
undone by it (see below).

## 6. Positions and their lock

`Positions.tla` models the positions of one user in one market and the balance
they share: `services/position/mod.rs` with the handlers that call it.

* **State.** `pos` are the rows of `positions` by id, `available` and `frozen`
  the balance, `orders` the user's orders as far as they move money, `lock` the
  advisory lock of the user and market, `pc` and `loc` the workers (request
  handlers, persistence tasks, the liquidation and funding loops) with their
  local variables.  `closings` counts full payouts by row, `leaks` names windows.
* **increase_position**, for a trade (`Apply`) or `open_position` (`OpenCall`,
  `Freeze`): `Lock` in `OpenLock` or `Apply`, then `Opposing` (net against the
  other side, or not), `Decrease` and `Write` (row read, later written whole),
  `Release`, `IncomingRelease`, `Clean` (what is still frozen becomes available
  when the last position closes), `Same` and `Store` (grow or insert), `Fee`;
  `Fail` and `Thaw` are the error paths.
* **The other writers**: `CloseHandler` (one transaction that holds the row),
  `Add…`, `Remove…` (collateral), `Scan` and `Liquidate`, `FundList` and
  `FundApply`.
* **Orders** fill whole; partial fills are OrderFlow's.  `Place` freezes what
  `Required` asks: the margin, the margin of what exceeds the position against it, or
  a fee estimate; nothing when the order `Closes`, decided by tokens and not by value.
  A maker's order goes `Rest`, then `Cancel` or `Fill`.  A taker's is answered at once:
  `Match` or `Unfilled`, then its request writes the row (`RowWritten`) and releases
  what it had taken to be required (`TakerRelease`), frozen or not; `need` and `due` of
  the order say how far it is, and its trade may reach the positions before.
* **Failures**: a statement on the balance fails and is logged (`Settle`, `Thaw`), a query
  of the service fails and the call with it (`QueryFails`), the clean-up or the fee's
  statement fails (`CleanFails`, `FeeFails`), a client hangs up between two statements
  (`Drop`).  What they lose is a leak by name: failed, dropped.
* **Money** is a whole number; `Share` is the pro-rata rule of the code, rounded
  down.  Prices 24 and 48 with these leverages and divisors divide evenly.

| Run | Question and result |
|---|---|
| `positions` | two workers, two orders, two row ids, three events (orders and calls): `OneSide` and `PaidOnce` hold unless a whole row was written over a change; `Reconciled` (the rule of the audit comment, up to named leaks) holds between calls |
| `positions_balance` | finding: `Balanced`, the rule as the comment states it, fails with orders alone |

*Bounds.* `BoundedNext` stops after a stale write (a row is lost there and nothing
is claimed of what follows), after a second leak, and at three events: one to
open, one to change and one to race.  One of the two orders may be a taker's, and
nothing fails after the last event.

`PositionLock.tla` asks about the connections of the same function.  A call
keeps one pooled connection for the transaction that owns the advisory lock,
while each inner statement asks the pool for another one: the comment at
`services/position/mod.rs:449` speaks of the same connection, but the inner work
uses `self.pool`.  Three callers, two keys and two connections are checked in
`risk` (below): everybody may wait for everybody, yet `EveryIncreaseEnds`,
because each wait is timed and giving up returns what is held (`NothingHeld`).
*Fairness*: the timers of the pool and of the lock fire and a started statement
ends (weak); a call does not issue statements for ever (strong, since the end
of its last statement competes with the end of the others).  Connections and
locks may go to somebody else every time.

## 7. Liquidation and the risk worker

`Liquidation.tla` has one position per user: isolated ones, closed by the sweep
(`SweepTask`), and unified ones, closed by the risk worker (`RiskTask`).  Both
use `execute_liquidation` and the insurance fund, step by step: list, lock and
close, read the fund, pay, record, and for unified accounts ADL over the ranking
that another task computed (`Ranking`).  `People` close positions and the mark
price moves.  `RiskWorker.tla` adds the tick: read all accounts, then per account
store the status, cancel the orders of a restricted one (list, flip, refund; each of
these may fail, `CancelErrs`, and the visit goes on as if it had not), liquidate one
position of a liquidating one; beside it users pass the gate of `create_order` and
insert later, or cancel.  `Crash` keeps the rows.

| Run | Question and result |
|---|---|
| `risk` | one isolated account without a stored mode, one unified one, one on the winning side; one price move, failing cancels, a close or a crash and an order, two rankings: a closed position is never touched again, a case takes from the fund and from each user once, orders are cleared first and refunded once, every bad position is closed and a restricted account loses its order.  Beside it the position lock |

*Fairness* (in `MCRisk`): weak fairness of the worker's tick and of the two
liquidation tasks, which are loops on timers; nothing of users, prices, or the
ranking.  *Bounds*: one move of the price makes long positions bad and the short
one profitable; a close comes alone, a crash also beside an order (`Few`).  `lost` names the windows
that excuse a property: a crash between status and cancel; an order between gate and
insert; a cancel whose list or update failed (`not cancelled`) or whose release did
(`not refunded`); a cancel of the user's between list and update (`refunded twice`); a
rank written over a change.  Only the statements of the cancel fail on their own:
elsewhere in a tick or a liquidation an error leaves what a crash there leaves.

## 8. Services beside the trading core

The run `services` has six parts; `part` chooses one, and each has between
70,000 and 700,000 states.  A property of a part excuses, by a history
variable, the windows in which the code has no protection; each is named where
an action opens it.

* **SpotEngine**: one market.  A command is a sequence of statements (insert and
  match in memory, one transaction per hit, rest, refund, close the row); each
  may fail (`StatementFails`), the task may crash and the book is rebuilt from
  the rows (`RecoverRow`, `Start`).  `LocksCovered`: frozen balances cover what
  live orders still need at every statement.  `BookAndRowsAgree`: between
  commands the book is the live rows, its good-till-cancelled orders do not cross,
  and 'filled' means filled.
  Bounds: three orders, one of them big; a fault only where all balance rows exist.
* **SpotVault**: blocks of one event, of which the last `Depth` may be
  reorganised; two pollers with saved cursors, requests that read the nonce and
  freeze later, the reaper, redemption by the holder of a signature.
  `AccountIsVault`: what is spendable lies in the vault, what is frozen is
  signed, nothing behind a cursor is left undone.  One crash or reorganisation, or a
  second request.
* **Custody**: the reserve vault.  Requests check, sign and freeze in separate
  steps; cancel, confirm and expiry read and write separately; two listeners
  without confirmation depth, whose errors are skipped and whose saved block lags
  (`Rewind` is a restart).  `CustodyBalanced`: locked is pending, the purse is
  backed, every deposit behind the cursor was credited once.  A signature that was
  handed out can be redeemed until it expires, whatever became of its row.
  One error, or a second
  withdrawal.  Exploration stops at a named window (`Clear`).
* **TriggerOrders**: the stops of one position: setters (user and deferred hook)
  that check and then insert, `POST /trigger-orders` (`RequestTrigger`), which
  inserts one active row for any position or none, the keeper (scan, claim, size,
  submit, settle), whose order may fill in part, fills that arrive late, the clean-up
  after a close.  A row knows its maker (`by`): `StopsBelong` is about the rows of
  setters, `FiredAndTold` about all.  `MaxWindows = 0`: nothing after a window.
* **Earn**: the contract of one plan as the code uses it, the scheduler and the
  administrator (chain call, then row), joins by signature, the listener with
  repeated windows.  A call that would not be accepted is refused or, when another
  one overtook it, mined and reverted (`reverted`).
  `EarnFollows`: the row is never ahead of the chain unless a call was reverted, does not
  stay behind it, a join is booked once, a settlement happens once.  A failure, a second
  request of the administrator or a second join: one of the three.
* **DeveloperTrade**: up to two handlers at a time of an API key (`new`, cancel,
  cancel all, batch cancel, modify), maker fills that are saved later, triggers
  that fire, a restart.  `ApiKeepsBooks`: what a cancel took from the engine never
  trades again, and margin is covered and whole.  Whether an order closes (and so
  freezes nothing) does not depend on its kind: limit, market and trigger orders do
  either.  A market or trigger row stores another reading of the mark price than the
  freeze used.

The parts share no state in the code either, apart from the balance row, which
each treats as its own.  No liveness is claimed here: all of these loops give
up or skip after an error, which the findings list.

## 9. Rewards

`MCRewards` puts two parts beside the trades of section 4 in `persist_faults`.

* **Referral**: bind, rebind and unbind (read, then transaction), the commission
  of a trade (row in the trade's transaction and entry in memory, in that order),
  the batch (drain the memory, gather rows, submit, mark all pending rows), the
  claim, the redemption and its listener.  `CommissionFollows`: a commission goes
  to who was the referrer at the trade; its row once committed, it is paid or waits in
  memory, outside two windows: a batch that was mined and reverted counts as settled,
  since the status of a receipt is not read (`reverted`), and a restart takes the memory.
  Without failures each of its two places, memory and row, is paid once at most.
  Two commissions of one trader, two referrers, two requests; one failure or
  crash, or a second request (`OneTrouble`).
* **Points**: a worker that hears the match, a task of the persisted trade, closes
  and the hourly batch award points by reading, deciding and writing separately;
  `Midnight` moves on.  `LimitsHold`: the limits by day and week hold for whoever
  is not awarded by two tellers at once, in weeks inside one year.  Four days, the
  last of a year and three of the next, whose first week began in the old one.

## 10. Findings and divergences

Shown by runs, with the quoted lines in `PROJECT.json`: positions applied twice
by recovery (`persist_overlap`), an order that trades more than its amount after
an amend (`orderflow_amend`), the reconciliation rule (`positions_balance`).

Met while modelling.  A definition in brackets is a property that states the
expectation in its module, marked "Not so", and is not checked by a run.

*Book and engine.*
The self-check (`engine.rs:386`) expects every PartiallyFilled order in the
book, but a partly filled IOC or market order never rests.
`set_last_trade_price` (`orderbook.rs:68`) parses the scaled price as an integer
and stores 0 when it has fractional digits.
A maker priced finer than eight decimals sits in a level of truncated price; the
limit is compared with the level, the trade is done at the maker's price
(`orderbook.rs:389`, `405`).
Overlapping amends queue an id twice (`IdQueuedOnce`).
Partially filled orders are not restored after a restart (`engine.rs:498`), and
the trades a restored order makes at once are not written to its row.

*Persistence.*
A crash loses the trades in memory (`NoTradeLost`).
After "maker leg Ok, taker leg failed" the retry applies the maker leg again
(`orchestrator.rs:1144`).
A panic in a position update ends the recovery worker for good
(`bootstrap.rs:200`); tasks have a `catch_unwind`.

*Order handlers.*
`create_order` writes status and filled amount absolutely (`order.rs:1221`): a
maker fill persisted before it is lost from the row, a cancel that ran in between
is overwritten with `open`.
Two cancels that both read a cancellable row both refund; a cancel refunds lots
that traded and are not persisted; two creates that both pass the balance check
overdraw it; `update_order` moves no margin when the amount changes and its taker
fills release none; a cancel applies the unfilled share to a margin already
reduced by fills and so refunds too little.
`batch_cancel` reports and refunds an order whose row UPDATE failed
(`order.rs:2420`); a restart restores it.
*Developer API*: margin is frozen before the client-id check, the insert and the
submission, and not returned when one fails; cancels refund remaining × price
also for closing orders that froze nothing (`RefundsAreFrozen`), resting or waiting as
a trigger (window `refunded`), and at the price of the row, which for a trigger is read
after the one its margin was computed by (`repriced`); modify pro-rates
a margin already reduced, and a stale filled amount overfills; a modify to the
filled quantity leaves a live row without an order; a partly filled market order
keeps its margin and cannot be cancelled; cancel all ignores the engine's answer
and its UPDATE marks orders placed later, which stay in the book; the row of a
fired trigger keeps its margin.

*Positions.*
A whole row read before a close and written after it reopens the position, so that
a user can hold both sides (`NeverBothSides`).
Collateral of positions opened or topped up through the API stays mirrored in
`frozen` and is credited again by the clean-up, which treats only 'pending' orders
as blocking.  An order that only closes freezes nothing; a maker's fill of it moves its
margin all the same, a taker's request releases a fee estimate, and a market order
that met nobody gets that estimate credited (`order.rs:1266`).  A taker that pays more
than its limit's margin takes the difference to the position unfrozen.  Balance statements
that fail after a row was written are logged and never made up.  A flip forfeits the
incoming order's margin.  The floor of a partial
close erases negative funding.  A liquidation credits a buffer already released.
The funding fee is written twice to `protocol_fee_ledger`.  `update_open_interest`
has no caller outside tests.

*Funding.*
The scheduler waits eight hours whatever interval is configured; `settled_at` is
written and never read, so nothing stops a second settlement; a restart or an
error during a settlement leaves the rest uncharged; applying a fee does not check
that the row is still open.

*Liquidation and risk.*
ADL is asked for too much, since the fund's payout is looked up by a type nobody
writes (`AskedForTheGap`).  Three overlapping payouts can overdraw the fund.  ADL
ranks by price difference times size and writes the absolute size of the ranking.
A crash before ADL loses the gap; one between status and cancel loses the cancel.
`cancel_all_open_orders` refunds although its UPDATE changed no row; a list that fails
counts as no orders (`enforcement.rs:54`) and the tick goes on to liquidate; an UPDATE
that fails leaves the row open (though the book has lost the order) until the status
changes again; a failed refund keeps the margin frozen.  The clean-up of a
liquidation makes available what open orders hold (`liquidation/mod.rs:509`: it looks
for 'pending' ones only), and their cancel credits it again.

*Spot.*
A non-crossing post-only order is cancelled (`PostOnlyRests`; `engine.rs:281`).
When the statement of its refund fails its row stays open outside the book; an order
that crosses it may rest before a restart restores the row, and the rebuilt book is
then crossed (two faults, so it was the attempt to prove the book uncrossed for any
number of them that showed it; `SpotUncrossed` is about the other orders).
The price improvement of buys stays frozen.  One failed commit loses the remaining
hits.  Cancelling a half-placed market order refunds nothing and panics the task at
`price.expect("limit")`.  The self-trade check looks at the top maker only.  The
reconciler's third check ignores order locks.  The reaper can expire a withdrawal
that is redeemed.

*Reserve vault.*
The request checks without a guard against a pending one, so two share a nonce; the
event then confirms both rows and drops one amount.  A repeated scan drops the lock
twice; a cancel and the expiry both unlock; a failed deposit and the second deposit
of one transaction are skipped for ever; no confirmation depth;
`update_withdrawal_status` has no caller.  A cancel asks the chain for nothing and its
signature stays valid for the rest of its hour (`withdraw/mod.rs:257`, `397`): a row
that is cancelled and then redeemed (`redeemed late`), or redeemed and then cancelled or
expired (`cancelled late`, `expired late`), leaves the account with what the vault has
paid out.

*Stops.*
The engine has no reduce-only: take-profit and stop-loss can both fire while the
first fill is unpersisted.  A crash leaves a row 'triggered' for ever; an error
after the submission marks a traded order 'failed'; a resting limit trigger is
called 'failed', one filled in part 'executed' while its rest is on the book
(`keeper/mod.rs:611`).  Replacing stops cancels the old ones before the new ones are
validated.  The count limit of `create` is not atomic.  `POST /trigger-orders`
(`api/handlers/trigger_orders.rs:140`) inserts an active row for whatever
`position_id` it is given, open or not, the caller's or not, without a row of
`position_tp_sl`: such a row is no stop that the position names, no close cleans it
up when its position is gone, and one that closes the position with a size of its own
sells also without a position.

*Earn.*
The status of a receipt is not read, so a reverted open, activate or close is followed by
its row all the same (`earn/mod.rs:1600`, `1619`, `1669`).
A chain call whose row was not written is retried in vain for ever
(`settlement.rs:84` says the next cycle will retry).  The administrator's settle
writes the row only (`SettleClosesPlan`).  The scheduler's late UPDATE revives a
cancelled plan or makes a redeemed row payable.  Events of unknown plans are
dropped.  The quota is checked when signing only.

*Referral.*
The batch counts memory and rows, so a commission is paid twice in one life of the
process; any mined receipt confirms a batch, also a reverted one
(`referral/mod.rs:350`); its UPDATE marks rows that were not in it; a redemption marks everything
settled by then as claimed, whatever was signed; the listener passes over blocks
whose query failed; a failed statement inside the bind transaction turns its commit
into a rollback that is answered as success.

*Points.*
Every trade earns twice (`app/workers.rs:346` and `orchestrator.rs:153`); tellers
that overlap exceed limits; the weekly limit is not kept in a week that spans new
year, nor from one year to the next; `rp_daily_used` is never reset; the epoch
transitions have no caller.

## 11. Theorems

All proofs are checked by TLAPS for every value of the constants that satisfies
the assumptions the modules name: amounts are naturals, ids differ from `None`, and
the sets that are counted or added up (orders, requests, rows, workers, callers,
payments, withdrawals, deposits) are finite.  A further hypothesis is written in
the theorem itself and given below.  Bounds on crashes, errors and requests are
constants too, so a theorem holds for any number of them.

The argument is the same everywhere: an inductive invariant, checked by TLC on
the module's run before it was proved, with one lemma per action or per part.

* **SumFacts**: sums of a function over a finite set (`SumEmpty`, `SumChange`,
  `SumLinear`, `SumMonotone`, ...).  The library's induction theorems take an
  operator and cannot be instantiated; each fact is instead proved by a least
  counterexample, on the cardinality of the set.
* **OrderbookProofs**: `TypeCorrect`; `SweepsExclude`; `CounterCorrect` (the
  counter plus what is owed equals the number of entries, by cardinality lemmas
  on the sets of owing workers).  `QueuesMatchIndex` and `CancelledStaysOut` need to
  know, for every call between its critical section and the index, which entry it
  has put or taken and that no other call has the same one; both are for orders
  nobody amends, as an amend may queue an id twice.  `FillOrKill`: a sweep that counted
  enough keeps the lock, so what it has left never exceeds what the side offers it
  (a sum over entries).  `SerialUncrossed` (`Scale = 1`): with one call at a time
  nothing on the other side matches what a call is about to queue.
  `LedgerImplemented` is the refinement: initial states map to initial states and
  every step to a step of `MatchingLedger` or a stutter, for `Amendable = {}`.
  `SpotBooksAgree` and `SpotLocksCovered` (SpotEngine) have `SpotInv`, for any number of
  orders, failed statements and restarts.  The sweep takes the makers in the order of
  `Ahead`, which is total on one side of the book: it hits each maker once, with what the
  book then has left, adds up to what the order has used, and leaves either nothing of the
  order or nothing in its reach (`SweepExists`, `MatchedOver`, by a least counterexample
  on the set of makers).  From there on the book is within the rows less the hits that
  are not committed, and equal to them where none was lost (`BookWithin`); the room of
  the order in hand is what is left plus what those hits will use (`JobSound`); every
  order the book should have is there (`LiveInBook`), hence two resting orders cannot
  cross (`RowsUncrossed`); and frozen covers a sum over the orders, the one in hand until
  its refund, and the freeze that has no row yet (`MoneySound`).  A fill changes two
  summands, one per token; a command that is cut short changes none, which is why the
  histories name whose hit, row or refund was lost.
* **TradePersistenceProofs**: `PersistenceTypeCorrect`; `FillBookedOnce`;
  `MarkersAreSound`, whose inductive invariant adds that an updater past the
  guard works on a persisted trade, that `made` implies an effective maker leg,
  and that an updater at `record` has both.  `LegsAppliedOnce` adds, for a trade
  outside the disturbed windows, that one updater at most is past its guard, that no
  marker is set then, and which legs its step says have been applied.
  `ApiBooksKept` (DeveloperTrade) has `ApiInv`.  Whatever fails: one call at a time
  carries an order to the engine and it does not rest meanwhile (`OneCarrier`), a
  call's order has a row unless the call is about to write it (`CallsPlaced`), an
  order without a row has no trades, a trigger order is never in the book
  (`OrdersPlaced`), and an order that is gone is neither at rest nor carried
  (`StaysGone`).  Until a refund does not fit: what a call has read and frozen is
  what its order's row says (`CallsFit`, `OrdersFit`), and `MarginFits`: frozen is
  what the book needs, the unfired triggers, twice what traded and is not saved yet,
  and what the calls owe; available + frozen + taken is the deposit, what is not saved
  yet and what was traded before its call released it.  A step changes one summand of
  each sum, so `ApiCovered` and `ApiBalanced` follow at every step.
* **OrderFlowProofs**: `OrderFlowTypeCorrect`; `CancelIsKept`; `FilledIsTraded`.
  `CancelHolds` alone is not inductive: a restart restores open rows and a running create
  rewrites its row.  The strengthening `CancelInv` says that an order a
  finished cancel stands for was created, has no create request left, does not
  rest, and has a status recovery ignores; that an order under a late cancel is
  started and, once the engine cancelled it, does not rest; and that only
  amendable orders are amended.  One frame lemma per kind of request shows that
  its steps leave such an order alone, and the restart is a case of its own.
  `FilledNeverOverstated` needs `FillInv`: the filled amount of a row, and the
  amount every running request holds and is about to write into one, fit into
  what was traded less the fills not yet persisted.  That difference never
  shrinks, so a stale absolute write can lose a fill but never invent one.
  `AccountCovered` and `MoneyKept` share `AccountInv`: while nothing is disturbed
  no two requests work on one order (`Apart`), each order is at rest or at its
  request's stage, and there are three books (held, paid, due per order) such that
  available + frozen + `Collateral` × Σ paid is the deposit and Σ held + Σ due fits
  in frozen.  A step changes the entry of one order in each book.
* **PositionsProofs**: `TypesKept`; `OneSideAtATime`; `PaidAtMostOnce`.  The
  invariant `Inv` says that whoever is inside `increase_position` holds the lock
  (`Held`), that ids workers work on are rows that exist (`AllKnow`), `OneSide`,
  and, as long as there was no stale write, that what a worker found with the lock
  held is still true (`Found`: nobody else inserts) and that no open row was paid
  (`NotPaid`).  The lock excludes increases only; against the other writers
  `Found` needs the premise on stale writes, which is why both properties have it.
  `MoneyReconciled` has `MoneyInv`, claimed while nothing leaked: what rows, orders and
  workers hold is sound (open rows have a size, a write closes no more than the row
  has, one worker applies one order), and available + frozen + what the rows, the
  orders and the workers between two statements hold is the deposit plus profits
  less fees (`Reckoned`).  A taker's collateral counts with its order and is
  taken off as long as its request has not released it (`Unreleased`).  Every step changes at most one summand of each sum.
* **RiskProofs**: `StaysClosed`, an action property, for any book, prices and
  rates: `RiskInv` says that the workers' local rows have the rows' shape
  (`Shapes`), that who is being liquidated is a user (`Known`), and that a
  liquidator about to write holds the row lock and saw it open (`Guarded`).
  `WorkerClearsOrders` follows from where the worker stands in its pass and which
  orders it has flipped.  `CasesCovered` relates what a task has read of the fund and of
  the ranking to what it may still take.  Its hypothesis is `FundCapPct <= 50`: two
  overlapping payouts, each capped by what the fund had, then fit into it; the
  default is one half (`services/liquidation/mod.rs:45`).
  `NobodyHolds` (PositionLock): `PoolInv` adds to the types that the
  holder of a key is inside its work (`HeldInside`); the free connections are
  counted by cardinalities, for any finite set of callers and any pool.
* **RewardsProofs**: `CommissionsFollowTrades` follows a commission from the trade's
  transaction (who was bound then) to its row and its entry in memory, with the
  assumption that nobody refers himself (`api/handlers/referral.rs:418`).
  `PlansFollowed` (Earn) has `EarnInv`: the events tell what the contract did, before
  an event and after it (`ChainTold`); what the scheduler or the administrator is about
  to write was reached on the chain (`SchedKnows`, `AdminKnows`); the row is never
  ahead (`RowBehind`); while nothing disturbed it, each difference of row and
  plan is a write under way or a created event nobody has handled (`GapExplained`);
  a join is booked once (`JoinsKept`); what is left of a listener's window comes
  after what it has done (`InOrder`); a settlement happens once (`SettlesKept`).
  `LimitsKept` has `PointsInv`: two tellers at work on one user are remembered as
  overlapping (`OverlapsKnown`), a single teller's reading is still true, so what it
  is about to write fits (`AwardsKept`), and the hourly batch alone awards holdings
  (`DutiesApart`).  Its assumption on the calendar is that the days of one week have
  consecutive numbers.
* **ServicesProofs**: `StopsKept` and `StopsFireOnce` (TriggerOrders) from `TriggerInv`:
  what a row's status tells of the order it sent (`SentOnce`), where the keeper stands
  with it (`KeeperKnows`, `OutcomeIsTrue`), that a request under way covers the rows it
  has not named yet (`LinkInv`), and what unseen fills leave to be sold (`TurnInv`).
  `CustodyKept` from `CustodyInv`: each release on the chain is a row as it was stored,
  released once (`ChainFollowed`); deposits are followed to the listener's own block, not
  only the saved one (`DepositsFollowed`); outside the windows what is locked is the
  pending sum and the purse, the pending and the paid add up to the deposits recorded
  (`AccountKept`).  `VaultKept` (SpotVault) from `VaultInv`: a release's nonce counts the
  releases before it, so nonces differ (`NoncesCount`); its row is the one signed for it
  (`RowsKnown`); each event up to the end of a batch is booked or in the batch
  (`DepositsInHand`, `ReleasesInHand`); what was credited is free, held for a signed row
  or paid (`BooksKept`).

Only model-checked:

* Liveness (`EveryCallReturns`, `EventuallySettled`, `BadPositionsClose`,
  `RestrictedLosesOrder`, `EveryIncreaseEnds`), which is out of the prover's reach.
* With orders that are amended: `QueuesMatchIndex`, `CancelledStaysOut` and the ledger,
  which are not true of them.

## 12. Not modelled

* **Components without a module**: VIP tiers, market-maker scores and RWA, sharding,
  price feed and klines, caches, authentication and rate limits, the WebSocket
  gateway, configuration and utilities.  Apart from sharding they hold no state the
  modelled components rely on.  Sharding makes one process the owner of a symbol's
  book by a hash over the configured number of replicas; every module here describes
  that owner, and none the time in which replicas disagree on the number.
* **Left out of modelled components**: book snapshots and symbol management; the
  unified-margin and open-interest gates of `create_order`; forwarding between
  shards; fees as money (their booking is modelled where it moves a row); the
  funding rate itself (the settlement is modelled as a writer of rows); trailing
  stops, expiry and triggers on the side that enters a position, and `check_and_trigger_orders`,
  which nothing calls; `wallet.transfer`, halted and delisted spot markets; amounts
  and returns of earn plans; tiers, counters and `get_claim_signature` of referral;
  epochs, seasons, claims and staking of points.
* **services/risk** is not used by the running server.

The map covers less than 30 % of the implementation's lines.  Much of what remains
is read-only queries, request and response types, signing and calls to chains and
exchanges, formatting and start-up; the candidates with state are a
resize of the shards, points epochs, kline aggregation and the circuit breaker of
the price feed.
