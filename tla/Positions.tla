----------------------------- MODULE Positions -----------------------------
(***************************************************************************)
(* The positions of one user in one market (services/position/mod.rs,      *)
(* api/handlers/position.rs): what trades, API calls, the liquidation      *)
(* worker and the funding worker do to the position rows and to the        *)
(* balance.  The position service reads a row without a lock and later     *)
(* writes the whole row back; the close handler and the liquidation lock   *)
(* the row; an advisory lock per user and market orders the increases.     *)
(* Money is a whole number; shares are rounded down and the rest stays in  *)
(* the row.                                                                *)
(***************************************************************************)
EXTENDS Integers, FiniteSets, FiniteSetsExt

CONSTANTS
    Workers,     \* persistence tasks, handlers and periodic workers
    Pids,        \* position ids
    Orders,      \* order ids
    Lots,        \* order amounts
    Prices,      \* limit, execution and mark prices
    Leverage,
    BufferDiv,   \* the buffer frozen on top of the margin: size \div BufferDiv
    FeePerLot,   \* trading fee of a fill
    FundingFees, \* what one funding settlement charges
    LiqFee,      \* fees of a liquidation
    Deposit,
    MinSize, MinCollateral, MmrDiv,   \* position and order size limits, 1 / maintenance rate
    Kinds,       \* kinds of calls made: subset of {"open", "close", "move", "liquidate", "fund"}
    MaxCalls,    \* bound: calls altogether
    None

ASSUME AmountAssumption ==
    /\ Lots \subseteq Nat \ {0} /\ Prices \subseteq Nat \ {0}
    /\ Leverage \in Nat \ {0} /\ BufferDiv \in Nat \ {0} /\ MmrDiv \in Nat \ {0}
    /\ FeePerLot \in Nat /\ FundingFees \subseteq Int /\ LiqFee \in Nat
    /\ Deposit \in Nat /\ MinSize \in Nat /\ MinCollateral \in Nat
ASSUME CallAssumption == MaxCalls \in Nat
ASSUME IdAssumption == None \notin Workers \cup Pids \cup Orders
ASSUME FiniteAssumption == IsFiniteSet(Pids) /\ IsFiniteSet(Orders) /\ IsFiniteSet(Workers)

VARIABLES
    pos,                \* positions: id -> row
    orders,             \* orders: id -> row
    available, frozen,  \* balances
    lock,               \* holder of the advisory lock
    pc, loc,            \* worker -> next statement, local variables
    calls,              \* how many calls were made
    pnl, fees,          \* history: realised profit, charged fees
    absorbed,           \* history: losses beyond the collateral
    gift,               \* history: amounts credited that were never frozen
    leaks,              \* history: ways in which money was lost or made up
    closings            \* history: id -> how often its collateral was paid out

account == <<available, frozen>>
books   == <<pnl, fees, absorbed, gift, leaks, closings>>
vars    == <<pos, orders, account, lock, pc, loc, calls, books>>

Sides == {"long", "short"}
Opposite(side) == IF side = "long" THEN "short" ELSE "long"

NoRow   == [status |-> "none", side |-> "long", tokens |-> 0, size |-> 0,
            coll |-> 0, tfee |-> 0, ffee |-> 0]
NoOrder == [status |-> "none", side |-> "long", lots |-> 0, price |-> 0, margin |-> 0,
            need |-> 0, due |-> "none"]
NoLoc   == [order |-> None, side |-> "long", lots |-> 0, price |-> 0, coll |-> 0, pid |-> None,
            want |-> 0, flip |-> FALSE, snap |-> NoRow, row |-> NoRow,
            returned |-> 0, whole |-> FALSE]

Init ==
    /\ pos = [p \in Pids |-> NoRow]
    /\ orders = [o \in Orders |-> NoOrder]
    /\ available = Deposit /\ frozen = 0
    /\ lock = None
    /\ pc = [w \in Workers |-> "idle"] /\ loc = [w \in Workers |-> NoLoc]
    /\ calls = 0
    /\ pnl = 0 /\ fees = 0 /\ absorbed = 0 /\ gift = 0
    /\ leaks = {} /\ closings = [p \in Pids |-> 0]

Least(m, n) == IF m < n THEN m ELSE n
AtLeastZero(n) == IF n > 0 THEN n ELSE 0
Share(amount, part, whole) == IF whole > 0 THEN (amount * part) \div whole ELSE 0

Buffer(size) == size \div BufferDiv
Margin(size) == size \div Leverage + Buffer(size)

\* UPDATE balances SET frozen = GREATEST(frozen - x, 0), available = available + y.
Move(fromFrozen, toAvailable) ==
    /\ frozen' = AtLeastZero(frozen - fromFrozen)
    /\ available' = available + toAvailable

\* A statement of its own does so, or fails: its error is logged or told, no more.
Settle(fromFrozen, toAvailable, windows) ==
    \/ Move(fromFrozen, toAvailable) /\ leaks' = leaks \cup windows
    \/ leaks' = leaks \cup {"failed"} /\ UNCHANGED account

Open(side) == {p \in Pids : pos[p].status = "open" /\ pos[p].side = side}
OpenRows   == {p \in Pids : pos[p].status = "open" /\ pos[p].size > 0}

Goto(w, label) == pc' = [pc EXCEPT ![w] = label]
Finish(w) == Goto(w, "idle") /\ loc' = [loc EXCEPT ![w] = NoLoc]
Count(kind) == kind \in Kinds /\ calls < MaxCalls /\ calls' = calls + 1

-----------------------------------------------------------------------------
(* What a row is worth. *)

Profit(row, price) ==
    IF row.side = "long" THEN row.tokens * price - row.size
                         ELSE row.size - row.tokens * price

Remaining(row, price) == row.coll + Profit(row, price) - row.ffee

\* check_liquidation of the position service.
Liquidatable(row, price) ==
    LET r == Remaining(row, price) IN r <= 0 \/ r < MinCollateral \/ r * MmrDiv < row.size

\* should_liquidate of the liquidation service has no minimum collateral.
ShouldLiquidate(row, price) ==
    LET r == Remaining(row, price) IN r * MmrDiv < row.size \/ r <= 0

\* Mutated: the row gets a status the program does not know.
ShutUnnamed(row) ==
    [row EXCEPT !.status = "settled", !.tokens = 0, !.size = 0, !.coll = 0,
                !.tfee = 0, !.ffee = 0]

Shut(row) ==
    [row EXCEPT !.status = "closed", !.tokens = 0, !.size = 0, !.coll = 0,
                !.tfee = 0, !.ffee = 0]

\* Mutated: a partial close leaves the whole collateral in the row.
CutWithoutCollateral(row, c) ==
    [row EXCEPT !.tokens = @ - Share(@, c, row.size), !.size = @ - c,
                !.tfee = AtLeastZero(@ - Share(@, c, row.size)),
                !.ffee = AtLeastZero(@ - Share(@, c, row.size))]

\* decrease_position: the row a partial close of c leaves; fees are floored at zero.
Cut(row, c) ==
    [row EXCEPT !.tokens = @ - Share(@, c, row.size), !.size = @ - c,
                !.coll = @ - Share(@, c, row.size),
                !.tfee = AtLeastZero(@ - Share(@, c, row.size)),
                !.ffee = AtLeastZero(@ - Share(@, c, row.size))]

\* What a close of c realises, charges and returns.
Gain(row, c, price)  == Share(Profit(row, price), c, row.size)
Charge(row, c)       == Share(row.tfee, c, row.size) + Share(row.ffee, c, row.size)
Payout(row, c, price) == Share(row.coll, c, row.size) + Gain(row, c, price) - Charge(row, c)

\* The books of a close of c from the row of p.
Book(p, row, c, price) ==
    /\ pnl' = pnl + Gain(row, c, price)
    /\ fees' = fees + Charge(row, c)
    /\ absorbed' = absorbed + AtLeastZero(-Payout(row, c, price))
    /\ closings' = [closings EXCEPT ![p] = IF c = row.size THEN @ + 1 ELSE @]

\* An order's row says 'pending' until its request has written the engine's answer.
RowPending(o) == orders[o].status = "pending" \/ orders[o].due \in {"row", "lost"}

\* After a full close, what is still frozen becomes available, unless a
\* position is open or an order is 'pending' (an order that rests is 'open').
Residual(openLeft) ==
    IF openLeft \/ \E o \in Orders : RowPending(o) THEN 0 ELSE frozen

-----------------------------------------------------------------------------
(* Orders of the user, as far as they move money (order.rs, orchestrator.rs).  An *)
(* order fills whole: at once, as a taker, or at rest, as a maker.                *)

\* An order that only closes freezes nothing: decided in tokens when it is placed.
Closes(side, lots) ==
    \E p \in Open(Opposite(side)) : lots <= pos[p].tokens

\* Half a percent of the size.
FeeEstimate(size) == (Leverage * size) \div BufferDiv

\* calculate_required_margin_with_user: an order no larger than the position against it,
\* by value, is to cost fees only, a larger one the margin of the difference.
Required(side, size) ==
    IF Open(Opposite(side)) = {} THEN {Margin(size)}
    ELSE {IF size <= pos[p].size THEN FeeEstimate(size) ELSE Margin(size - pos[p].size)
          : p \in Open(Opposite(side))}

Place(o, side, lots, price) ==
    \E need \in Required(side, lots * price) :
    LET m == IF Closes(side, lots) THEN 0 ELSE need IN
    /\ orders[o].status = "none" /\ available >= m
    /\ available' = available - m /\ frozen' = frozen + m
    /\ orders' = [orders EXCEPT ![o] = [status |-> "pending", side |-> side, lots |-> lots,
                    price |-> price, margin |-> m, need |-> need, due |-> "none"]]
    /\ UNCHANGED <<pos, lock, pc, loc, calls, books>>

Rest(o) ==
    /\ orders[o].status = "pending"
    /\ orders' = [orders EXCEPT ![o].status = "open", ![o].need = 0]
    /\ UNCHANGED <<pos, account, lock, pc, loc, calls, books>>

\* The engine fills the order as a taker, at the makers' price; its trade may reach the
\* positions before the request goes on.
Match(o, price) ==
    /\ orders[o].status = "pending"
    /\ orders' = [orders EXCEPT ![o].status = "filled", ![o].price = price, ![o].due = "row"]
    /\ UNCHANGED <<pos, account, lock, pc, loc, calls, books>>

\* A market order that met no liquidity.
Unfilled(o) ==
    /\ orders[o].status = "pending"
    /\ orders' = [orders EXCEPT ![o].status = "cancelled", ![o].due = "row"]
    /\ UNCHANGED <<pos, account, lock, pc, loc, calls, books>>

\* The request writes the row; if that fails it answers with an error and stops.
RowWritten(o) ==
    /\ orders[o].due = "row"
    /\ \/ orders' = [orders EXCEPT ![o].due = "release"] /\ UNCHANGED leaks
       \/ orders' = [orders EXCEPT ![o].due = "lost"] /\ leaks' = leaks \cup {"failed"}
    /\ UNCHANGED <<pos, account, lock, pc, loc, calls, pnl, fees, absorbed, gift, closings>>

\* What a filled order takes to a position.
Collateral(row) ==
    IF row.status = "cancelled" THEN 0 ELSE (row.lots * row.price) \div Leverage
Unspent(row) == AtLeastZero(row.need - Collateral(row))

\* ... and releases what it took to be the margin, whether that was frozen or not.
TakerRelease(o) ==
    LET row == orders[o] IN
    /\ row.due = "release"
    /\ orders' = [orders EXCEPT ![o].due = "none", ![o].need = 0]
    /\ Settle(row.need, Unspent(row),
              (IF row.margin = 0 /\ frozen > 0 THEN {"drained"} ELSE {}) \cup
              (IF row.margin > 0 /\ frozen < row.need THEN {"short"} ELSE {}) \cup
              (IF row.margin > 0 /\ row.need < Collateral(row) THEN {"slipped"} ELSE {}))
    /\ gift' = gift + (IF row.margin = 0 THEN Unspent(row) ELSE 0)
    /\ UNCHANGED <<pos, lock, pc, loc, calls, pnl, fees, absorbed, closings>>

Cancel(o) ==
    LET m == orders[o].margin IN
    /\ orders[o].status = "open"
    /\ orders' = [orders EXCEPT ![o] = [NoOrder EXCEPT !.status = "cancelled"]]
    /\ Move(m, m)
    /\ leaks' = leaks \cup (IF frozen < m THEN {"short"} ELSE {})
    /\ UNCHANGED <<pos, lock, pc, loc, calls, pnl, fees, absorbed, gift, closings>>

\* The order fills at rest, at its price, in the transaction of the trade: the
\* collateral leaves the frozen margin for a position, the buffer comes back, also
\* when nothing was frozen.
Fill(o) ==
    LET row  == orders[o]
        size == row.lots * row.price
    IN
    /\ row.status \in {"pending", "open"}
    /\ orders' = [orders EXCEPT ![o].status = "filled", ![o].need = 0]
    /\ Move(Margin(size), Buffer(size))
    /\ gift' = gift + (IF row.margin = 0 THEN Buffer(size) ELSE 0)
    /\ leaks' = leaks \cup (IF row.margin = 0 /\ frozen > 0 THEN {"drained"} ELSE {})
                      \cup (IF row.margin > 0 /\ frozen < Margin(size) THEN {"short"} ELSE {})
    /\ UNCHANGED <<pos, lock, pc, loc, calls, pnl, fees, absorbed, closings>>

-----------------------------------------------------------------------------
(* increase_position, for a trade (order # None) or for open_position. *)

ByTrade(w) == loc[w].order # None
Incoming(w) == loc[w].lots * loc[w].price

\* Mutated: the lock is taken without waiting.
LockTaken(w) == lock' = w
Lock(w) == lock = None /\ lock' = w
Unlock  == lock' = None

\* update_positions_after_trade: the leg of a filled order.
Apply(w, o) ==
    /\ pc[w] = "idle" /\ orders[o].status = "filled"
    /\ Lock(w)
    /\ orders' = [orders EXCEPT ![o].status = "applying"]
    /\ loc' = [loc EXCEPT ![w] = [NoLoc EXCEPT !.order = o, !.side = orders[o].side,
                                   !.lots = orders[o].lots, !.price = orders[o].price]]
    /\ Goto(w, "opposing")
    /\ UNCHANGED <<pos, account, calls, books>>

\* open_position: the balance is checked, frozen by a statement of its own, and
\* both are done before the lock is asked for.
OpenCall(w, side, lots, price) ==
    /\ pc[w] = "idle" /\ Count("open")
    /\ available >= (lots * price) \div Leverage
    /\ loc' = [loc EXCEPT ![w] = [NoLoc EXCEPT !.side = side, !.lots = lots, !.price = price,
                                   !.coll = (lots * price) \div Leverage]]
    /\ Goto(w, "freeze")
    /\ UNCHANGED <<pos, orders, account, lock, books>>

Freeze(w) ==
    /\ pc[w] = "freeze"
    /\ available' = available - loc[w].coll /\ frozen' = frozen + loc[w].coll
    /\ leaks' = leaks \cup {"mirrored"}
    /\ Goto(w, "lock")
    /\ UNCHANGED <<pos, orders, lock, loc, calls, pnl, fees, absorbed, gift, closings>>

OpenLock(w) ==
    /\ pc[w] = "lock" /\ Lock(w)
    /\ Goto(w, "opposing")
    /\ UNCHANGED <<pos, orders, account, loc, calls, books>>

\* The call fails: a trade leg stays to be applied again by the recovery, an
\* open_position gives the frozen collateral back.
Fail(w) ==
    /\ Unlock
    /\ IF ByTrade(w)
       THEN Finish(w) /\ orders' = [orders EXCEPT ![loc[w].order].status = "filled"]
       ELSE Goto(w, "thaw") /\ UNCHANGED <<loc, orders>>

Thaw(w) ==
    /\ pc[w] = "thaw"
    /\ \/ /\ available' = available + loc[w].coll /\ frozen' = frozen - loc[w].coll
          /\ UNCHANGED leaks
       \/ leaks' = leaks \cup {"failed"} /\ UNCHANGED account
    /\ Finish(w)
    /\ UNCHANGED <<pos, orders, lock, calls, pnl, fees, absorbed, gift, closings>>

\* The inner work is done; a trade goes on to book its fee on the position.
Done(w, p) ==
    /\ Unlock
    /\ IF ByTrade(w)
       THEN Goto(w, "fee") /\ loc' = [loc EXCEPT ![w] = [NoLoc EXCEPT
              !.order = loc[w].order, !.pid = p]]
       ELSE Finish(w)

\* The opposing position is looked up and compared in tokens: an equal or larger
\* one is reduced, a smaller one closed and the rest opened.
Opposing(w) ==
    /\ pc[w] = "opposing"
    /\ \/ /\ Open(Opposite(loc[w].side)) = {}
          /\ Goto(w, "same") /\ UNCHANGED loc
       \/ \E p \in Open(Opposite(loc[w].side)) :
            LET row  == pos[p]
                flip == row.tokens < loc[w].lots
                want == IF flip \/ row.tokens = loc[w].lots THEN row.size
                        ELSE Share(row.size, loc[w].lots, row.tokens)
            IN
            /\ loc' = [loc EXCEPT ![w].pid = p, ![w].flip = flip, ![w].want = want,
                                  ![w].snap = row]
            /\ Goto(w, "decrease")
    /\ UNCHANGED <<pos, orders, account, lock, calls, books>>

\* How much decrease_position closes: everything, when what is left would be
\* liquidatable or too small.
Closed(row, want, price) ==
    LET c == Least(want, row.size) IN
    IF c < row.size /\ (Liquidatable(Cut(row, c), price) \/ row.size - c < MinSize)
    THEN row.size ELSE c

\* decrease_position reads the row by its id, without a lock.  (The full close
\* it may turn into reads the row once more, without writing in between.)
Decrease(w) ==
    /\ pc[w] = "decrease"
    /\ IF pos[loc[w].pid].status # "open"
       THEN Fail(w) /\ UNCHANGED calls
       ELSE LET row == pos[loc[w].pid]
                c   == IF loc[w].flip THEN row.size ELSE Closed(row, loc[w].want, loc[w].price)
            IN
            /\ loc' = [loc EXCEPT ![w].row = row, ![w].want = c]
            /\ Goto(w, "write")
            /\ UNCHANGED <<lock, orders, calls>>
    /\ UNCHANGED <<pos, account, books>>

\* What the write of a decrease books; the row may have changed since it was read.
Stale(p, row) == IF pos[p] # row THEN {"stale"} ELSE {}

Write(w) ==
    LET l == loc[w]
        whole == l.want = l.row.size
    IN
    /\ pc[w] = "write"
    /\ pos' = [pos EXCEPT ![l.pid] =
                 IF whole THEN Shut(l.row) ELSE Cut(l.row, l.want)]
    /\ Book(l.pid, l.row, l.want, l.price)
    /\ leaks' = leaks \cup Stale(l.pid, l.row)
                      \cup (IF ~whole /\ l.row.ffee < 0 THEN {"funding"} ELSE {})
    /\ loc' = [loc EXCEPT ![w].whole = whole,
                          ![w].returned = AtLeastZero(Payout(l.row, l.want, l.price))]
    /\ Goto(w, "release")
    /\ UNCHANGED <<orders, account, lock, calls, gift>>

\* The collateral of the position a flip opens.
Flipped(w) == ((loc[w].lots - loc[w].snap.tokens) * loc[w].price) \div Leverage

\* opposing_close_balance_delta: what leaves frozen and what becomes available.
\* Amounts come from the row read first, not from what was closed.
FrozenRelease(w) ==
    LET l == loc[w]
        part == IF l.flip \/ l.snap.tokens = l.lots THEN l.snap.size
                ELSE Share(l.snap.size, l.lots, l.snap.tokens)
    IN IF ByTrade(w) THEN 0 ELSE Share(l.snap.coll, part, l.snap.size) + Buffer(part)

AvailableAdd(w) ==
    LET l == loc[w]
        back == IF l.flip THEN AtLeastZero(l.returned - Flipped(w)) ELSE l.returned
        part == IF l.flip \/ l.snap.tokens = l.lots THEN l.snap.size
                ELSE Share(l.snap.size, l.lots, l.snap.tokens)
    IN IF ByTrade(w) THEN back ELSE back + Buffer(part)

\* The order's own margin went into no position.
Forfeits(w) == ByTrade(w) /\ orders[loc[w].order].margin > 0

Release(w) ==
    /\ pc[w] = "release"
    /\ Settle(FrozenRelease(w), AvailableAdd(w),
              IF Forfeits(w) \/ loc[w].flip THEN {"forfeited"} ELSE {})
    /\ IF loc[w].flip
       THEN /\ loc' = [loc EXCEPT ![w].lots = @ - loc[w].snap.tokens]
            /\ Goto(w, "same") /\ UNCHANGED lock
       ELSE IF ByTrade(w) /\ ~loc[w].whole
            THEN Done(w, loc[w].pid)
            ELSE Goto(w, IF ByTrade(w) THEN "clean" ELSE "incoming") /\ UNCHANGED <<loc, lock>>
    /\ UNCHANGED <<pos, orders, calls, pnl, fees, absorbed, gift, closings>>

\* open_position netted against the position: its own collateral comes back.
IncomingRelease(w) ==
    /\ pc[w] = "incoming"
    /\ Settle(loc[w].coll, loc[w].coll, {})
    /\ IF loc[w].whole THEN Goto(w, "clean") /\ UNCHANGED <<loc, lock>>
                       ELSE Done(w, loc[w].pid)
    /\ UNCHANGED <<pos, orders, calls, pnl, fees, absorbed, gift, closings>>

Clean(w) ==
    /\ pc[w] = "clean"
    /\ Move(Residual(OpenRows # {}), Residual(OpenRows # {}))
    /\ Done(w, None)
    /\ UNCHANGED <<pos, orders, calls, books>>

\* The rest goes to the position on the same side, looked up without a lock; an
\* open_position that is too small by now ends without one.
Same(w) ==
    LET size == Incoming(w) IN
    /\ pc[w] = "same"
    /\ IF ~ByTrade(w) /\ size < MinSize
       THEN Done(w, None) /\ UNCHANGED orders
       ELSE IF ~ByTrade(w) /\ size \div Leverage < MinCollateral
       THEN Fail(w)
       ELSE /\ \/ /\ Open(loc[w].side) = {}
                  /\ loc' = [loc EXCEPT ![w].pid = None, ![w].row = NoRow]
               \/ \E p \in Open(loc[w].side) :
                    loc' = [loc EXCEPT ![w].pid = p, ![w].row = pos[p]]
            /\ Goto(w, "store")
            /\ UNCHANGED <<lock, orders>>
    /\ UNCHANGED <<pos, account, calls, books>>

\* The whole row is written, or inserted under a new id.
Store(w) ==
    LET l    == loc[w]
        size == Incoming(w)
        row  == [l.row EXCEPT !.status = "open", !.side = l.side, !.tokens = @ + l.lots,
                              !.size = @ + size, !.coll = @ + size \div Leverage]
    IN
    /\ pc[w] = "store"
    /\ IF ~ByTrade(w) /\ Liquidatable(row, l.price)
       THEN Fail(w) /\ UNCHANGED <<pos, leaks>>
       ELSE /\ \E p \in IF l.pid = None THEN {q \in Pids : pos[q].status = "none"} ELSE {l.pid} :
                 /\ pos' = [pos EXCEPT ![p] = row]
                 /\ Done(w, p)
            /\ leaks' = leaks \cup (IF l.pid = None THEN {} ELSE Stale(l.pid, l.row))
                 \cup (IF ByTrade(w) /\ orders[l.order].margin = 0 THEN {"unbacked"} ELSE {})
            /\ UNCHANGED orders
    /\ UNCHANGED <<account, calls, pnl, fees, absorbed, gift, closings>>

\* The fill's trading fee is added to the row, whatever its status; a position
\* that was closed by the fill gets none.
Fee(w) ==
    LET l == loc[w] IN
    /\ pc[w] = "fee"
    /\ pos' = IF l.pid = None THEN pos
              ELSE [pos EXCEPT ![l.pid].tfee = @ + FeePerLot * orders[l.order].lots]
    /\ orders' = [orders EXCEPT ![l.order].status = "applied"]
    /\ Finish(w)
    /\ UNCHANGED <<account, lock, calls, books>>

-----------------------------------------------------------------------------
(* The close handler: one transaction that holds the row. *)

\* The handler's partial close floors nothing.
HandlerCut(row, c) ==
    [row EXCEPT !.tokens = @ - Share(@, c, row.size), !.size = @ - c,
                !.coll = @ - Share(@, c, row.size),
                !.tfee = @ - Share(@, c, row.size), !.ffee = @ - Share(@, c, row.size)]

\* Requests close everything or one token; what would be left too small goes, too.
HandlerCloses(row, tokens) ==
    LET c == Least(Share(row.size, tokens, row.tokens), row.size) IN
    IF row.size - c < MinSize \/ 100 * c >= 95 * row.size THEN row.size ELSE c

\* The close leaves the fees of a fully closed row as they were.
HandlerShut(row) ==
    [row EXCEPT !.status = "closed", !.tokens = 0, !.size = 0, !.coll = 0]

CloseHandler(p, tokens, price) ==
    LET row  == pos[p]
        c    == HandlerCloses(row, tokens)
        out  == Share(row.coll, c, row.size) + Buffer(c)
        left == OpenRows \ (IF c = row.size THEN {p} ELSE {}) # {}
        paid == AtLeastZero(Payout(row, c, price))
        rest == IF c = row.size /\ ~left THEN AtLeastZero(Residual(left) - out) ELSE 0
    IN
    /\ row.status = "open" /\ Count("close")
    /\ pos' = [pos EXCEPT ![p] = IF c = row.size THEN HandlerShut(row) ELSE HandlerCut(row, c)]
    /\ Book(p, row, c, price)
    /\ Move(out + rest, paid + rest)
    /\ leaks' = leaks \cup (IF frozen > 0 THEN {"drained"} ELSE {})
    /\ UNCHANGED <<orders, lock, pc, loc, gift>>

-----------------------------------------------------------------------------
(* Collateral moves, liquidation and funding. *)

\* add_collateral: check, move to frozen, then the service reads and writes the row.
Add(w, p) ==
    /\ pc[w] = "idle" /\ pos[p].status # "none" /\ Count("move")
    /\ \E a \in {MinCollateral} :
          a <= available /\ loc' = [loc EXCEPT ![w] = [NoLoc EXCEPT !.pid = p, !.coll = a]]
    /\ Goto(w, "addfreeze")
    /\ UNCHANGED <<pos, orders, account, lock, books>>

AddFreeze(w) ==
    /\ pc[w] = "addfreeze"
    /\ available' = available - loc[w].coll /\ frozen' = frozen + loc[w].coll
    /\ leaks' = leaks \cup {"mirrored"}
    /\ Goto(w, "addread")
    /\ UNCHANGED <<pos, orders, lock, loc, calls, pnl, fees, absorbed, gift, closings>>

AddRead(w) ==
    /\ pc[w] = "addread"
    /\ loc' = [loc EXCEPT ![w].row = pos[loc[w].pid]]
    /\ Goto(w, IF pos[loc[w].pid].status = "open" THEN "addwrite" ELSE "thaw")
    /\ UNCHANGED <<pos, orders, account, lock, calls, books>>

AddWrite(w) ==
    LET l == loc[w] IN
    /\ pc[w] = "addwrite"
    /\ pos' = [pos EXCEPT ![l.pid] = [l.row EXCEPT !.coll = @ + l.coll]]
    /\ leaks' = leaks \cup Stale(l.pid, l.row)
    /\ Finish(w)
    /\ UNCHANGED <<orders, account, lock, calls, pnl, fees, absorbed, gift, closings>>

\* remove_collateral: the service reads, checks and writes the row; the balance follows.
Remove(w, p, price) ==
    LET row == [pos[p] EXCEPT !.coll = @ - MinCollateral] IN
    /\ pc[w] = "idle" /\ pos[p].status = "open" /\ Count("move")
    /\ row.coll >= MinCollateral /\ ~Liquidatable(row, price)
    /\ loc' = [loc EXCEPT ![w] = [NoLoc EXCEPT !.pid = p, !.coll = MinCollateral, !.row = pos[p]]]
    /\ Goto(w, "removewrite")
    /\ UNCHANGED <<pos, orders, account, lock, books>>

RemoveWrite(w) ==
    LET l == loc[w] IN
    /\ pc[w] = "removewrite"
    /\ pos' = [pos EXCEPT ![l.pid] = [l.row EXCEPT !.coll = @ - l.coll]]
    /\ leaks' = leaks \cup Stale(l.pid, l.row)
    /\ Goto(w, "removepay")
    /\ UNCHANGED <<orders, account, lock, loc, calls, pnl, fees, absorbed, gift, closings>>

RemovePay(w) ==
    /\ pc[w] = "removepay"
    /\ Settle(loc[w].coll, loc[w].coll, IF frozen > 0 THEN {"drained"} ELSE {})
    /\ Finish(w)
    /\ UNCHANGED <<pos, orders, lock, calls, pnl, fees, absorbed, gift, closings>>

\* check_and_liquidate_market: the scan finds the row at a mark price ...
Scan(w, p, price) ==
    /\ pc[w] = "idle" /\ pos[p].status = "open" /\ Count("liquidate")
    /\ ShouldLiquidate(pos[p], price)
    /\ loc' = [loc EXCEPT ![w] = [NoLoc EXCEPT !.pid = p, !.price = price]]
    /\ Goto(w, "liquidate")
    /\ UNCHANGED <<pos, orders, account, lock, books>>

\* Mutated: the status is not looked at again.
LiquidateAnyway(row) == TRUE
StillOpen(row) == row.status = "open"

\* ... and execute_liquidation locks it, checks the status but not the condition,
\* and closes what it finds at the price of the scan.
Liquidate(w) ==
    LET p    == loc[w].pid
        row  == pos[p]
        left == Remaining(row, loc[w].price) - LiqFee
        out  == row.coll + Buffer(row.size)
        rest == IF OpenRows \ {p} = {} THEN AtLeastZero(Residual(FALSE) - out) ELSE 0
    IN
    /\ pc[w] = "liquidate"
    /\ IF StillOpen(row)
       THEN /\ pos' = [pos EXCEPT ![p] = [HandlerShut(row) EXCEPT !.status = "liquidated"]]
            /\ pnl' = pnl + Profit(row, loc[w].price)
            /\ fees' = fees + row.ffee + LiqFee
            /\ absorbed' = absorbed + AtLeastZero(-left)
            /\ gift' = gift + Buffer(row.size)
            /\ Move(out + rest, AtLeastZero(left) + Buffer(row.size) + rest)
            /\ leaks' = leaks \cup (IF frozen > 0 THEN {"drained"} ELSE {})
            /\ closings' = [closings EXCEPT ![p] = @ + 1]
       ELSE UNCHANGED <<pos, account, books>>
    /\ Finish(w)
    /\ UNCHANGED <<orders, lock, calls>>

\* settle_funding: the open positions are listed, then each is charged by its id.
FundList(w, p) ==
    /\ pc[w] = "idle" /\ pos[p].status = "open" /\ Count("fund")
    /\ loc' = [loc EXCEPT ![w] = [NoLoc EXCEPT !.pid = p]]
    /\ Goto(w, "fund")
    /\ UNCHANGED <<pos, orders, account, lock, books>>

FundApply(w) ==
    /\ pc[w] = "fund"
    /\ \E f \in FundingFees : pos' = [pos EXCEPT ![loc[w].pid].ffee = @ + f]
    /\ Finish(w)
    /\ UNCHANGED <<orders, account, lock, calls, books>>

-----------------------------------------------------------------------------
(* What else may fail. *)

\* A query of the service fails, and the call with it.
QueryFails(w) ==
    /\ pc[w] \in {"opposing", "decrease", "write", "same", "store"}
    /\ Fail(w)
    /\ UNCHANGED <<pos, account, calls, books>>

\* The errors of the clean-up and of the fee's statement are logged, if that.
CleanFails(w) ==
    /\ pc[w] = "clean"
    /\ Done(w, None)
    /\ UNCHANGED <<pos, orders, account, calls, books>>

FeeFails(w) ==
    /\ pc[w] = "fee"
    /\ orders' = [orders EXCEPT ![loc[w].order].status = "applied"]
    /\ Finish(w)
    /\ UNCHANGED <<pos, account, lock, calls, books>>

\* The client hangs up, or a statement of the request fails: nobody takes up what it
\* has begun.  (For trades, that is the subject of TradePersistence.)
Unbegun == {"freeze", "addfreeze", "removewrite", "liquidate", "fund"}
Drop(w) ==
    /\ pc[w] # "idle" /\ ~ByTrade(w)
    /\ lock' = IF lock = w THEN None ELSE lock
    /\ leaks' = IF pc[w] \in Unbegun THEN leaks ELSE leaks \cup {"dropped"}
    /\ Finish(w)
    /\ UNCHANGED <<pos, orders, account, calls, pnl, fees, absorbed, gift, closings>>

-----------------------------------------------------------------------------
Proceed(w) ==
    \/ Freeze(w) \/ OpenLock(w) \/ Thaw(w) \/ Opposing(w) \/ Decrease(w) \/ Write(w)
    \/ Release(w) \/ IncomingRelease(w) \/ Clean(w) \/ Same(w) \/ Store(w) \/ Fee(w)
    \/ AddFreeze(w) \/ AddRead(w) \/ AddWrite(w) \/ RemoveWrite(w) \/ RemovePay(w)
    \/ Liquidate(w) \/ FundApply(w)

Step(w) == Proceed(w) \/ QueryFails(w) \/ CleanFails(w) \/ FeeFails(w) \/ Drop(w)

Call(w) ==
    \/ \E o \in Orders : Apply(w, o)
    \/ \E side \in Sides, n \in Lots, price \in Prices : OpenCall(w, side, n, price)
    \/ \E p \in Pids : Add(w, p) \/ FundList(w, p)
    \/ \E p \in Pids, price \in Prices : Remove(w, p, price) \/ Scan(w, p, price)

\* The request of an order that fills or is turned down at once.
Answered(o) ==
    \/ \E price \in Prices : Match(o, price)
    \/ Unfilled(o) \/ RowWritten(o) \/ TakerRelease(o)

User ==
    \/ \E o \in Orders, side \in Sides, n \in Lots, price \in Prices : Place(o, side, n, price)
    \/ \E o \in Orders : Rest(o) \/ Answered(o) \/ Cancel(o) \/ Fill(o)
    \/ \E p \in Pids, n \in Lots, price \in Prices : CloseHandler(p, n, price)

Next == User \/ \E w \in Workers : Call(w) \/ Step(w)

Spec == Init /\ [][Next]_vars

-----------------------------------------------------------------------------
(* Types. *)

Row == [status : {"none", "open", "closed", "liquidated"}, side : Sides, tokens : Int,
        size : Int, coll : Int, tfee : Int, ffee : Int]
OrderRow == [status : {"none", "pending", "open", "filled", "applying", "applied", "cancelled"},
             side : Sides, lots : Nat, price : Nat, margin : Nat, need : Nat,
             due : {"none", "row", "release", "lost"}]
Locals == [order : Orders \cup {None}, side : Sides, lots : Int, price : Nat, coll : Int,
           pid : Pids \cup {None}, want : Int, flip : BOOLEAN, snap : Row, row : Row,
           returned : Int, whole : BOOLEAN]
Labels == {"idle", "freeze", "lock", "thaw", "opposing", "decrease", "write", "release",
           "incoming", "clean", "same", "store", "fee", "addfreeze", "addread", "addwrite",
           "removewrite", "removepay", "liquidate", "fund"}

\* Rows, orders, balances, workers and books keep their types.
TypeOK ==
    /\ pos \in [Pids -> Row] /\ orders \in [Orders -> OrderRow]
    /\ available \in Int /\ frozen \in Int
    /\ lock \in Workers \cup {None}
    /\ pc \in [Workers -> Labels] /\ loc \in [Workers -> Locals]
    /\ calls \in Nat
    /\ pnl \in Int /\ fees \in Int /\ absorbed \in Int /\ gift \in Int
    /\ leaks \subseteq {"stale", "mirrored", "forfeited", "unbacked", "slipped",
                         "drained", "short", "funding", "failed", "dropped"}
    /\ closings \in [Pids -> Nat]

-----------------------------------------------------------------------------
(* Properties. *)

NoStaleWrite == "stale" \notin leaks

\* increase_position promises that a user never holds both sides of a market, nor
\* two rows of one side: the advisory lock keeps the look-up of both sides and the
\* insert together.  It holds as long as no row changed between a read of the
\* service and its write.
OneSide == NoStaleWrite => \A p, q \in Pids :
    pos[p].status = "open" /\ pos[q].status = "open" => p = q

\* The collateral of a position is paid out in full once, whoever closes it first:
\* the close handler, a trade, open_position or the liquidation.
PaidOnce == NoStaleWrite => \A p \in Pids : closings[p] <= 1

\* What the rows hold and what left the balance for a row not yet written.
InRows == SumFunction([p \in Pids |-> IF pos[p].status = "open" THEN pos[p].coll ELSE 0])

\* Filled orders whose collateral is in no row yet, and rows cut whose payout is
\* not in the balance yet.
Orderly ==
    /\ \A w \in Workers : pc[w] \in {"idle", "fee", "fund", "liquidate"}
    /\ \A o \in Orders : orders[o].due \notin {"row", "release"}
InTransit == SumFunction([o \in Orders |->
    IF orders[o].status = "filled" /\ orders[o].margin > 0
    THEN (orders[o].lots * orders[o].price) \div Leverage ELSE 0])

Wealth == available + frozen + InRows + InTransit

\* The reconciliation rule of the audit comment in decrease_position,
\* (available + frozen + collateral) - start = pnl - fees, up to losses beyond the
\* collateral and to what was credited without having been frozen: it holds
\* between calls while none of the leaks named in the variable happened.
Reconciled ==
    leaks = {} /\ Orderly => Wealth = Deposit + pnl - fees + absorbed + gift

\* The rule as the comment states it.
Balanced ==
    leaks = {} /\ Orderly => Wealth = Deposit + pnl - fees + absorbed

\* "Users can't have both long and short positions on the same symbol".  (Not so
\* when a whole row read before a close is written back after it.)
NeverBothSides ==
    \A p, q \in Pids : pos[p].status = "open" /\ pos[q].status = "open"
                       => pos[p].side = pos[q].side
=============================================================================
