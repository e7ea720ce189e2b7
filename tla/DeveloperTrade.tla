---------------------------- MODULE DeveloperTrade ----------------------------
(***************************************************************************)
(* The orders of one API key (api/handlers/developer_trade.rs): new order, *)
(* cancel, cancel all, batch cancel and modify run side by side, each a    *)
(* sequence of statements and engine calls.  What tells two cancels, or a  *)
(* cancel and a modify, apart is only the engine's answer that it held the *)
(* order.  Lots, prices and margin are integers; leverage is 1 and the     *)
(* buffer as large as the collateral.                                      *)
(***************************************************************************)
EXTENDS Integers, FiniteSets, FiniteSetsExt, Functions

CONSTANTS
    Calls,        \* handler invocations that may run at the same time
    ApiOrders,    \* order ids
    Lots,         \* order amounts
    ApiPrices,    \* limit prices and mark prices
    ApiKinds,     \* subset of {"limit", "market", "trigger"}
    ApiDeposit,   \* the user's balance at the start
    Opposite,     \* lots of the opposite position, as often as it is read: what its
                  \* trades leave of it is known late
    MaxCalls,     \* bound on the requests, beyond one new order each
    MaxApiFaults  \* bound on failed statements, cut requests and restarts

ASSUME ApiAssumption ==
    /\ IsFiniteSet(Calls) /\ IsFiniteSet(ApiOrders) /\ IsFiniteSet(ApiPrices)
    /\ Lots \subseteq Nat \ {0} /\ ApiPrices \subseteq Nat /\ ApiDeposit \in Nat
    /\ ApiKinds \subseteq {"limit", "market", "trigger"}

VARIABLES
    orders,    \* order -> its row
    wallet,    \* balances: free and frozen
    inBook,    \* engine: order -> lots that rest
    unsaved,   \* order -> price -> lots traded as maker and not persisted yet
    triggers,  \* order -> status of its row of trigger_orders
    handler,      \* handler -> next statement and locals
    calls, apiFaults,
    exchanged, \* history: order -> lots traded
    taken,     \* history: collateral that went into positions
    gone,      \* history: order -> lots it had traded when a cancel removed it, or -1
    revived,   \* history: orders whose row a cancel did not leave as cancelled
    odd        \* history: windows in which refunds do not fit

apiVars == <<orders, wallet, inBook, unsaved, triggers, handler, calls, apiFaults,
             exchanged, taken, gone, revived, odd>>
engine == <<inBook, unsaved, exchanged, taken>>
limits == <<calls, apiFaults>>
apiHistory == <<gone, revived, odd>>

\* "close": the opposite position covers the order (is_closing), it freezes nothing.
Effects == {"open", "close"}
NoOrder == [status |-> "none", kind |-> "limit", effect |-> "open", price |-> 0, amount |-> 0,
            filled |-> 0, margin |-> 0, linked |-> FALSE]
Done == [pc |-> "idle"]

ApiInit ==
    /\ orders = [o \in ApiOrders |-> NoOrder]
    /\ wallet = [free |-> ApiDeposit, frozen |-> 0]
    /\ inBook = [o \in ApiOrders |-> 0]
    /\ unsaved = [o \in ApiOrders |-> [p \in ApiPrices |-> 0]]
    /\ triggers = [o \in ApiOrders |-> "none"]
    /\ handler = [c \in Calls |-> Done] /\ calls = 0 /\ apiFaults = 0
    /\ exchanged = [o \in ApiOrders |-> 0] /\ taken = 0
    /\ gone = [o \in ApiOrders |-> -1] /\ revived = {} /\ odd = {}

Step(c, r) == handler' = [handler EXCEPT ![c] = r]
GoOn(c, label) == Step(c, [handler[c] EXCEPT !.pc = label])
End(c) == Step(c, Done)
\* A create that has yet to write its row has drawn the id.
AtWork(o) == \E c \in Calls : handler[c].pc \in {"freeze", "insert"} /\ handler[c].order = o
Note(window, if) == odd' = IF if THEN odd \cup {window} ELSE odd
Fault == apiFaults < MaxApiFaults /\ apiFaults' = apiFaults + 1

NotNegative(n) == IF n > 0 THEN n ELSE 0
Collateral(n, p) == n * p
\* notional / leverage, and the buffer.
Frozen(n, p) == 2 * Collateral(n, p)
\* UPDATE balances SET frozen = GREATEST(frozen - x, 0), available = available + y.
MoveMargin(x, y) == wallet' = [free |-> wallet.free + y, frozen |-> NotNegative(wallet.frozen - x)]

LiveStatuses == {"pending", "open", "partially_filled"}

----------------------------------------------------------------------------
(* The engine and the persistence pipeline *)

\* k of n lots trade at once, the rest of a limit order is left in the book; a
\* closing order brings no collateral of its own.
Match(o, kind, effect, n, k, p) ==
    /\ inBook' = [inBook EXCEPT ![o] = IF kind = "market" THEN @ ELSE @ + (n - k)]
    /\ exchanged' = [exchanged EXCEPT ![o] = @ + k]
    /\ taken' = IF effect = "close" THEN taken ELSE taken + Collateral(k, p)
    /\ UNCHANGED unsaved

\* Another user's order takes one resting lot.
Hit(o) ==
    LET row == orders[o] IN
    /\ inBook[o] > 0
    /\ inBook' = [inBook EXCEPT ![o] = @ - 1]
    /\ exchanged' = [exchanged EXCEPT ![o] = @ + 1]
    /\ unsaved' = [unsaved EXCEPT ![o][row.price] = @ + 1]
    /\ taken' = IF row.effect = "close" THEN taken ELSE taken + Collateral(1, row.price)
    /\ UNCHANGED <<orders, wallet, triggers, handler, limits, apiHistory>>

\* The maker's statements of persist_trade_with_tx; a closing order froze nothing
\* of what they release.
SaveFill(o, p) ==
    LET row == orders[o] IN
    /\ unsaved[o][p] > 0
    /\ unsaved' = [unsaved EXCEPT ![o][p] = @ - 1]
    /\ orders' = [orders EXCEPT ![o].filled = Min({@ + 1, row.amount}),
                                ![o].margin = NotNegative(@ - Frozen(1, p)),
                                ![o].status = IF row.filled + 1 >= row.amount THEN "filled"
                                              ELSE "partially_filled"]
    /\ MoveMargin(Frozen(1, p), Frozen(1, p) - Collateral(1, p))
    /\ Note("unfrozen", row.effect = "close")
    /\ UNCHANGED <<inBook, triggers, handler, limits, exchanged, taken, gone, revived>>

\* The keeper sends an order of its own; the parent row keeps what it froze.
Fire(o) ==
    /\ triggers[o] = "active"
    /\ triggers' = [triggers EXCEPT ![o] = "fired"]
    /\ Note("fired", orders[o].effect = "open")
    /\ UNCHANGED <<orders, wallet, engine, handler, limits, gone, revived>>

----------------------------------------------------------------------------
(* new_order *)

\* The balance is read here and frozen later; an order that the opposite position
\* covers freezes nothing, a limit, a market or a trigger order alike.  Without a
\* price of its own, the order is measured by the mark price p.
PlaceOrder(c, o, kind, effect, n, p) ==
    /\ orders[o].status = "none" /\ ~AtWork(o)
    /\ IF effect = "close" THEN n <= Opposite ELSE wallet.free >= Frozen(n, p)
    /\ Step(c, [pc |-> IF effect = "close" THEN "insert" ELSE "freeze", order |-> o, kind |-> kind,
                effect |-> effect, n |-> n, p |-> p, read |-> 0, k |-> 0, frozen |-> Frozen(n, p)])
    /\ UNCHANGED <<orders, wallet, engine, triggers, limits, apiHistory>>

FreezeMargin(c) ==
    /\ handler[c].pc = "freeze"
    /\ wallet' = [free |-> wallet.free - handler[c].frozen, frozen |-> wallet.frozen + handler[c].frozen]
    /\ GoOn(c, "insert")
    /\ UNCHANGED <<orders, engine, triggers, limits, apiHistory>>

\* A row without a price of its own keeps the mark price as it is read by now.
RowPrices(q) == IF q.kind = "limit" THEN {q.p} ELSE ApiPrices
NewRow(q, p) ==
    [status |-> "pending", kind |-> q.kind, effect |-> q.effect, price |-> p, amount |-> q.n,
     filled |-> 0, margin |-> IF q.effect = "close" THEN 0 ELSE q.frozen, linked |-> FALSE]
InsertRow(c) ==
    LET q == handler[c] IN
    /\ q.pc = "insert"
    /\ \E p \in RowPrices(q) :
          /\ orders' = [orders EXCEPT ![q.order] = NewRow(q, p)]
          /\ Note("repriced", q.kind = "trigger" /\ q.effect = "open" /\ p # q.p)
    /\ GoOn(c, IF q.kind = "trigger" THEN "trigger" ELSE "submit")
    /\ UNCHANGED <<wallet, engine, triggers, limits, gone, revived>>

\* A client order id that is malformed or taken, a trigger that is refused, an
\* error of the engine: the handler returns, the margin stays frozen.
Abandon(c) ==
    /\ handler[c].pc \in {"insert", "trigger", "submit"}
    /\ End(c)
    /\ Note("kept", handler[c].effect = "open" \/ handler[c].pc # "insert")
    /\ UNCHANGED <<orders, wallet, engine, triggers, limits, gone, revived>>

CreateTrigger(c) ==
    /\ handler[c].pc = "trigger"
    /\ triggers' = [triggers EXCEPT ![handler[c].order] = "active"]
    /\ GoOn(c, "link")
    /\ UNCHANGED <<orders, wallet, engine, limits, apiHistory>>

LinkTrigger(c) ==
    /\ handler[c].pc = "link"
    /\ orders' = [orders EXCEPT ![handler[c].order].linked = TRUE]
    /\ End(c)
    /\ UNCHANGED <<wallet, engine, triggers, limits, apiHistory>>

SubmitOrder(c) ==
    LET q == handler[c] IN
    /\ q.pc = "submit"
    /\ \E k \in 0 .. q.n :
          /\ Match(q.order, q.kind, q.effect, q.n, k, q.p)
          /\ Step(c, [q EXCEPT !.pc = "record", !.k = k])
    /\ UNCHANGED <<orders, wallet, triggers, limits, apiHistory>>

\* The status the engine answers.
Status(kind, n, k) ==
    CASE k = n -> "filled"
      [] k \in 1 .. (n - 1) -> "partially_filled"
      [] OTHER -> IF kind = "market" THEN "cancelled" ELSE "open"

\* Status and filled amount as the engine answered them, over what a cancel may
\* have written meanwhile.  A market order that was filled in part stays
\* 'partially_filled', and keeps the margin of lots that are not in the book.
RecordAnswer(c) ==
    LET q == handler[c]  status == Status(q.kind, q.n, q.k) IN
    /\ q.pc = "record"
    /\ orders' = [orders EXCEPT ![q.order].status = status, ![q.order].filled = q.read + q.k]
    /\ revived' = IF gone[q.order] >= 0 THEN revived \cup {q.order} ELSE revived
    /\ IF q.effect = "open" /\ status # "open" THEN GoOn(c, "release") ELSE End(c)
    /\ Note("stranded", q.kind = "market" /\ q.effect = "open" /\ status = "partially_filled")
    /\ UNCHANGED <<wallet, engine, triggers, limits, gone>>

\* Mutated: the resting part is released as well.
ReleaseAllOf(q, frozen) == frozen
\* Of what was frozen, all if nothing rests, else the share of what was taken.
ReleasedBy(q, frozen) ==
    IF Status(q.kind, q.n, q.k) = "partially_filled" THEN (q.k * frozen) \div q.n ELSE frozen

\* A market order's freeze is computed again, at the mark price of now.
ReleaseUnused(c) ==
    LET q == handler[c] IN
    /\ q.pc = "release"
    /\ \E p \in (IF q.kind = "market" THEN ApiPrices ELSE {q.p}) :
          LET x == ReleasedBy(q, IF q.kind = "market" THEN Frozen(q.n, p) ELSE q.frozen) IN
          /\ MoveMargin(x, NotNegative(x - Collateral(q.k, q.p)))
          /\ Step(c, [q EXCEPT !.pc = "shrink", !.frozen = x])
          /\ Note("moved", p # q.p)
    /\ UNCHANGED <<orders, engine, triggers, limits, gone, revived>>

ShrinkMargin(c) ==
    LET q == handler[c] IN
    /\ q.pc = "shrink"
    /\ orders' = [orders EXCEPT ![q.order].margin = NotNegative(@ - q.frozen)]
    /\ End(c)
    /\ UNCHANGED <<wallet, engine, triggers, limits, apiHistory>>

----------------------------------------------------------------------------
(* cancel_order and batch_cancel_orders; a batch is lenient: it goes on, one order *)
(* after the other, whatever the engine answers *)

\* Mutated: what was filled is refunded, too.
WholeRefund(row) == Frozen(row.amount, row.price)
\* remaining * price / leverage * 1.005, whatever the row says is frozen.
RefundFor(row) == Frozen(NotNegative(row.amount - row.filled), row.price)

CancelOne(c, o, strict) ==
    /\ calls < MaxCalls /\ calls' = calls + 1
    /\ orders[o].status \in LiveStatuses
    /\ Step(c, [pc |-> "pull", order |-> o, row |-> orders[o], strict |-> strict])
    /\ UNCHANGED <<orders, wallet, engine, triggers, apiFaults, apiHistory>>

\* Mutated: the engine's answer is ignored by the single cancel, too.
AlwaysFound(o, linked) == TRUE
\* The engine held the order, or the trigger was still active.
WasFound(o, linked) == IF linked THEN triggers[o] = "active" ELSE inBook[o] > 0

\* What was read of the row is not what the engine had.
Outdated(o, row) ==
    \/ row.filled # exchanged[o] \/ row.amount # orders[o].amount \/ row.price # orders[o].price
    \/ row.effect = "close"

TakeOut(o, linked) ==
    /\ inBook' = IF linked THEN inBook ELSE [inBook EXCEPT ![o] = 0]
    /\ triggers' = IF linked /\ triggers[o] = "active" THEN [triggers EXCEPT ![o] = "cancelled"]
                   ELSE triggers
    /\ UNCHANGED <<unsaved, exchanged, taken>>

\* Only what the engine really held counts as gone: a lenient cancel reports and
\* refunds an order another request is about to submit.
PullOne(c) ==
    LET q == handler[c]  found == WasFound(q.order, q.row.linked) IN
    /\ q.pc = "pull"
    /\ TakeOut(q.order, q.row.linked)
    /\ gone' = IF found THEN [gone EXCEPT ![q.order] = exchanged[q.order]] ELSE gone
    /\ IF found \/ ~q.strict THEN GoOn(c, "mark") ELSE End(c)
    /\ Note("refunded", (found \/ ~q.strict) /\ (~found \/ Outdated(q.order, q.row)))
    /\ UNCHANGED <<orders, wallet, limits, revived>>

MarkCancelled(c) ==
    /\ handler[c].pc = "mark"
    /\ orders' = [orders EXCEPT ![handler[c].order].status = "cancelled"]
    /\ GoOn(c, "refund")
    /\ UNCHANGED <<wallet, engine, triggers, limits, apiHistory>>

RefundOne(c) ==
    LET x == RefundFor(handler[c].row) IN
    /\ handler[c].pc = "refund"
    /\ MoveMargin(x, x)
    /\ End(c)
    /\ UNCHANGED <<orders, engine, triggers, limits, apiHistory>>

----------------------------------------------------------------------------
(* cancel_all_open_orders: the rows read once, the engine asked for each, one *)
(* UPDATE of whatever rows are live by then, one refund *)

CancelAllOrders(c) ==
    LET S == {o \in ApiOrders : orders[o].status \in LiveStatuses} IN
    /\ calls < MaxCalls /\ calls' = calls + 1
    /\ S # {}
    /\ Step(c, [pc |-> "pullall", rows |-> [o \in S |-> orders[o]], todo |-> S])
    /\ UNCHANGED <<orders, wallet, engine, triggers, apiFaults, apiHistory>>

PullNext(c) ==
    LET q == handler[c] IN
    /\ q.pc = "pullall" /\ q.todo # {}
    /\ LET o == CHOOSE x \in q.todo : TRUE
           found == WasFound(o, q.rows[o].linked) IN
       /\ TakeOut(o, q.rows[o].linked)
       /\ gone' = IF found THEN [gone EXCEPT ![o] = exchanged[o]] ELSE gone
       /\ Note("refunded", ~found \/ Outdated(o, q.rows[o]))
       /\ Step(c, [q EXCEPT !.todo = @ \ {o}])
    /\ UNCHANGED <<orders, wallet, limits, revived>>

\* Orders placed since the list are marked as well and stay in the book.
MarkAll(c) ==
    LET q == handler[c]  live == {o \in ApiOrders : orders[o].status \in LiveStatuses} IN
    /\ q.pc = "pullall" /\ q.todo = {}
    /\ orders' = [o \in ApiOrders |-> IF o \in live THEN [orders[o] EXCEPT !.status = "cancelled"]
                                      ELSE orders[o]]
    /\ Note("marked", live \ DOMAIN q.rows # {})
    /\ GoOn(c, "refundall")
    /\ UNCHANGED <<wallet, engine, triggers, limits, gone, revived>>

RefundOfAll(rows, S) == SumFunctionOnSet([o \in S |-> RefundFor(rows[o])], S)
RefundAllOrders(c) ==
    LET q == handler[c]  x == RefundOfAll(q.rows, DOMAIN q.rows) IN
    /\ q.pc = "refundall"
    /\ MoveMargin(x, x)
    /\ End(c)
    /\ UNCHANGED <<orders, engine, triggers, limits, apiHistory>>

----------------------------------------------------------------------------
(* modify_order *)

\* What the resting order holds: the row's margin by share, or, if there is none,
\* computed from the price.
OldFreeze(row) ==
    LET left == NotNegative(row.amount - row.filled) IN
    IF row.margin > 0 THEN (row.margin * left) \div row.amount ELSE Frozen(left, row.price)

ModifyOrder(c, o, n, p) ==
    LET row == orders[o]  left == n - row.filled  delta == Frozen(left, p) - OldFreeze(row) IN
    /\ calls < MaxCalls /\ calls' = calls + 1
    /\ row.status \in {"open", "partially_filled"} /\ row.kind = "limit"
    /\ left >= 0 /\ (delta > 0 => wallet.free >= delta)
    /\ Step(c, [pc |-> "repull", order |-> o, kind |-> "limit", effect |-> "open", n |-> left,
                p |-> p, k |-> 0, read |-> row.filled, frozen |-> Frozen(left, p), delta |-> delta, row |-> row])
    /\ UNCHANGED <<orders, wallet, engine, triggers, apiFaults, apiHistory>>

\* The modify goes on only with an order that the engine gave up to it.  A part
\* filled before has left the row's margin already, and is deducted again.
Repull(c) ==
    LET q == handler[c] IN
    /\ q.pc = "repull"
    /\ TakeOut(q.order, FALSE)
    /\ IF WasFound(q.order, FALSE) THEN GoOn(c, "reshape") ELSE End(c)
    /\ Note("modified", WasFound(q.order, FALSE) /\ (Outdated(q.order, q.row) \/ q.read > 0))
    /\ UNCHANGED <<orders, wallet, limits, gone, revived>>

\* One transaction for balance and row.
Reshape(c) ==
    LET q == handler[c] IN
    /\ q.pc = "reshape"
    /\ wallet' = [free |-> wallet.free - q.delta, frozen |-> NotNegative(wallet.frozen + q.delta)]
    /\ orders' = [orders EXCEPT ![q.order].amount = q.read + q.n, ![q.order].price = q.p,
                                ![q.order].margin = q.frozen]
    /\ GoOn(c, "resubmit")
    /\ UNCHANGED <<engine, triggers, limits, apiHistory>>

\* The engine refuses an empty order: the row stays live with nothing behind it.
ResubmitOrder(c) ==
    LET q == handler[c] IN
    /\ q.pc = "resubmit"
    /\ IF q.n = 0
       THEN End(c) /\ UNCHANGED engine
       ELSE \E k \in 0 .. q.n :
              Match(q.order, "limit", "open", q.n, k, q.p) /\ Step(c, [q EXCEPT !.pc = "record", !.k = k])
    /\ UNCHANGED <<orders, wallet, triggers, limits, apiHistory>>

----------------------------------------------------------------------------
(* Failures *)

\* The handler is dropped, or a statement whose error it returns fails.
CutCall(c) ==
    /\ handler[c].pc # "idle" /\ Fault
    /\ End(c)
    /\ Note("cut", TRUE)
    /\ revived' = IF handler[c].pc = "mark" THEN revived \cup {handler[c].order}
                  ELSE IF handler[c].pc = "pullall" THEN revived \cup DOMAIN handler[c].rows
                  ELSE revived
    /\ UNCHANGED <<orders, wallet, engine, triggers, calls, gone>>

\* A statement fails whose error the handler drops.
SkipStatement(c) ==
    LET q == handler[c] IN
    /\ q.pc \in {"mark", "record", "link"} /\ Fault
    /\ CASE q.pc = "mark" -> GoOn(c, "refund")
         [] q.pc = "record" /\ q.effect = "open" /\ Status(q.kind, q.n, q.k) # "open" -> GoOn(c, "release")
         [] OTHER -> End(c)
    /\ Note("cut", TRUE)
    /\ revived' = IF q.pc = "mark" THEN revived \cup {q.order} ELSE revived
    /\ UNCHANGED <<orders, wallet, engine, triggers, calls, gone>>

\* A restart: requests, book and unpersisted trades are gone; rows that are open
\* limit orders enter the book again.
Restarted(o) == orders[o].status = "open" /\ orders[o].kind = "limit"
ApiRestart ==
    /\ Fault
    /\ inBook' = [o \in ApiOrders |->
          IF Restarted(o) THEN NotNegative(orders[o].amount - orders[o].filled) ELSE 0]
    /\ unsaved' = [o \in ApiOrders |-> [p \in ApiPrices |-> 0]]
    /\ handler' = [c \in Calls |-> Done]
    /\ revived' = revived \cup {o \in ApiOrders : gone[o] >= 0 /\ orders[o].status \in LiveStatuses}
    /\ Note("cut", TRUE)
    /\ UNCHANGED <<orders, wallet, triggers, calls, exchanged, taken, gone>>

----------------------------------------------------------------------------
ApiCallStep(c) ==
    \/ /\ handler[c].pc = "idle"
       /\ \/ \E o \in ApiOrders, n \in Lots, p \in ApiPrices :
                ModifyOrder(c, o, n, p)
                \/ \E kind \in ApiKinds, effect \in Effects : PlaceOrder(c, o, kind, effect, n, p)
          \/ \E o \in ApiOrders, strict \in BOOLEAN : CancelOne(c, o, strict)
          \/ CancelAllOrders(c)
    \/ FreezeMargin(c) \/ InsertRow(c) \/ Abandon(c) \/ CreateTrigger(c) \/ LinkTrigger(c)
    \/ SubmitOrder(c) \/ RecordAnswer(c) \/ ReleaseUnused(c) \/ ShrinkMargin(c)
    \/ PullOne(c) \/ MarkCancelled(c) \/ RefundOne(c)
    \/ PullNext(c) \/ MarkAll(c) \/ RefundAllOrders(c)
    \/ Repull(c) \/ Reshape(c) \/ ResubmitOrder(c)
    \/ CutCall(c) \/ SkipStatement(c)

ApiNext ==
    \/ \E c \in Calls : ApiCallStep(c)
    \/ \E o \in ApiOrders : Hit(o) \/ Fire(o) \/ \E p \in ApiPrices : SaveFill(o, p)
    \/ ApiRestart

ApiSpec == ApiInit /\ [][ApiNext]_apiVars

----------------------------------------------------------------------------
(* Properties *)

\* "refusing to fake CANCELED": an order that a cancel found in the engine never
\* rests or trades again, with any other cancel, a modify between its engine calls,
\* a create that has still to write its row, and a restart: the engine's answer is
\* the only thing the requests have to keep out of each other's way.
GoneIsGone ==
    \A o \in ApiOrders \ revived : gone[o] >= 0 => inBook[o] = 0 /\ exchanged[o] = gone[o]

Needed(o) == IF orders[o].effect = "close" THEN 0 ELSE Frozen(inBook[o], orders[o].price)
NeededByAll == SumFunctionOnSet([o \in ApiOrders |-> Needed(o)], ApiOrders)
\* What a trigger order froze stays frozen until it fires.
Unfired(o) == IF triggers[o] = "active" /\ orders[o].effect = "open" THEN Frozen(orders[o].amount, orders[o].price) ELSE 0
UnfiredOfAll == SumFunctionOnSet([o \in ApiOrders |-> Unfired(o)], ApiOrders)

\* The deposit covers what may be spent, what went into positions and what resting
\* orders will need, at every step, until a refund does not fit what was frozen.
ApiCovered == odd = {} => wallet.free + taken + NeededByAll <= ApiDeposit

\* ... and between requests nothing is frozen but for orders that are alive, and
\* nothing is missing.
ApiBalanced ==
    (/\ odd = {}
     /\ \A c \in Calls : handler[c].pc = "idle"
     /\ \A o \in ApiOrders, p \in ApiPrices : unsaved[o][p] = 0) =>
        /\ wallet.free + wallet.frozen + taken = ApiDeposit
        /\ wallet.frozen = NeededByAll + UnfiredOfAll

\* The API's orders keep their word and their margin.
ApiKeepsBooks == GoneIsGone /\ ApiCovered /\ ApiBalanced

\* Not so: "cancel paths can refund the exact amount we froze".  They refund what the
\* row's price and remaining amount come to, also for a closing order, which froze
\* nothing.
RefundsAreFrozen == wallet.free + wallet.frozen + taken <= ApiDeposit
=============================================================================
