----------------------------- MODULE OrderFlow -----------------------------
(***************************************************************************)
(* The orders of one user between the API, the matching engine and the     *)
(* database (api/handlers/order.rs): create, update, cancel and batch      *)
(* cancel requests run side by side, each a sequence of database           *)
(* statements and engine calls with nothing held in between; trades of     *)
(* resting orders reach the order rows and the balance later, through the  *)
(* persistence pipeline; the engine forgets everything in a restart.  The  *)
(* user only opens: no order nets against a position, every order has the  *)
(* same price and leverage.                                                *)
(***************************************************************************)
EXTENDS Integers, FiniteSets, Functions

CONSTANTS
    Requests,    \* handler invocations that may run at the same time
    Orders,      \* order ids
    Quantities,  \* order amounts, in lots
    Kinds,       \* subset of {"limit", "market"}
    Amendable,   \* orders update_order may be called for
    Collateral,  \* what one lot takes into its position
    Buffer,      \* what is frozen on top of it per lot
    Deposit,     \* the user's balance at the start
    MaxCancels,  \* bound: cancel requests per order
    MaxAmends,   \* bound: update requests per order
    MaxFaults,   \* bound: cut requests and restarts of the process
    None         \* absence of a value

Margin == Collateral + Buffer

ASSUME AmountAssumption ==
    /\ Quantities \subseteq Nat \ {0} /\ Kinds \subseteq {"limit", "market"}
    /\ Collateral \in Nat /\ Buffer \in Nat /\ Deposit \in Nat
ASSUME BoundAssumption ==
    /\ Amendable \subseteq Orders /\ MaxCancels \in Nat /\ MaxAmends \in Nat
    /\ MaxFaults \in Nat
ASSUME NoneAssumption == None \notin Orders
ASSUME FiniteAssumption == IsFiniteSet(Orders) /\ IsFiniteSet(Requests)

VARIABLES
    rows,       \* orders: order -> its row
    available, frozen,  \* balances
    rest,       \* engine: order -> lots that rest in the book
    pending,    \* order -> lots traded as maker and not persisted yet
    pc,         \* request -> next statement
    req,        \* request -> its arguments and local variables
    cancels, amends, faults,
    traded,     \* history: order -> lots traded
    answered,   \* history: orders a cancel request begun with no other request
                \* for the order under way, none of its statements failing, was
                \* answered for
    disturbed   \* history: orders whose requests met another request or an
                \* unpersisted trade, were cut, or raised the amount

account == <<available, frozen>>
bounds  == <<cancels, amends, faults>>
vars    == <<rows, account, rest, pending, pc, req, bounds, traded, answered, disturbed>>

NoRow == [status |-> "none", kind |-> "limit", amount |-> 0, filled |-> 0, margin |-> 0]
NoReq == [order |-> None, kind |-> "limit", amount |-> 0, filled |-> 0, taken |-> 0,
          todo |-> {}, refund |-> 0, late |-> FALSE, done |-> {}]

Init ==
    /\ rows = [o \in Orders |-> NoRow]
    /\ available = Deposit /\ frozen = 0
    /\ rest = [o \in Orders |-> 0]
    /\ pending = [o \in Orders |-> 0]
    /\ pc = [r \in Requests |-> "idle"]
    /\ req = [r \in Requests |-> NoReq]
    /\ cancels = [o \in Orders |-> 0] /\ amends = [o \in Orders |-> 0]
    /\ faults = 0
    /\ traded = [o \in Orders |-> 0]
    /\ answered = {} /\ disturbed = {}

Goto(r, label) == pc' = [pc EXCEPT ![r] = label]
Finish(r) == Goto(r, "idle") /\ req' = [req EXCEPT ![r] = NoReq]

AtLeastZero(n) == IF n > 0 THEN n ELSE 0
Least(m, n) == IF m < n THEN m ELSE n

\* A request works on the order.
Active(o) == \E r \in Requests : pc[r] # "idle" /\ req[r].order = o

\* A request turns to the order: does it meet another one, or a trade?
Meets(o) == Active(o) \/ pending[o] > 0

\* UPDATE balances: the frozen margin is clamped at zero.
Move(fromFrozen, toAvailable) ==
    /\ frozen' = AtLeastZero(frozen - fromFrozen)
    /\ available' = available + toAvailable

-----------------------------------------------------------------------------
(* create_order *)

\* The handler reads the balance and answers INSUFFICIENT_BALANCE or goes on.
Create(r, o, kind, n) ==
    /\ pc[r] = "idle" /\ rows[o].status = "none" /\ ~Active(o)
    /\ available >= n * Margin
    /\ req' = [req EXCEPT ![r] =
                 [NoReq EXCEPT !.order = o, !.amount = n, !.kind = kind]]
    /\ Goto(r, "freeze")
    /\ UNCHANGED <<rows, account, rest, pending, bounds, traded, answered, disturbed>>

\* The transaction that freezes the margin, whatever the balance is by now,
\* and inserts the row.
Freeze(r) ==
    LET o == req[r].order
        m == req[r].amount * Margin
    IN
    /\ pc[r] = "freeze"
    /\ available' = available - m /\ frozen' = frozen + m
    /\ rows' = [rows EXCEPT ![o] =
                  [status |-> "pending", kind |-> req[r].kind,
                   amount |-> req[r].amount, filled |-> 0, margin |-> m]]
    /\ Goto(r, IF req[r].kind = "market" THEN "slippage" ELSE "submit")
    /\ UNCHANGED <<rest, pending, req, bounds, traded, answered, disturbed>>

\* The simulated fill of a market order: within the slippage limit or not.
Slippage(r) ==
    /\ pc[r] = "slippage"
    /\ Goto(r, "submit") \/ Goto(r, "reject")
    /\ UNCHANGED <<rows, account, rest, pending, req, bounds, traded, answered, disturbed>>

Reject(r) ==
    /\ pc[r] = "reject"
    /\ rows' = [rows EXCEPT ![req[r].order].status = "rejected"]
    /\ Goto(r, "rejectrefund")
    /\ UNCHANGED <<account, rest, pending, req, bounds, traded, answered, disturbed>>

\* This refund alone is not clamped.
RejectRefund(r) ==
    LET m == req[r].amount * Margin IN
    /\ pc[r] = "rejectrefund"
    /\ available' = available + m /\ frozen' = frozen - m
    /\ Finish(r)
    /\ UNCHANGED <<rows, rest, pending, bounds, traded, answered, disturbed>>

\* Mutated: the lots an order takes are persisted as if it were the maker, too.
EnterCountedTwice(o, kind, n, k) ==
    /\ rest' = [rest EXCEPT ![o] = IF kind = "limit" THEN @ + (n - k) ELSE @]
    /\ traded' = [traded EXCEPT ![o] = @ + k]
    /\ pending' = [pending EXCEPT ![o] = @ + k]

\* The engine: k of n lots trade at once against resting orders of others; what
\* is left of a limit order rests.
Enter(o, kind, n, k) ==
    /\ rest' = [rest EXCEPT ![o] = IF kind = "limit" THEN @ + (n - k) ELSE @]
    /\ traded' = [traded EXCEPT ![o] = @ + k]
    /\ UNCHANGED pending

Submit(r) ==
    LET o == req[r].order IN
    /\ pc[r] = "submit"
    /\ \E k \in 0..req[r].amount :
          /\ Enter(o, req[r].kind, req[r].amount, k)
          /\ req' = [req EXCEPT ![r].taken = k]
    /\ Goto(r, "record")
    /\ UNCHANGED <<rows, account, bounds, answered, disturbed>>

\* The status the engine answers for a good-till-cancelled submit.
Answer(kind, n, k) ==
    CASE k = n -> "filled"
      [] k > 0 /\ k < n -> "partially_filled"
      [] k = 0 /\ k < n /\ kind = "limit" -> "open"
      [] OTHER -> "cancelled"

\* Status and filled amount are written as the engine answered them.
Record(r) ==
    LET q == req[r]
        status == Answer(q.kind, q.amount, q.taken)
    IN
    /\ pc[r] = "record"
    /\ rows' = [rows EXCEPT ![q.order].status = status, ![q.order].filled = q.taken]
    /\ IF q.taken > 0 \/ status = "cancelled"
       THEN Goto(r, "release") /\ UNCHANGED req
       ELSE Finish(r)
    /\ UNCHANGED <<account, rest, pending, bounds, traded, answered, disturbed>>

\* What leaves the frozen margin once k of n lots were taken: all of it if
\* nothing rests, else the share of what was taken.
Released(kind, n, k) ==
    IF Answer(kind, n, k) = "partially_filled" THEN k * Margin ELSE n * Margin

\* Mutated: the unused part is forgotten.
NothingUnused(released, k) == 0
\* The part of it that no position takes goes back to the user.
Unused(released, k) == AtLeastZero(released - k * Collateral)

Release(r) ==
    LET q == req[r]
        released == Released(q.kind, q.amount, q.taken)
    IN
    /\ pc[r] = "release"
    /\ Move(released, Unused(released, q.taken))
    /\ Goto(r, "unfreeze")
    /\ UNCHANGED <<rows, rest, pending, req, bounds, traded, answered, disturbed>>

Unfreeze(r) ==
    LET q == req[r] IN
    /\ pc[r] = "unfreeze"
    /\ rows' = [rows EXCEPT ![q.order].margin =
                  AtLeastZero(@ - Released(q.kind, q.amount, q.taken))]
    /\ Finish(r)
    /\ UNCHANGED <<account, rest, pending, bounds, traded, answered, disturbed>>

-----------------------------------------------------------------------------
(* update_order *)

\* The handler reads the row; only open and partially filled orders may be
\* changed, and not to less than the row says is filled.
Update(r, o, n) ==
    /\ pc[r] = "idle" /\ o \in Amendable /\ amends[o] < MaxAmends
    /\ rows[o].status \in {"open", "partially_filled"} /\ n >= rows[o].filled
    /\ req' = [req EXCEPT ![r] =
                 [NoReq EXCEPT !.order = o, !.amount = n, !.kind = rows[o].kind,
                               !.filled = rows[o].filled]]
    /\ amends' = [amends EXCEPT ![o] = @ + 1]
    /\ disturbed' = IF Meets(o) \/ n > rows[o].amount THEN disturbed \cup {o} ELSE disturbed
    /\ Goto(r, "pull")
    /\ UNCHANGED <<rows, account, rest, pending, cancels, faults, traded, answered>>

\* The engine cancel; its result is ignored.
Pull(r) ==
    /\ pc[r] = "pull"
    /\ rest' = [rest EXCEPT ![req[r].order] = 0]
    /\ Goto(r, "amend")
    /\ UNCHANGED <<rows, account, pending, req, bounds, traded, answered, disturbed>>

\* The lots to submit again, from the row as it was read.
Unfilled(q) == AtLeastZero(q.amount - q.filled)

\* The new amount is written; neither margin nor balance follows.
Amend(r) ==
    /\ pc[r] = "amend"
    /\ rows' = [rows EXCEPT ![req[r].order].amount = req[r].amount]
    /\ IF Unfilled(req[r]) > 0
       THEN Goto(r, "resubmit") /\ UNCHANGED req
       ELSE Finish(r)
    /\ UNCHANGED <<account, rest, pending, bounds, traded, answered, disturbed>>

\* An id that the book holds already is not queued again: the lots that would
\* rest are dropped, the lots that trade are not.
Resubmit(r) ==
    LET q == req[r] IN
    /\ pc[r] = "resubmit"
    /\ \E k \in 0..Unfilled(q) :
          /\ IF rest[q.order] = 0
             THEN Enter(q.order, q.kind, Unfilled(q), k)
             ELSE Enter(q.order, "market", Unfilled(q), k)
          /\ req' = [req EXCEPT ![r].taken = k]
    /\ Goto(r, "rerecord")
    /\ UNCHANGED <<rows, account, bounds, answered, disturbed>>

\* Filled is the amount read at the start plus what the resubmit took.
Rerecord(r) ==
    LET q == req[r]
        filled == q.filled + q.taken
    IN
    /\ pc[r] = "rerecord"
    /\ rows' = [rows EXCEPT
                  ![q.order].filled = filled,
                  ![q.order].status = IF filled >= q.amount THEN "filled"
                                      ELSE IF filled > 0 THEN "partially_filled"
                                      ELSE "open"]
    /\ Finish(r)
    /\ UNCHANGED <<account, rest, pending, bounds, traded, answered, disturbed>>

-----------------------------------------------------------------------------
(* cancel_order and batch_cancel: a batch goes through its orders one by one
   and refunds once at the end; cancel_order is a batch of one. *)

Cancel(r, S) ==
    /\ pc[r] = "idle" /\ S # {}
    /\ \A o \in S : rows[o].status # "none" /\ cancels[o] < MaxCancels
    /\ req' = [req EXCEPT ![r] = [NoReq EXCEPT !.todo = S]]
    /\ cancels' = [o \in Orders |-> IF o \in S THEN cancels[o] + 1 ELSE cancels[o]]
    /\ Goto(r, "read")
    /\ UNCHANGED <<rows, account, rest, pending, amends, faults, traded,
                   answered, disturbed>>

\* The margin of the lots the row says are not filled, as a share of what the
\* row says is frozen (rounded down here).
Refund(row) ==
    IF row.amount = 0 THEN 0 ELSE (row.margin * (row.amount - row.filled)) \div row.amount

\* The row of the next order is read, and with it what there is to refund; an
\* order that is over is passed by.
Read(r) ==
    /\ pc[r] = "read"
    /\ \E o \in req[r].todo :
          IF rows[o].status \in {"open", "partially_filled", "pending"}
          THEN /\ req' = [req EXCEPT ![r].todo = @ \ {o}, ![r].order = o,
                                     ![r].refund = @ + Refund(rows[o]),
                                     ![r].late = ~Active(o)]
               /\ disturbed' = IF Meets(o) THEN disturbed \cup {o} ELSE disturbed
               /\ Goto(r, "cancel")
          ELSE /\ req' = [req EXCEPT ![r].todo = @ \ {o}]
               /\ UNCHANGED <<pc, disturbed>>
    /\ UNCHANGED <<rows, account, rest, pending, bounds, traded, answered>>

EngineCancel(r) ==
    /\ pc[r] = "cancel"
    /\ rest' = [rest EXCEPT ![req[r].order] = 0]
    /\ Goto(r, "mark")
    /\ UNCHANGED <<rows, account, pending, req, bounds, traded, answered, disturbed>>

\* The row is set to cancelled, whatever it has become since it was read.
Mark(r) ==
    LET q == req[r] IN
    /\ pc[r] = "mark"
    /\ rows' = [rows EXCEPT ![q.order].status = "cancelled"]
    /\ req' = [req EXCEPT ![r].order = None, ![r].late = FALSE,
                          ![r].done = IF q.late THEN @ \cup {q.order} ELSE @]
    /\ Goto(r, "read")
    /\ UNCHANGED <<account, rest, pending, bounds, traded, answered, disturbed>>

RefundAll(r) ==
    /\ pc[r] = "read" /\ req[r].todo = {}
    /\ IF req[r].refund > 0 THEN Move(req[r].refund, req[r].refund) ELSE UNCHANGED account
    /\ answered' = answered \cup req[r].done
    /\ Finish(r)
    /\ UNCHANGED <<rows, rest, pending, bounds, traded, disturbed>>

-----------------------------------------------------------------------------
(* The market, the persistence pipeline, and failures. *)

\* Another user's order takes one resting lot.
Take(o) ==
    /\ rest[o] > 0
    /\ rest' = [rest EXCEPT ![o] = @ - 1]
    /\ traded' = [traded EXCEPT ![o] = @ + 1]
    /\ pending' = [pending EXCEPT ![o] = @ + 1]
    /\ disturbed' = IF Active(o) THEN disturbed \cup {o} ELSE disturbed
    /\ UNCHANGED <<rows, account, pc, req, bounds, answered>>

\* Mutated: the collateral goes to the user, the buffer leaves the frozen part.
PersistSwapped(o) ==
    LET row == rows[o]
        filled == Least(row.filled + 1, row.amount)
    IN
    /\ pending[o] > 0
    /\ pending' = [pending EXCEPT ![o] = @ - 1]
    /\ rows' = [rows EXCEPT ![o] =
                  [row EXCEPT !.filled = filled, !.margin = AtLeastZero(@ - Margin),
                              !.status = IF row.filled + 1 >= row.amount THEN "filled"
                                         ELSE "partially_filled"]]
    /\ Move(Buffer, Margin)
    /\ UNCHANGED <<rest, pc, req, bounds, traded, answered, disturbed>>

\* Mutated: the row's margin is not clamped.
PersistUnclamped(o) ==
    LET row == rows[o] IN
    /\ pending[o] > 0
    /\ pending' = [pending EXCEPT ![o] = @ - 1]
    /\ rows' = [rows EXCEPT ![o] =
                  [row EXCEPT !.filled = Least(row.filled + 1, row.amount), !.margin = @ - Margin,
                              !.status = IF row.filled + 1 >= row.amount THEN "filled"
                                         ELSE "partially_filled"]]
    /\ Move(Margin, Buffer)
    /\ UNCHANGED <<rest, pc, req, bounds, traded, answered, disturbed>>

\* persist_trade_with_tx for a maker fill: the row's filled amount and status
\* follow, whatever the status was, and the margin of the lot is released.
Persist(o) ==
    LET row == rows[o]
        filled == Least(row.filled + 1, row.amount)
    IN
    /\ pending[o] > 0
    /\ pending' = [pending EXCEPT ![o] = @ - 1]
    /\ rows' = [rows EXCEPT ![o] =
                  [row EXCEPT !.filled = filled, !.margin = AtLeastZero(@ - Margin),
                              !.status = IF row.filled + 1 >= row.amount THEN "filled"
                                         ELSE "partially_filled"]]
    /\ Move(Margin, Buffer)
    /\ UNCHANGED <<rest, pc, req, bounds, traded, answered, disturbed>>

\* A request ends between two statements: a statement fails, the engine refuses
\* the order, or the client goes away and the handler is dropped.
Cut(r) ==
    /\ faults < MaxFaults /\ pc[r] # "idle"
    /\ faults' = faults + 1
    /\ disturbed' = disturbed \cup (IF req[r].order = None THEN {} ELSE {req[r].order})
    /\ Finish(r)
    /\ UNCHANGED <<rows, account, rest, pending, cancels, amends, traded, answered>>

\* A statement whose error the handler drops fails: the request goes on as if it
\* had worked (the rejection, the release of a taker's margin, a batch's marks).
Ignored(r) ==
    /\ faults < MaxFaults
    /\ faults' = faults + 1
    /\ disturbed' = disturbed \cup {req[r].order}
    /\ \/ pc[r] = "reject" /\ Goto(r, "rejectrefund") /\ UNCHANGED req
       \/ pc[r] = "release" /\ Goto(r, "unfreeze") /\ UNCHANGED req
       \/ /\ pc[r] = "mark" /\ Goto(r, "read")
          /\ req' = [req EXCEPT ![r].order = None, ![r].late = FALSE]
    /\ UNCHANGED <<rows, account, rest, pending, cancels, amends, traded, answered>>

\* Mutated: partially filled orders are restored as well.
RestoredPartly(o) == rows[o].status \in {"open", "partially_filled"} /\ rows[o].kind = "limit"
\* The orders recover_orders_from_db submits again.
Restored(o) == rows[o].status = "open" /\ rows[o].kind = "limit"

Recovered(o) == IF Restored(o) THEN AtLeastZero(rows[o].amount - rows[o].filled) ELSE 0

\* The process restarts: requests, book and unpersisted trades are gone, and the
\* open limit orders enter the book again, where they may trade at once; the
\* rows do not learn of these trades.
Crash ==
    /\ faults < MaxFaults
    /\ faults' = faults + 1
    /\ \E taken \in [Orders -> {0} \cup Quantities] :
          /\ \A o \in Orders : taken[o] <= Recovered(o)
          /\ rest' = [o \in Orders |-> Recovered(o) - taken[o]]
          /\ traded' = [o \in Orders |-> traded[o] + taken[o]]
          /\ disturbed' = disturbed \cup
               {o \in Orders : Active(o) \/ pending[o] > 0 \/ taken[o] > 0}
    /\ pending' = [o \in Orders |-> 0]
    /\ pc' = [r \in Requests |-> "idle"]
    /\ req' = [r \in Requests |-> NoReq]
    /\ UNCHANGED <<rows, account, cancels, amends, answered>>

Call(r) ==
    \/ \E o \in Orders, n \in Quantities :
          Update(r, o, n) \/ \E kind \in Kinds : Create(r, o, kind, n)
    \/ \E S \in SUBSET Orders : Cancel(r, S)
CreateStep(r) ==
    \/ Freeze(r) \/ Slippage(r) \/ Reject(r) \/ RejectRefund(r) \/ Submit(r)
    \/ Record(r) \/ Release(r) \/ Unfreeze(r)
UpdateStep(r) == Pull(r) \/ Amend(r) \/ Resubmit(r) \/ Rerecord(r)
CancelStep(r) == Read(r) \/ EngineCancel(r) \/ Mark(r) \/ RefundAll(r)

Next ==
    \/ \E r \in Requests :
          \/ Call(r) \/ CreateStep(r) \/ UpdateStep(r) \/ CancelStep(r)
          \/ Cut(r) \/ Ignored(r)
    \/ \E o \in Orders : Take(o) \/ Persist(o)
    \/ Crash

Spec == Init /\ [][Next]_vars

-----------------------------------------------------------------------------
(* Properties *)

Statuses == {"none", "pending", "open", "partially_filled", "filled", "cancelled", "rejected"}
Row == [status : Statuses, kind : {"limit", "market"}, amount : Nat, filled : Nat, margin : Nat]
CreateLabels == {"freeze", "slippage", "reject", "rejectrefund", "submit", "record",
                 "release", "unfreeze"}
UpdateLabels == {"pull", "amend", "resubmit", "rerecord"}
CancelLabels == {"read", "cancel", "mark"}
Labels == {"idle"} \cup CreateLabels \cup UpdateLabels \cup CancelLabels
Locals == [order : Orders \cup {None}, kind : {"limit", "market"}, amount : Nat,
           filled : Nat, taken : Nat, todo : SUBSET Orders, refund : Int,
           late : BOOLEAN, done : SUBSET Orders]

\* What the database, the engine and the histories hold.
StoreOK ==
    /\ rows \in [Orders -> Row]
    /\ available \in Int /\ frozen \in Int
    /\ rest \in [Orders -> Nat] /\ pending \in [Orders -> Nat] /\ traded \in [Orders -> Nat]
    /\ answered \subseteq Orders /\ disturbed \subseteq Orders

\* A request has a label and locals, and its order unless it is between two.
RequestsOK ==
    /\ pc \in [Requests -> Labels]
    /\ req \in [Requests -> Locals]
    /\ \A r \in Requests : pc[r] \notin {"idle", "read"} => req[r].order \in Orders

\* Every variable has its type; no row has a negative filled amount or margin.
TypeOK ==
    /\ StoreOK /\ RequestsOK
    /\ cancels \in [Orders -> Nat] /\ amends \in [Orders -> Nat] /\ faults \in Nat

\* A cancel answered to the user is final: unless it is amended, the order never
\* rests or trades again, whatever late trades and restarts do to its row.
CancelHolds == \A o \in answered \ Amendable : rest[o] = 0

\* A row never shows more lots filled than were traded, through overlapping
\* requests, lost updates, cuts and restarts.
FilledNeverOverstated == \A o \in Orders : rows[o].filled <= traded[o]

Total(lots) == SumFunctionOnSet(lots, Orders)

\* What the user may still spend, what the traded lots took into positions and
\* what the resting lots will need: the deposit covers it all.
Covered ==
    available + Collateral * Total(traded) + Margin * Total(rest) <= Deposit

\* ... as long as requests for one order come one at a time, uncut, after the
\* trades of the order were persisted, and never raise its amount.
CoveredUnlessDisturbed == disturbed = {} => Covered

\* No money vanishes under the same conditions: between requests, with every
\* trade persisted, what is available, frozen and in positions is no less than
\* the deposit.
NothingVanishes ==
    (disturbed = {} /\ \A r \in Requests : pc[r] = "idle" /\ \A o \in Orders : pending[o] = 0)
       => available + frozen + Collateral * Total(traded) >= Deposit

\* update_order submits only what is unfilled: an order never trades more than
\* its amount.
NoOverfill == \A o \in Orders : rows[o].status # "none" => traded[o] <= rows[o].amount
=============================================================================
