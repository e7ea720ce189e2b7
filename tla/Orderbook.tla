----------------------------- MODULE Orderbook -----------------------------
(***************************************************************************)
(* One market of the matching engine: the two side queues, the lock-free   *)
(* order index and the order counter of services/matching/orderbook.rs,    *)
(* driven by the submit, cancel and amend (cancel, then submit the same    *)
(* id) calls of services/matching/engine.rs.  Calls run on several threads *)
(* of the async runtime at once.  A step of a worker is one critical       *)
(* section or one atomic access of the code; adjacent accesses are joined  *)
(* only where no other thread can tell them apart.                         *)
(***************************************************************************)
EXTENDS Integers, FiniteSets, FiniteSetsExt

CONSTANTS
    Workers,      \* threads that run engine calls
    Orders,       \* order ids
    Prices,       \* limit prices, in units of the price's own last digit
    Quantities,   \* order quantities, in lots
    Tifs,         \* times in force offered: subset of {"GTC", "IOC", "FOK"}
    Kinds,        \* subset of {"limit", "market"}
    Scale,        \* price units per price level (1: every price is on a level)
    Fractional,   \* prices whose decimal carries fractional digits
    Amendable,    \* orders that may be amended under their own id
    MaxCancels,   \* bound: cancel or amend calls per order
    None          \* absence of a value

Sides == {"Buy", "Sell"}
Opposite(s) == IF s = "Buy" THEN "Sell" ELSE "Buy"

ASSUME WorkerAssumption == IsFiniteSet(Workers)
ASSUME PriceAssumption == Prices \subseteq Int /\ Scale \in Nat \ {0}
ASSUME QuantityAssumption == Quantities \subseteq Nat \ {0}
ASSUME TifAssumption == Tifs \subseteq {"GTC", "IOC", "FOK"}
ASSUME KindAssumption == Kinds \subseteq {"limit", "market"}
ASSUME AmendAssumption == Amendable \subseteq Orders /\ MaxCancels \in Nat
ASSUME NoneAssumption ==
    /\ None \notin Orders \cup Workers \cup Int \cup Sides
    /\ None \notin Sides \X Int
    /\ None \notin {"Open", "PartiallyFilled", "Filled", "Cancelled"}

VARIABLES
    book,      \* the queued entries of both sides
    index,     \* order_index: order -> <<side, level>> or None
    count,     \* order_count
    last,      \* last_trade_price, None when it reads as absent
    lock,      \* side -> worker that holds the side's write lock across steps
    pc,        \* worker -> next step of its call
    req,       \* worker -> the arguments of its call
    left,      \* worker -> quantity its taker has not traded yet
    slot,      \* worker -> <<side, level>> a cancel took from the index
    placed,    \* order -> the side it was placed on, None before that
    cancels,   \* order -> cancel and amend calls made so far
    result,    \* order -> status its latest submit returned (or is returning)
    traded,    \* history: order -> quantity traded, as maker or taker
    closed     \* history: orders a cancel call begun after the submit returned
               \* has finished for

queues == <<book, index, count, last, lock>>
calls  == <<pc, req, left, slot>>
aux    == <<placed, cancels, result, traded, closed>>
vars   == <<queues, calls, aux>>

-----------------------------------------------------------------------------
(* Price levels and queue order.  A level's queue is the set of its entries;
   an entry's turn is its place in the queue. *)

Level(p) == p \div Scale            \* PriceLevel::from_decimal truncates
LevelPrice(l) == l * Scale          \* PriceLevel::to_decimal
EntryLevel(e) == Level(e.price)

Entries(s) == {e \in book : e.side = s}
Queue(s, l) == {e \in Entries(s) : EntryLevel(e) = l}

\* The turn a push_back gives: behind everything queued at the level.
NextTurn(s, l) ==
    IF Queue(s, l) = {} THEN 1
    ELSE 1 + (CHOOSE t \in {e.turn : e \in Queue(s, l)} :
                 \A e \in Queue(s, l) : e.turn <= t)

\* A taker of side s reaches level l before level k.
LevelBefore(s, l, k) == IF s = "Buy" THEN l < k ELSE l > k

\* A taker of side s reaches maker e before maker f.
Before(s, e, f) ==
    \/ LevelBefore(s, EntryLevel(e), EntryLevel(f))
    \/ EntryLevel(e) = EntryLevel(f) /\ e.turn < f.turn

WithinLimit(s, limit, p) ==
    limit # None => IF s = "Buy" THEN p <= limit ELSE p >= limit

\* Mutated: a limit the price must beat.
ReachableStrict(s, limit) ==
    {e \in Entries(Opposite(s)) :
        limit # None => LevelBefore(s, LevelPrice(EntryLevel(e)), limit)}

\* The makers a taker may sweep: the limit is compared with the level's price.
Reachable(s, limit) ==
    {e \in Entries(Opposite(s)) : WithinLimit(s, limit, LevelPrice(EntryLevel(e)))}

IsFront(s, limit, e) ==
    e \in Reachable(s, limit)
    /\ \A f \in Reachable(s, limit) : f # e => Before(s, e, f)

\* Mutated: the whole side counts, as if there were no limit.
FillableNoLimit(s, limit) ==
    LET all == Entries(Opposite(s)) IN SumFunctionOnSet([e \in all |-> e.rem], all)
\* What the reachable makers hold together (the fill-or-kill pre-check).
Fillable(s, limit) ==
    LET makers == Reachable(s, limit) IN SumFunctionOnSet([e \in makers |-> e.rem], makers)

\* Mutated: the taker's quantity, whatever the maker has left.
TakerQuantity(taker, maker) == taker
TradeAmount(taker, maker) == IF taker < maker THEN taker ELSE maker

-----------------------------------------------------------------------------
NoReq == [order |-> None, side |-> "Buy", limit |-> None, qty |-> 0,
          tif |-> "GTC", kind |-> "limit", op |-> "none", late |-> FALSE]

Init ==
    /\ book = {}
    /\ index = [o \in Orders |-> None]
    /\ count = 0
    /\ last = None
    /\ lock = [s \in Sides |-> None]
    /\ pc = [w \in Workers |-> "idle"]
    /\ req = [w \in Workers |-> NoReq]
    /\ left = [w \in Workers |-> 0]
    /\ slot = [w \in Workers |-> None]
    /\ placed = [o \in Orders |-> None]
    /\ cancels = [o \in Orders |-> 0]
    /\ result = [o \in Orders |-> None]
    /\ traded = [o \in Orders |-> 0]
    /\ closed = {}

Goto(w, label) == pc' = [pc EXCEPT ![w] = label]

\* The call of w ends; its arguments are forgotten.
Finish(w) ==
    /\ Goto(w, "idle")
    /\ req' = [req EXCEPT ![w] = NoReq]

SubmitLabels == {"match", "sweep", "settle", "count", "check"}
CancelLabels == {"unindex", "unqueue", "scanbids", "scanasks", "dropindex", "uncount"}
Labels == {"idle"} \cup SubmitLabels \cup CancelLabels

\* A submit of o is under way (for an amend: its resubmission).
Submitting(o) == \E w \in Workers : pc[w] \in SubmitLabels /\ req[w].order = o

Terms == [side : Sides, limit : Prices \cup {None}, qty : Quantities,
          tif : Tifs, kind : Kinds]
ValidTerms(t) == t.kind = "limit" => t.limit # None

Request(o, t, op, late) ==
    [order |-> o, side |-> t.side, limit |-> t.limit, qty |-> t.qty,
     tif |-> t.tif, kind |-> t.kind, op |-> op, late |-> late]

-----------------------------------------------------------------------------
(* submit_order: match under the opposite side's lock, then rest the residual
   under the own side's lock, then count it. *)

\* A handler calls submit_order for a new order (create_order, new_order).
Submit(w, o, t) ==
    /\ pc[w] = "idle" /\ placed[o] = None /\ ValidTerms(t)
    /\ req' = [req EXCEPT ![w] = Request(o, t, "submit", FALSE)]
    /\ left' = [left EXCEPT ![w] = t.qty]
    /\ placed' = [placed EXCEPT ![o] = t.side]
    /\ Goto(w, "match")
    /\ UNCHANGED <<queues, slot, cancels, result, traded, closed>>

\* match_order takes the opposite side's lock; a fill-or-kill order that the
\* reachable makers cannot fill gives the lock back without trading.
BeginMatch(w) ==
    LET r == req[w] IN
    /\ pc[w] = "match" /\ lock[Opposite(r.side)] = None
    /\ \/ /\ r.tif = "FOK" /\ Fillable(r.side, r.limit) < r.qty
          /\ Goto(w, "settle")
          /\ UNCHANGED lock
       \/ /\ r.tif = "FOK" => Fillable(r.side, r.limit) >= r.qty
          /\ Goto(w, "sweep")
          /\ lock' = [lock EXCEPT ![Opposite(r.side)] = w]
    /\ UNCHANGED <<book, index, count, last, req, left, slot, aux>>

\* set_last_trade_price: the scaled price is printed and parsed as an i64; a
\* price with fractional digits prints with a point, the parse fails and the
\* stored 0 reads back as "no price".
LastAfter(p) == IF p \in Fractional THEN None ELSE p

\* Mutated: a maker left with nothing stays in its queue.
NeverConsumed(q, maker) == FALSE
Consumed(q, maker) == q = maker.rem

\* One turn of the sweep loop: trade with the front maker at its own price; a
\* maker left with nothing leaves the queue, the index and the count.
Trade(w, maker) ==
    LET r == req[w]
        q == TradeAmount(left[w], maker.rem)
        rest == book \ {maker}
    IN
    /\ pc[w] = "sweep" /\ left[w] > 0
    /\ IsFront(r.side, r.limit, maker)
    /\ left' = [left EXCEPT ![w] = @ - q]
    /\ traded' = [o \in Orders |->
                    traded[o] + IF o \in {maker.id, r.order} THEN q ELSE 0]
    /\ last' = LastAfter(maker.price)
    /\ IF Consumed(q, maker)
       THEN /\ book' = rest
            /\ index' = [index EXCEPT ![maker.id] = None]
            /\ count' = count - 1
       ELSE /\ book' = rest \cup {[maker EXCEPT !.rem = @ - q]}
            /\ UNCHANGED <<index, count>>
    /\ UNCHANGED <<lock, pc, req, slot, placed, cancels, result, closed>>

\* Mutated: the side stays locked.
EndMatchKeepsLock(w) ==
    /\ pc[w] = "sweep"
    /\ left[w] = 0 \/ Reachable(req[w].side, req[w].limit) = {}
    /\ Goto(w, "settle")
    /\ UNCHANGED <<queues, req, left, slot, aux>>

\* The sweep ends when the taker is filled or no reachable maker is left.
EndMatch(w) ==
    LET r == req[w] IN
    /\ pc[w] = "sweep"
    /\ left[w] = 0 \/ Reachable(r.side, r.limit) = {}
    /\ lock' = [lock EXCEPT ![Opposite(r.side)] = None]
    /\ Goto(w, "settle")
    /\ UNCHANGED <<book, index, count, last, req, left, slot, aux>>

\* The status submit_order returns, from what is left of the order.
StatusOf(r, n) ==
    CASE n = 0 -> "Filled"
      [] n > 0 /\ n < r.qty -> "PartiallyFilled"
      [] n = r.qty /\ r.kind = "limit" /\ r.tif = "GTC" -> "Open"
      [] OTHER -> "Cancelled"

Rests(r, n) == n > 0 /\ r.kind = "limit" /\ r.tif = "GTC"

Settle(w) ==
    LET r == req[w]
        status == StatusOf(r, left[w])
    IN
    /\ pc[w] = "settle" /\ ~Rests(r, left[w])
    /\ result' = [result EXCEPT ![r.order] = status]
    /\ left' = [left EXCEPT ![w] = 0]
    /\ IF status = "PartiallyFilled"
       THEN Goto(w, "check") /\ UNCHANGED req
       ELSE Finish(w)
    /\ UNCHANGED <<queues, slot, placed, cancels, traded, closed>>

\* add_order, under the own side's lock: an id the index knows is skipped,
\* otherwise the entry joins the back of its level and the index.
AddOrder(w) ==
    LET r == req[w]
        l == Level(r.limit)
        entry == [id |-> r.order, side |-> r.side, price |-> r.limit,
                  rem |-> left[w], turn |-> NextTurn(r.side, l)]
    IN
    /\ pc[w] = "settle" /\ Rests(r, left[w]) /\ lock[r.side] = None
    /\ result' = [result EXCEPT ![r.order] = StatusOf(r, left[w])]
    /\ left' = [left EXCEPT ![w] = 0]
    /\ IF index[r.order] # None
       THEN /\ Goto(w, "check")
            /\ UNCHANGED <<book, index>>
       ELSE /\ book' = book \cup {entry}
            /\ index' = [index EXCEPT ![r.order] = <<r.side, l>>]
            /\ Goto(w, "count")
    /\ UNCHANGED <<count, last, lock, req, slot, placed, cancels, traded, closed>>

\* order_count.fetch_add, after the side lock is released.
CountOrder(w) ==
    /\ pc[w] = "count"
    /\ count' = count + 1
    /\ Goto(w, "check")
    /\ UNCHANGED <<book, index, last, lock, req, left, slot, aux>>

\* The self-check reads the index, logs, and submit_order returns.
SelfCheck(w) ==
    /\ pc[w] = "check"
    /\ Finish(w)
    /\ UNCHANGED <<queues, left, slot, aux>>

-----------------------------------------------------------------------------
(* cancel_order: the index entry goes first, without a lock; then the queue. *)

\* A handler calls cancel_order.  The order may be unknown to the book, still
\* on its way in, resting, or gone.
Cancel(w, o) ==
    /\ pc[w] = "idle" /\ placed[o] # None /\ cancels[o] < MaxCancels
    /\ req' = [req EXCEPT ![w] =
                 [NoReq EXCEPT !.order = o, !.op = "cancel",
                               !.late = ~Submitting(o)]]
    /\ cancels' = [cancels EXCEPT ![o] = @ + 1]
    /\ Goto(w, "unindex")
    /\ UNCHANGED <<queues, left, slot, placed, result, traded, closed>>

\* update_order: cancel, then submit the same id with new terms, good till
\* cancelled.
Amend(w, o, t) ==
    /\ pc[w] = "idle" /\ o \in Amendable /\ placed[o] = t.side /\ cancels[o] < MaxCancels
    /\ result[o] \in {"Open", "PartiallyFilled"} /\ ~Submitting(o)
    /\ ValidTerms(t) /\ t.tif = "GTC" /\ t.kind = "limit"
    /\ req' = [req EXCEPT ![w] = Request(o, t, "amend", FALSE)]
    /\ cancels' = [cancels EXCEPT ![o] = @ + 1]
    /\ Goto(w, "unindex")
    /\ UNCHANGED <<queues, left, slot, placed, result, traded, closed>>

\* The call returns; an amend goes on to resubmit its order.
Return(w) ==
    /\ slot' = [slot EXCEPT ![w] = None]
    /\ IF req[w].op = "amend"
       THEN /\ left' = [left EXCEPT ![w] = req[w].qty]
            /\ Goto(w, "match")
            /\ UNCHANGED <<req, closed>>
       ELSE /\ closed' = IF req[w].late THEN closed \cup {req[w].order} ELSE closed
            /\ Finish(w)
            /\ UNCHANGED left

\* order_index.remove, before any lock is taken.
Unindex(w) ==
    LET o == req[w].order IN
    /\ pc[w] = "unindex"
    /\ index' = [index EXCEPT ![o] = None]
    /\ slot' = [slot EXCEPT ![w] = index[o]]
    /\ Goto(w, IF index[o] # None THEN "unqueue" ELSE "scanbids")
    /\ UNCHANGED <<book, count, last, lock, req, left, aux>>

\* The entry a scan of the given entries for o meets first: lowest level, then
\* front of the queue.
FirstOf(entries, o, e) ==
    /\ e \in entries /\ e.id = o
    /\ \A f \in entries : f.id = o /\ f # e =>
         \/ EntryLevel(e) < EntryLevel(f)
         \/ EntryLevel(e) = EntryLevel(f) /\ e.turn < f.turn

Holds(entries, o) == \E e \in entries : e.id = o

\* Mutated: the count is decremented although the queue did not hold the order.
UnqueueBlindly(w) ==
    LET o == req[w].order IN
    /\ pc[w] = "unqueue" /\ lock[slot[w][1]] = None
    /\ book' = {e \in book : e.id # o}
    /\ Goto(w, "uncount")
    /\ UNCHANGED <<index, count, last, lock, req, left, slot, aux>>

\* Index hit: remove_from_queue at the level the index gave.
Unqueue(w) ==
    LET o == req[w].order
        q == Queue(slot[w][1], slot[w][2])
    IN
    /\ pc[w] = "unqueue" /\ lock[slot[w][1]] = None
    /\ \/ \E e \in q : /\ FirstOf(q, o, e)
                       /\ book' = book \ {e}
                       /\ Goto(w, "uncount")
                       /\ UNCHANGED <<req, slot, left, closed>>
       \/ ~Holds(q, o) /\ Return(w) /\ UNCHANGED book
    /\ UNCHANGED <<index, count, last, lock, placed, cancels, result, traded>>

\* Mutated: no slow path, an index miss is "not found".
ScanSkipped(w) ==
    /\ pc[w] = "scanbids" /\ Return(w)
    /\ UNCHANGED <<queues, placed, cancels, result, traded>>

\* Index miss: scan_and_remove over the bids, then over the asks.
ScanBids(w) ==
    LET o == req[w].order IN
    /\ pc[w] = "scanbids" /\ lock["Buy"] = None
    /\ \/ \E e \in Entries("Buy") : /\ FirstOf(Entries("Buy"), o, e)
                                    /\ book' = book \ {e}
                                    /\ Goto(w, "dropindex")
       \/ ~Holds(Entries("Buy"), o) /\ Goto(w, "scanasks") /\ UNCHANGED book
    /\ UNCHANGED <<index, count, last, lock, req, left, slot, aux>>

ScanAsks(w) ==
    LET o == req[w].order IN
    /\ pc[w] = "scanasks" /\ lock["Sell"] = None
    /\ \/ \E e \in Entries("Sell") : /\ FirstOf(Entries("Sell"), o, e)
                                     /\ book' = book \ {e}
                                     /\ Goto(w, "dropindex")
                                     /\ UNCHANGED <<req, slot, left, closed>>
       \/ ~Holds(Entries("Sell"), o) /\ Return(w) /\ UNCHANGED book
    /\ UNCHANGED <<index, count, last, lock, placed, cancels, result, traded>>

\* Mutated: an index entry that reappeared during the scan is left behind.
DropIndexForgotten(w) ==
    /\ pc[w] = "dropindex" /\ Goto(w, "uncount")
    /\ UNCHANGED <<queues, req, left, slot, aux>>

\* After a scan found the order and released its lock: the id is dropped from
\* the index once more.
DropIndex(w) ==
    /\ pc[w] = "dropindex"
    /\ index' = [index EXCEPT ![req[w].order] = None]
    /\ Goto(w, "uncount")
    /\ UNCHANGED <<book, count, last, lock, req, left, slot, aux>>

\* order_count.fetch_sub, and the cancel reports success.
Uncount(w) ==
    /\ pc[w] = "uncount"
    /\ count' = count - 1
    /\ Return(w)
    /\ UNCHANGED <<book, index, last, lock, placed, cancels, result, traded>>

SubmitStep(w) ==
    \/ BeginMatch(w) \/ (\E e \in book : Trade(w, e)) \/ EndMatch(w)
    \/ Settle(w) \/ AddOrder(w) \/ CountOrder(w) \/ SelfCheck(w)
CancelStep(w) ==
    \/ Unindex(w) \/ Unqueue(w) \/ ScanBids(w) \/ ScanAsks(w)
    \/ DropIndex(w) \/ Uncount(w)
Call(w) ==
    \E o \in Orders :
        \/ \E t \in Terms : Submit(w, o, t) \/ Amend(w, o, t)
        \/ Cancel(w, o)

Next == \E w \in Workers : Call(w) \/ SubmitStep(w) \/ CancelStep(w)

Spec == Init /\ [][Next]_vars

-----------------------------------------------------------------------------
(* Properties *)

Entry == [id : Orders, side : Sides, price : Prices,
          rem : Nat \ {0}, turn : Nat \ {0}]
Slot == Sides \X Int
Requests == [order : Orders \cup {None}, side : Sides,
             limit : Prices \cup {None}, qty : Nat,
             tif : {"GTC", "IOC", "FOK"}, kind : {"limit", "market"},
             op : {"none", "submit", "cancel", "amend"}, late : BOOLEAN]
Statuses == {"Open", "PartiallyFilled", "Filled", "Cancelled"}

\* A call under way has the arguments its next step needs.
CallsOK ==
    \A w \in Workers :
        /\ pc[w] # "idle" => req[w].order \in Orders
        /\ pc[w] \in SubmitLabels => req[w].op # "cancel"
        /\ req[w].op # "cancel" /\ req[w].kind = "limit" /\ pc[w] # "idle"
             => req[w].limit \in Prices
        /\ pc[w] = "unqueue" => slot[w] \in Slot

\* Every variable has its type, no entry of quantity zero is queued, and every
\* call has the arguments it needs.
TypeOK ==
    /\ CallsOK
    /\ book \subseteq Entry /\ IsFiniteSet(book)
    /\ index \in [Orders -> Slot \cup {None}]
    /\ count \in Int
    /\ last \in Prices \cup {None}
    /\ lock \in [Sides -> Workers \cup {None}]
    /\ pc \in [Workers -> Labels]
    /\ req \in [Workers -> Requests]
    /\ left \in [Workers -> Nat]
    /\ slot \in [Workers -> Slot \cup {None}]
    /\ placed \in [Orders -> Sides \cup {None}]
    /\ closed \subseteq Orders
    /\ cancels \in [Orders -> Nat]
    /\ result \in [Orders -> Statuses \cup {None}]
    /\ traded \in [Orders -> Nat]

At(labels) == {w \in Workers : pc[w] \in labels}

\* order_count is the number of queued entries once the increments and
\* decrements still owed by calls past their critical section are paid: no
\* interleaving of add, match, fast cancel and scan loses or doubles one.
CountAgrees ==
    count + Cardinality(At({"count"})) - Cardinality(At({"dropindex", "uncount"}))
        = Cardinality(book)

\* While the sweep of a taker runs, it alone holds the side it consumes.
SweepHoldsLock ==
    \A w \in Workers, s \in Sides :
        lock[s] = w <=> pc[w] = "sweep" /\ s = Opposite(req[w].side)

\* The queues and the index tell the same story up to the cancels in flight
\* (ids submitted once): an id is queued at most once; a queued order missing
\* from the index is one a cancel is about to unqueue at that very level; an
\* indexed order missing from the queues is one a scan is about to drop.
IndexAgrees ==
    /\ \A e, f \in book : e.id = f.id => e = f
    /\ \A e \in book :
          \/ index[e.id] = <<e.side, EntryLevel(e)>>
          \/ /\ index[e.id] = None
             /\ \E w \in Workers : /\ pc[w] = "unqueue" /\ req[w].order = e.id
                                   /\ slot[w] = <<e.side, EntryLevel(e)>>
    /\ \A o \in Orders :
          index[o] = None \/ Holds(book, o)
            \/ \E w \in Workers : pc[w] = "dropindex" /\ req[w].order = o

\* A cancel called after the submit returned leaves the order out of the book
\* for good, whichever of several racing cancels and takers got it.
CancelIsFinal == \A e \in book : e.id \notin closed

\* A fill-or-kill taker trades its whole quantity or nothing.
FokAllOrNothing ==
    \A w \in Workers :
        pc[w] = "settle" /\ req[w].tif = "FOK" => left[w] \in {0, req[w].qty}

\* The best bid is below the best ask whenever no call is running.
RestingBookUncrossed ==
    (\A w \in Workers : pc[w] = "idle") =>
        \A b \in Entries("Buy"), a \in Entries("Sell") : b.price < a.price

\* add_order is idempotent on the id: no id is queued twice.  (Not so when two
\* amends of one order overlap.)
IdQueuedOnce == \A e, f \in book : e.id = f.id => e = f

Submitter(o) ==
    CHOOSE w \in Workers : pc[w] \in SubmitLabels /\ req[w].order = o
Resting(o) ==
    IF Holds(book, o) THEN (CHOOSE e \in book : e.id = o).rem ELSE 0

\* The quantity of o that can still trade: what its taker has left, or what
\* rests in its entry.
OpenQuantity(o) ==
    IF placed[o] = None THEN None
    ELSE IF Submitting(o)
         THEN left[Submitter(o)] + Resting(o)
         ELSE Resting(o)

Ledger == INSTANCE MatchingLedger WITH open <- [o \in Orders |-> OpenQuantity(o)]

\* The queues, index, locks and threads implement the ledger: quantity moves
\* only by equal executions on both sides or by one final withdrawal.
ImplementsLedger == Ledger!Spec

\* The scheduler runs every thread; a side's lock is granted eventually.
Fairness ==
    \A w \in Workers : WF_vars(SubmitStep(w)) /\ WF_vars(CancelStep(w))
FairSpec == Spec /\ Fairness

\* Every call returns: no order of lock acquisitions blocks a thread for good.
EveryCallReturns == \A w \in Workers : pc[w] # "idle" ~> pc[w] = "idle"
=============================================================================
