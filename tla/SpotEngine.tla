----------------------------- MODULE SpotEngine -----------------------------
(* One market of the spot exchange: the engine task that takes the commands of *)
(* its channel one at a time, its book in memory, and the rows of spot_orders  *)
(* and spot_balances.  Only statements are atomic: an error in one ends the    *)
(* command where it stands, a crash ends the task, and a restart rebuilds the  *)
(* book from the rows.  Fees are left out (they lessen what a fill credits).   *)
EXTENDS Integers, Sequences, FiniteSets, Functions

CONSTANTS
    Traders,
    Purse,            \* [Traders -> [base, quote]]: what each starts with
    Wallets,          \* the sets of balance rows to start with
    SpotPrices, SpotSizes,
    QuoteSizes,       \* quote amounts of market buys
    SpotTifs,         \* subset of {"gtc", "ioc", "post", "market"}
    MaxSpotOrders,    \* bound on orders ...
    MaxSpotFaults     \* ... and on failed statements and crashes

ASSUME SpotAssumption ==
    /\ SpotPrices \subseteq Nat \ {0} /\ SpotSizes \subseteq Nat \ {0}
    /\ QuoteSizes \subseteq Nat \ {0}
    /\ SpotTifs \subseteq {"gtc", "ioc", "post", "market"}
    /\ Purse \in [Traders -> [{"base", "quote"} -> Nat]]
    /\ MaxSpotOrders \in Nat /\ MaxSpotFaults \in Nat

VARIABLES
    spotOrders,       \* the rows of spot_orders, in order of creation
    avail, frozen,    \* spot_balances
    resting,          \* the book: id -> remaining_qty
    job,              \* the command in hand
    up,               \* the task runs
    wallets,          \* the balance rows that exist: <<trader, token>> pairs
    faults,           \* failed statements and crashes so far
    cut,              \* history: orders of commands cut short since the start
    lostFills,        \* history: orders with a hit that was never committed
    halfRefunded,     \* history: orders refunded whose row was not closed
    strayLock         \* history: traders with a freeze whose order has no row

histories == <<cut, lostFills, halfRefunded, strayLock>>
spotVars == <<spotOrders, avail, frozen, resting, job, up, wallets, faults, histories>>

Tokens == {"base", "quote"}
Idle == [pc |-> "idle"]
Live == {"open", "partially_filled"}

SpotInit ==
    /\ spotOrders = <<>>
    /\ avail = Purse /\ frozen = [u \in Traders |-> [t \in Tokens |-> 0]]
    /\ resting = <<>> /\ job = Idle /\ up = TRUE /\ wallets \in Wallets
    /\ faults = 0 /\ cut = {} /\ lostFills = {} /\ halfRefunded = {} /\ strayLock = {}

----------------------------------------------------------------------------
(* Orders, locks and the book *)

Ids == 1 .. Len(spotOrders)
IsLive(i) == spotOrders[i].status \in Live
LockToken(o) == IF o.side = "buy" THEN "quote" ELSE "base"

\* What a new order freezes; for a market buy qty is the quote amount.
LockOf(o) == IF o.side = "buy" /\ o.tif # "market" THEN o.price * o.qty ELSE o.qty

\* What a restart gives back for an order it does not restore.
Residual(o) ==
    CASE o.side = "sell" -> o.qty - o.filled
      [] o.side = "buy" /\ o.tif = "market" -> o.qty - o.paid
      [] OTHER -> o.price * (o.qty - o.filled)

\* What a cancel gives back: a market buy has neither quantity nor price.
CancelRefund(o) == IF o.side = "buy" /\ o.tif = "market" THEN 0 ELSE Residual(o)

Restable(o) == o.tif \in {"gtc", "post"}

\* Mutated: an equal price does not cross.
BetterThanLimit(o, price) ==
    \/ o.tif = "market"
    \/ IF o.side = "buy" THEN price < o.price ELSE price > o.price

\* The makers an order may take.
Reaches(o, price) ==
    \/ o.tif = "market"
    \/ IF o.side = "buy" THEN price <= o.price ELSE price >= o.price
Takeable(o) ==
    {i \in DOMAIN resting : spotOrders[i].side # o.side /\ Reaches(o, spotOrders[i].price)}

\* Best price first; within a price in order of arrival.
Ahead(i, j) ==
    LET p == spotOrders[i].price  q == spotOrders[j].price IN
    IF p = q THEN i < j ELSE IF spotOrders[i].side = "sell" THEN p < q ELSE p > q
BestOf(S) == CHOOSE i \in S : \A j \in S \ {i} : Ahead(i, j)
LastOf(S) == CHOOSE i \in S : \A j \in S \ {i} : Ahead(j, i)

\* Mutated: the whole order is taken of each maker.
TakeAll(o, left, i) == left

\* One maker of the sweep: how much of it the order takes.
TakeOf(o, left, i) ==
    LET most == IF o.side = "buy" /\ o.tif = "market"
                THEN left \div spotOrders[i].price ELSE left
    IN  IF most < resting[i] THEN most ELSE resting[i]
SpentOn(o, q, i) == IF o.side = "buy" /\ o.tif = "market" THEN q * spotOrders[i].price ELSE q

\* The sweep: hits in order, and what is left of the order.  A market buy stops
\* at a maker of which it can take nothing; the others record a hit of zero.
Sweep1(o, sofar, i) ==
    LET q == TakeOf(o, sofar.left, i) IN
    IF sofar.left = 0 \/ sofar.stopped THEN sofar
    ELSE IF q = 0 /\ o.side = "buy" /\ o.tif = "market" THEN [sofar EXCEPT !.stopped = TRUE]
    ELSE [sofar EXCEPT !.left = @ - SpentOn(o, q, i),
                       !.hits = Append(@, [maker |-> i, qty |-> q, after |-> resting[i] - q])]
Unmatched(o) == [hits |-> <<>>, left |-> o.qty, stopped |-> FALSE]
Matched(o) ==
    LET sweep[S \in SUBSET Takeable(o)] ==
          IF S = {} THEN Unmatched(o) ELSE Sweep1(o, sweep[S \ {LastOf(S)}], LastOf(S))
    IN  sweep[Takeable(o)]

Without(f, i) == [k \in DOMAIN f \ {i} |-> f[k]]
Unfreeze(u, t, amount) ==
    /\ avail' = [avail EXCEPT ![u][t] = @ + amount]
    /\ frozen' = [frozen EXCEPT ![u][t] = @ - amount]

----------------------------------------------------------------------------
(* place_limit and place_market, up to the first statement *)

PostOnlyOk(o) == o.tif = "post" => Takeable(o) = {}

\* Only the first maker of the sweep is looked at.
NoSelfTrade(o) == Takeable(o) # {} => spotOrders[BestOf(Takeable(o))].user # o.user

Place(o) ==
    /\ up /\ job = Idle /\ Len(spotOrders) < MaxSpotOrders
    /\ PostOnlyOk(o) /\ NoSelfTrade(o)
    /\ <<o.user, LockToken(o)>> \in wallets /\ avail[o.user][LockToken(o)] >= LockOf(o)
    /\ Unfreeze(o.user, LockToken(o), -LockOf(o))
    /\ job' = [pc |-> "insert", order |-> o]
    /\ UNCHANGED <<spotOrders, resting, up, faults, wallets, histories>>

\* The row, then the match phase, which touches memory only.
InsertAndMatch ==
    /\ job.pc = "insert"
    /\ LET s == Matched(job.order) IN
       /\ spotOrders' = Append(spotOrders, job.order)
       /\ job' = [pc |-> "commit", id |-> Len(spotOrders) + 1, hits |-> s.hits, left |-> s.left]
       /\ resting' = [i \in DOMAIN resting |->
                        IF \E h \in Range(s.hits) : h.maker = i
                        THEN (CHOOSE h \in Range(s.hits) : h.maker = i).after
                        ELSE resting[i]]
    /\ UNCHANGED <<avail, frozen, up, faults, wallets, histories>>

----------------------------------------------------------------------------
(* commit_fill: one transaction for each hit *)

\* The four balance rows a fill writes must all exist.
Payable(buyer, seller) == {buyer, seller} \X Tokens \subseteq wallets

Buyer(h) == IF spotOrders[job.id].side = "buy" THEN job.id ELSE h.maker
Seller(h) == IF spotOrders[job.id].side = "buy" THEN h.maker ELSE job.id

\* Mutated: a taker that traded is done.
AnyFill(h) == TRUE

\* The room the taker has left, as the status is told: what remains of the
\* order, or for a market buy of the whole sweep's quote.
TakerDone(h) ==
    LET o == spotOrders[job.id] IN
    IF o.side = "buy" /\ o.tif = "market" THEN job.left = 0 ELSE o.qty - o.filled = h.qty

FilledBy(o, h, price, done) ==
    [o EXCEPT !.filled = @ + h.qty, !.paid = @ + h.qty * price,
              !.status = IF done THEN "filled" ELSE "partially_filled"]

CommitFill ==
    /\ job.pc = "commit" /\ job.hits # <<>>
    /\ LET h == Head(job.hits)
           price == spotOrders[h.maker].price
           b == spotOrders[Buyer(h)].user
           s == spotOrders[Seller(h)].user
       IN
       /\ Payable(b, s)
       /\ spotOrders' = [spotOrders EXCEPT
              ![h.maker] = FilledBy(@, h, price, h.after = 0),
              ![job.id] = FilledBy(@, h, price, TakerDone(h))]
       /\ frozen' = [[frozen EXCEPT ![s].base = @ - h.qty] EXCEPT ![b].quote = @ - h.qty * price]
       /\ avail' = [[avail EXCEPT ![s].quote = @ + h.qty * price] EXCEPT ![b].base = @ + h.qty]
       /\ resting' = IF h.after = 0 THEN Without(resting, h.maker) ELSE resting
    /\ job' = [job EXCEPT !.hits = Tail(@)]
    /\ UNCHANGED <<up, faults, wallets, histories>>

----------------------------------------------------------------------------
(* The end of the command *)

Finished == job.pc = "commit" /\ job.hits = <<>>

RestsWith(o) == o.tif = "gtc"

ToRest == Finished /\ RestsWith(spotOrders[job.id]) /\ job.left > 0
Rest ==
    /\ ToRest
    /\ resting' = [i \in DOMAIN resting \cup {job.id} |->
                     IF i = job.id THEN job.left ELSE resting[i]]
    /\ job' = Idle
    /\ UNCHANGED <<spotOrders, avail, frozen, up, faults, wallets, histories>>

\* Mutated: the whole order is given back.
WholeLock(o) == LockOf(o)

\* An immediate-or-cancel or post-only remainder and what a market order did not
\* use are given back by a statement of their own.
RefundOf(o) ==
    IF o.side = "buy" /\ o.tif # "market" THEN job.left * o.price ELSE job.left
RefundRest ==
    /\ Finished
    /\ LET o == spotOrders[job.id] IN
       /\ ~RestsWith(o) /\ (job.left > 0 \/ o.tif = "market")
       /\ Unfreeze(o.user, LockToken(o), RefundOf(o))
    /\ job' = [pc |-> "status", id |-> job.id, left |-> job.left]
    /\ UNCHANGED <<spotOrders, resting, up, faults, wallets, histories>>

CloseRow ==
    /\ job.pc = "status"
    /\ spotOrders' = [spotOrders EXCEPT ![job.id].status =
          IF @ # "open" /\ job.left = 0 THEN "filled" ELSE "canceled"]
    /\ job' = Idle
    /\ UNCHANGED <<avail, frozen, resting, up, faults, wallets, histories>>

Fill ==
    /\ Finished /\ spotOrders[job.id].tif # "market" /\ job.left = 0
    /\ spotOrders' = [spotOrders EXCEPT ![job.id].status = "filled"]
    /\ job' = Idle
    /\ UNCHANGED <<avail, frozen, resting, up, faults, wallets, histories>>

----------------------------------------------------------------------------
(* handle_cancel, and each order of a cancel-all.  The event of a cancelled    *)
(* market order (its placement had failed half-way) has no price: the task     *)
(* panics after the commit, and the market is down until a restart.            *)

Removed(i) == Without(resting, i)

CancelOrder(i) ==
    LET o == spotOrders[i] IN
    /\ up /\ job = Idle /\ IsLive(i)
    /\ Unfreeze(o.user, LockToken(o), CancelRefund(o))
    /\ spotOrders' = [spotOrders EXCEPT ![i].status = "canceled"]
    /\ resting' = IF o.tif = "market" THEN <<>> ELSE Removed(i)
    /\ up' = (o.tif # "market")
    /\ UNCHANGED <<job, faults, wallets, histories>>

----------------------------------------------------------------------------
(* Failed statements, crash and restart *)

Pending == IF job.pc = "commit" THEN {h.maker : h \in Range(job.hits)} ELSE {}
Interrupted ==
    /\ job # Idle /\ job' = Idle
    /\ cut' = cut \cup Pending \cup (IF job.pc = "insert" THEN {} ELSE {job.id})
    /\ strayLock' = strayLock \cup (IF job.pc = "insert" THEN {job.order.user} ELSE {})
    /\ lostFills' = lostFills \cup Pending \cup (IF Pending # {} THEN {job.id} ELSE {})
    /\ halfRefunded' = halfRefunded \cup (IF job.pc = "status" THEN {job.id} ELSE {})

\* A fill between accounts of which one has no row of a token never commits;
\* any statement may fail.
Unpayable ==
    /\ job.pc = "commit" /\ job.hits # <<>>
    /\ ~Payable(spotOrders[Buyer(Head(job.hits))].user, spotOrders[Seller(Head(job.hits))].user)
StatementFails ==
    /\ Interrupted /\ ~ToRest
    /\ \/ Unpayable /\ faults' = faults
       \/ ~Unpayable /\ faults < MaxSpotFaults /\ faults' = faults + 1
    /\ UNCHANGED <<spotOrders, avail, frozen, resting, up, wallets>>

SpotCrash ==
    /\ up /\ faults < MaxSpotFaults /\ faults' = faults + 1
    /\ (job = Idle /\ UNCHANGED <<job, histories>>) \/ Interrupted
    /\ up' = FALSE /\ resting' = <<>>
    /\ UNCHANGED <<spotOrders, avail, frozen, wallets>>

\* recover_into: orders that never rest are cancelled, each in a transaction,
\* and the others make the book.
Stale == {i \in Ids : IsLive(i) /\ ~Restable(spotOrders[i])}
RecoverRow(i) ==
    LET o == spotOrders[i] IN
    /\ ~up /\ i \in Stale
    /\ Unfreeze(o.user, LockToken(o), Residual(o))
    /\ spotOrders' = [spotOrders EXCEPT ![i].status = "canceled"]
    /\ UNCHANGED <<resting, job, up, faults, wallets, histories>>

\* Mutated: an order comes back with its full size.
FullSize(o) == o.qty
Restored(o) == o.qty - o.filled
Start ==
    /\ ~up /\ Stale = {}
    /\ resting' = [i \in {j \in Ids : IsLive(j) /\ spotOrders[j].filled < spotOrders[j].qty}
                     |-> Restored(spotOrders[i])]
    /\ up' = TRUE /\ cut' = {}
    /\ UNCHANGED <<spotOrders, avail, frozen, job, wallets, faults, lostFills, halfRefunded, strayLock>>

----------------------------------------------------------------------------

NewOrder(u, side, tif, price, qty) ==
    [user |-> u, side |-> side, tif |-> tif, price |-> price, qty |-> qty,
     filled |-> 0, paid |-> 0, status |-> "open"]
LimitOrders ==
    {NewOrder(u, s, f, p, q) : u \in Traders, s \in {"buy", "sell"},
        f \in SpotTifs \ {"market"}, p \in SpotPrices, q \in SpotSizes}
MarketOrders ==
    IF "market" \notin SpotTifs THEN {} ELSE
    {NewOrder(u, "buy", "market", 0, q) : u \in Traders, q \in QuoteSizes}
      \cup {NewOrder(u, "sell", "market", 0, q) : u \in Traders, q \in SpotSizes}

SpotNext ==
    \/ \E o \in LimitOrders \cup MarketOrders : Place(o)
    \/ InsertAndMatch \/ CommitFill \/ Rest \/ RefundRest \/ CloseRow \/ Fill
    \/ \E i \in Ids : CancelOrder(i)
    \/ StatementFails \/ SpotCrash
    \/ \E i \in Ids : RecoverRow(i)
    \/ Start

SpotSpec == SpotInit /\ [][SpotNext]_spotVars

----------------------------------------------------------------------------
(* Properties *)

\* Every row and balance has its type, and no order is filled beyond its size.
SpotTypeOK ==
    /\ \A i \in Ids :
          /\ spotOrders[i].status \in Live \cup {"filled", "canceled"}
          /\ spotOrders[i].filled \in Nat /\ Residual(spotOrders[i]) >= 0
    /\ DOMAIN resting \subseteq Ids
    /\ \A u \in Traders, t \in Tokens : avail[u][t] \in Nat /\ frozen[u][t] \in Int
    /\ job.pc \in {"idle", "insert", "commit", "status"}
    /\ (up \/ job = Idle) /\ faults \in 0 .. MaxSpotFaults

\* Locked(u, t): what the live orders of u still need of t.  An order whose
\* refund is done and whose row is about to be closed needs nothing.
Closing == IF job.pc = "status" THEN {job.id} ELSE {}
Need(i, u, t) ==
    LET o == spotOrders[i] IN
    IF IsLive(i) /\ i \notin Closing /\ o.user = u /\ LockToken(o) = t THEN Residual(o) ELSE 0
Locked(u, t) == SumFunctionOnSet([i \in Ids |-> Need(i, u, t)], Ids)

\* The frozen balance of a trader covers the residual of all live orders, at
\* every statement, also after failed statements, crashes and restarts: a later
\* fill or refund never draws on money that is not there.  Base is exact between
\* commands (quote keeps what a buy saved against its limit), but for a lost fill
\* and a freeze whose order was never inserted.  Outside is a refund whose row
\* was then not closed: a cancel or the restart refunds that order again.
LocksCovered ==
    \A u \in Traders : (\A i \in halfRefunded : spotOrders[i].user # u) =>
        /\ \A t \in Tokens : Locked(u, t) <= frozen[u][t]
        /\ job = Idle /\ lostFills = {} /\ u \notin strayLock =>
              frozen[u].base = Locked(u, "base")

\* The book never promises more of an order than its row has left, and no order
\* whose row is closed; between commands it is the live rows, also after a
\* restart, until a command is cut short.
BookIsTheRows ==
    /\ \A i \in DOMAIN resting :
          IsLive(i) /\ resting[i] <= spotOrders[i].qty - spotOrders[i].filled
    /\ up /\ job = Idle /\ cut = {} =>
          /\ DOMAIN resting = {i \in Ids : IsLive(i)}
          /\ \A i \in DOMAIN resting : resting[i] = spotOrders[i].qty - spotOrders[i].filled

\* Between commands no resting buy reaches a resting sell, also in the book a
\* restart rebuilds, unless a fill between two orders was lost.  Outside are
\* post-only orders: one is in the book only when its refund failed and a restart
\* restored its row, and the market may have passed it meanwhile.
SpotUncrossed ==
    up /\ job = Idle /\ lostFills = {} =>
        \A i, j \in {k \in DOMAIN resting : RestsWith(spotOrders[k])} :
            spotOrders[i].side = "buy" /\ spotOrders[j].side = "sell"
                => spotOrders[i].price < spotOrders[j].price

\* Between commands a row is 'filled' only when all of it traded, unless a fill
\* was lost (the book is then ahead of the row, which closes with its rest frozen).
FilledMeansFilled ==
    job = Idle => \A i \in Ids \ lostFills :
        spotOrders[i].status = "filled" => Residual(spotOrders[i]) = 0

\* Not so: a post-only order that does not cross rests (the scenario list of the
\* engine's tests).  The remainder of every limit order that is not
\* good-till-cancelled is cancelled, so it is answered 'canceled'.
PostOnlyRests ==
    \A i \in Ids : spotOrders[i].tif = "post" /\ faults = 0 => spotOrders[i].status # "canceled"
\* The book, the rows and what a command answered tell the same story between
\* commands, whatever statement failed and however often the task restarted.
BookAndRowsAgree == SpotTypeOK /\ BookIsTheRows /\ SpotUncrossed /\ FilledMeansFilled
=============================================================================
