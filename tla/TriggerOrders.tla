---------------------------- MODULE TriggerOrders ----------------------------
(* Take-profit and stop-loss orders of one user on one market, for a long     *)
(* position (a short is the mirror image): the requests that set, delete and  *)
(* cancel them or create one directly, the hook that creates them after a     *)
(* fill, the keeper that fires them into the matching engine, and the fills,  *)
(* which reach the position later, through the persistence queue.  Only       *)
(* statements are atomic.  Trailing stops, expiry and triggers on the side    *)
(* that enters a position are left out.                                       *)
EXTENDS Integers, Sequences, FiniteSets, SequencesExt

CONSTANTS
    Marks,            \* mark prices
    Above, Below,     \* trigger prices of take-profit and stop-loss
    Usd,              \* sizes of a trigger in USD; 0 closes the position
    LimitKinds,       \* kinds that are set with a limit price
    Lot,              \* tokens of each of the user's own buys
    MaxTriggers, MaxTrades, MaxTroubles,  \* bounds: rows, own buys, errors ...
    MaxWindows        \* ... and the windows a behaviour may have gone through

ASSUME TriggerAssumption ==
    /\ Marks \subseteq Nat \ {0} /\ Usd \subseteq Nat /\ Lot \in Nat \ {0}
    /\ LimitKinds \subseteq {"tp", "sl"}

VARIABLES
    trig,             \* trigger_orders: [kind, of, usd, mode, status] and, history,
                      \* by: a setter, or the request that creates a single one
    links,            \* position_tp_sl: position id -> kind -> row, 0 for none
    stake,            \* the latest position [id, size]; of size 0 once closed
    fills,            \* fills that the position does not show yet
    cascade,          \* the clean-up after a close: [of, step]
    keeper,           \* the scan and the row it works on
    plan,             \* what each setter has still to do
    onBook,           \* limit orders of triggers that rest
    trades, troubles,
    sent,             \* history: row -> orders sent to the engine
    filled,           \* history: rows whose order traded
    cutOff,           \* history: rows cut short after their order was sent or claimed
    dropped,          \* history: rows that were cancelled
    windows           \* history: the named windows that a behaviour went through

triggerVars == <<trig, links, stake, fills, cascade, keeper, plan, onBook, trades,
                 troubles, sent, filled, cutOff, dropped, windows>>
keeperHistory == <<sent, filled, cutOff>>
setterState == <<plan, links>>

Kinds == {"tp", "sl"}
Setters == {"user", "hook"}
NoLink == [k \in Kinds |-> 0]
NoSteps == [cancel |-> {}, create |-> {}, usd |-> 0, link |-> "none"]
NoPlan == [todo |-> NoSteps, of |-> 0, next |-> NoLink]
Settled == [of |-> 0, step |-> "done"]
Asleep == [pc |-> "idle"]
TriggerRows == 1 .. Len(trig)
Open(pos) == stake.size # 0 /\ stake.id = pos
Through(name, when) == windows' = windows \cup (IF when THEN {name} ELSE {})

TriggerInit ==
    /\ trig = <<>> /\ links = <<>> /\ stake = [id |-> 0, size |-> 0] /\ fills = <<>>
    /\ cascade = Settled /\ keeper = Asleep /\ plan = [s \in Setters |-> NoPlan]
    /\ onBook = {} /\ trades = 0 /\ troubles = 0 /\ sent = <<>> /\ filled = {}
    /\ cutOff = {} /\ dropped = {} /\ windows = {}

ActiveWhere(kinds, pos) ==
    {t \in TriggerRows : trig[t].status = "active" /\ trig[t].of = pos /\ trig[t].kind \in kinds}
CancelAll(S) ==
    /\ trig' = [t \in TriggerRows |-> IF t \in S THEN [trig[t] EXCEPT !.status = "cancelled"] ELSE trig[t]]
    /\ dropped' = dropped \cup S
Become(t, status) == trig' = [trig EXCEPT ![t].status = status]

----------------------------------------------------------------------------
(* set_position_tp_sl, delete_position_tp_sl, create_deferred_tp_sl: statement *)
(* by statement                                                                *)

First(S) == IF "tp" \in S THEN "tp" ELSE "sl"
LinkOf(pos) == IF pos \in DOMAIN links THEN links[pos] ELSE NoLink
Busy(s) == plan[s].todo.link # "none"

\* Mutated: the old rows stay.
Adding(S, usd) == [cancel |-> {}, create |-> S, usd |-> usd, link |-> "upsert"]

\* The rows of the kinds that are replaced are cancelled before the new ones
\* are created; the link that was read is carried to the upsert.
Replacing(S, usd) == [cancel |-> S, create |-> S, usd |-> usd, link |-> "upsert"]

Begin(s, todo) ==
    /\ ~Busy(s) /\ stake.size # 0
    /\ plan' = [plan EXCEPT ![s] = [todo |-> todo, of |-> stake.id, next |-> LinkOf(stake.id)]]
    /\ Through("overlap", \E other \in Setters : Busy(other))
    /\ UNCHANGED <<trig, links, stake, fills, cascade, keeper, onBook, trades,
                   troubles, keeperHistory, dropped>>

SetTpSl(S, usd) == Len(trig) + Cardinality(S) <= MaxTriggers /\ Begin("user", Replacing(S, usd))
DeleteTpSl == Begin("user", [cancel |-> Kinds, create |-> {}, usd |-> 0, link |-> "delete"])

\* After a persisted fill: only if the position has no link yet.
Deferred(S) ==
    /\ Len(trig) + Cardinality(S) <= MaxTriggers
    /\ stake.id \notin DOMAIN links
    /\ Begin("hook", [cancel |-> {}, create |-> S, usd |-> 0, link |-> "upsert"])

NewTrigger(kind, pos, usd, mode, by) ==
    [kind |-> kind, of |-> pos, usd |-> usd, mode |-> mode, by |-> by, status |-> "active"]
TooLate(s) == Through("set late", ~Open(plan[s].of))

\* Kind by kind; a deletion cancels both in one statement.
StepCancel(s) ==
    LET todo == plan[s].todo
        kinds == IF todo.link = "delete" THEN todo.cancel ELSE {First(todo.cancel)}
    IN
    /\ todo.cancel # {}
    /\ CancelAll(ActiveWhere(kinds, plan[s].of))
    /\ plan' = [plan EXCEPT ![s].todo.cancel = @ \ kinds]
    /\ UNCHANGED <<links, stake, fills, cascade, keeper, onBook, trades, troubles,
                   keeperHistory, windows>>

StepCreate(s) ==
    LET todo == plan[s].todo  kind == First(todo.create) IN
    /\ todo.cancel = {} /\ todo.create # {} /\ TooLate(s)
    /\ trig' = Append(trig, NewTrigger(kind, plan[s].of, todo.usd,
                                   IF todo.usd = 0 THEN "close" ELSE "part", "setter"))
    /\ plan' = [plan EXCEPT ![s].todo.create = @ \ {kind}, ![s].next[kind] = Len(trig) + 1]
    /\ sent' = Append(sent, 0)
    /\ UNCHANGED <<links, stake, fills, cascade, keeper, onBook, trades, troubles,
                   filled, cutOff, dropped>>

\* The request writes the whole row, the hook only what it created.
Upserted(s) ==
    IF s = "user" THEN plan[s].next
    ELSE [k \in Kinds |-> IF plan[s].next[k] # 0 THEN plan[s].next[k] ELSE LinkOf(plan[s].of)[k]]
WithLink(pos, row) == [p \in DOMAIN links \cup {pos} |-> IF p = pos THEN row ELSE links[p]]
WithoutLink(pos) == [p \in DOMAIN links \ {pos} |-> links[p]]

StepLink(s) ==
    /\ plan[s].todo.cancel = {} /\ plan[s].todo.create = {}
    /\ \/ /\ plan[s].todo.link = "upsert" /\ TooLate(s)
          /\ links' = WithLink(plan[s].of, Upserted(s))
       \/ /\ plan[s].todo.link = "delete" /\ UNCHANGED windows
          /\ links' = WithoutLink(plan[s].of)
    /\ plan' = [plan EXCEPT ![s] = NoPlan]
    /\ UNCHANGED <<trig, stake, fills, cascade, keeper, onBook, trades, troubles,
                   keeperHistory, dropped>>

\* A refused creation (price too close, too many rows) or a failed statement
\* ends the request where it stands; what it cancelled stays cancelled.
StepFails(s) ==
    /\ Busy(s) /\ troubles < MaxTroubles /\ troubles' = troubles + 1
    /\ plan' = [plan EXCEPT ![s] = NoPlan] /\ Through("set failed", TRUE)
    /\ UNCHANGED <<trig, links, stake, fills, cascade, keeper, onBook, trades,
                   keeperHistory, dropped>>

\* POST /trigger-orders: the position is whatever the request names, open or not,
\* the user's or not (0), its link is not written, and a row that closes the
\* position may have a size of its own.
RequestTrigger(kind, pos, usd, mode) ==
    /\ Len(trig) < MaxTriggers
    /\ trig' = Append(trig, NewTrigger(kind, pos, usd, mode, "request")) /\ sent' = Append(sent, 0)
    /\ UNCHANGED <<setterState, stake, fills, cascade, keeper, onBook, trades, troubles,
                   filled, cutOff, dropped, windows>>

CancelTrigger(t) ==
    /\ trig[t].status = "active" /\ CancelAll({t})
    /\ UNCHANGED <<setterState, stake, fills, cascade, keeper, onBook, trades,
                   troubles, keeperHistory, windows>>

----------------------------------------------------------------------------
(* The market, the engine's fills and the position                             *)

UserBuys ==
    /\ trades < MaxTrades /\ trades' = trades + 1 /\ fills' = Append(fills, Lot)
    /\ UNCHANGED <<trig, setterState, stake, cascade, keeper, onBook, troubles,
                   keeperHistory, dropped, windows>>

RestingFills(o) ==
    /\ onBook' = onBook \ {o} /\ fills' = Append(fills, -o.size) /\ filled' = filled \cup {o.of}
    /\ UNCHANGED <<trig, setterState, stake, cascade, keeper, trades, troubles, sent,
                   cutOff, dropped, windows>>

\* One persisted fill: it opens or adds to the position, lessens it, or closes
\* it; what is left of it after a close opens the other side.
Magnitude(n) == IF n < 0 THEN -n ELSE n
Closes(d) == stake.size # 0 /\ (stake.size > 0) = (d < 0) /\ Magnitude(d) >= Magnitude(stake.size)
Persist ==
    /\ fills # <<>> /\ cascade = Settled
    /\ LET d == Head(fills) IN
       IF Closes(d)
       THEN /\ stake' = [stake EXCEPT !.size = 0]
            /\ cascade' = [of |-> stake.id, step |-> "cancel"]
            /\ fills' = (IF d + stake.size = 0 THEN <<>> ELSE <<d + stake.size>>) \o Tail(fills)
       ELSE /\ stake' = [id |-> IF stake.size = 0 THEN stake.id + 1 ELSE stake.id, size |-> stake.size + d]
            /\ fills' = Tail(fills) /\ UNCHANGED cascade
    /\ UNCHANGED <<trig, setterState, keeper, onBook, trades, troubles, keeperHistory,
                   dropped, windows>>

\* Mutated: only the take-profit goes.
OnlyTp(pos) == ActiveWhere({"tp"}, pos)
Leftover(pos) == ActiveWhere(Kinds, pos)

\* After a close, in statements of their own.
CleanTriggers ==
    /\ cascade.step = "cancel" /\ cascade' = [cascade EXCEPT !.step = "unlink"]
    /\ CancelAll(Leftover(cascade.of))
    /\ UNCHANGED <<setterState, stake, fills, keeper, onBook, trades, troubles,
                   keeperHistory, windows>>
CleanLink ==
    /\ cascade.step = "unlink" /\ cascade' = Settled /\ links' = WithoutLink(cascade.of)
    /\ UNCHANGED <<trig, stake, fills, keeper, plan, onBook, trades, troubles,
                   keeperHistory, dropped, windows>>

\* The user closes by request: the position and its triggers in one transaction.
UserCloses ==
    /\ stake.size # 0 /\ stake' = [stake EXCEPT !.size = 0]
    /\ CancelAll(ActiveWhere(Kinds, stake.id)) /\ links' = WithoutLink(stake.id)
    /\ Through("closed under", fills # <<>> \/ onBook # {})
    /\ UNCHANGED <<fills, cascade, keeper, plan, onBook, trades, troubles, keeperHistory>>

----------------------------------------------------------------------------
(* The keeper: process_market and execute_trigger_order                        *)

\* The mark price is read first, then the list.
Listed == {t \in TriggerRows : trig[t].status = "active"}
ListActive(mark) ==
    /\ keeper = Asleep /\ Listed # {}
    /\ \E list \in SetToSeqs(Listed) :
          /\ \A i, j \in DOMAIN list : i < j => list[i] < list[j]
          /\ keeper' = [pc |-> "scan", price |-> mark, todo |-> list]
    /\ UNCHANGED <<trig, setterState, stake, fills, cascade, onBook, trades, troubles,
                   keeperHistory, dropped, windows>>

Scan(todo) == IF todo = <<>> THEN Asleep
              ELSE [pc |-> "scan", price |-> keeper.price, todo |-> todo]
On == Head(keeper.todo)
ShouldTrigger(t) == IF trig[t].kind = "tp" THEN keeper.price >= Above ELSE keeper.price <= Below

\* Mutated: the claim is not conditional.
AnyRow(t) == TRUE

\* The list is old: the row is claimed only if it is still active.
Claimable(t) == trig[t].status = "active"
Claim ==
    /\ keeper.pc = "scan"
    /\ IF ShouldTrigger(On) /\ Claimable(On)
       THEN Become(On, "triggered") /\ keeper' = [keeper EXCEPT !.pc = "size"]
       ELSE keeper' = Scan(Tail(keeper.todo)) /\ UNCHANGED trig
    /\ UNCHANGED <<setterState, stake, fills, cascade, onBook, trades, troubles,
                   keeperHistory, dropped, windows>>

\* Mutated: the fallback is what the position was opened with.
OpeningSize(t) ==
    IF trig[t].mode = "close" THEN IF stake.size # 0 THEN Magnitude(stake.size) ELSE Lot
    ELSE trig[t].usd \div keeper.price

\* The size of the order, in tokens.  Without a position the fallback is the
\* row's own size, which is 0 for a row that closes the position, unless a
\* request gave it one.
TokensFor(t) ==
    IF trig[t].mode = "close" /\ stake.size # 0 THEN Magnitude(stake.size) ELSE trig[t].usd \div keeper.price
ReadSize ==
    /\ keeper.pc = "size"
    /\ keeper' = IF TokensFor(On) = 0 THEN [keeper EXCEPT !.pc = "fail"]
                 ELSE [pc |-> "submit", price |-> keeper.price, todo |-> keeper.todo,
                       size |-> TokensFor(On), saw |-> stake]
    /\ Through("in flight", fills # <<>> \/ onBook # {})
    /\ UNCHANGED <<trig, setterState, stake, fills, cascade, onBook, trades, troubles,
                   keeperHistory, dropped>>

\* The order fills at once, in part, or not at all: the rest of a limit order rests.
SendOrder(got) ==
    /\ keeper.pc = "submit"
    /\ keeper' = [pc |-> "settle", price |-> keeper.price, todo |-> keeper.todo, got |-> got]
    /\ fills' = IF got > 0 THEN Append(fills, -got) ELSE fills
    /\ onBook' = IF got < keeper.size /\ trig[On].kind \in LimitKinds
                 THEN onBook \cup {[of |-> On, size |-> keeper.size - got]} ELSE onBook
    /\ sent' = [sent EXCEPT ![On] = @ + 1]
    /\ filled' = IF got > 0 THEN filled \cup {On} ELSE filled
    /\ windows' = windows \cup (IF stake # keeper.saw \/ fills # <<>> THEN {"in flight"} ELSE {})
                          \cup (IF trig[On].usd # 0 THEN {"sized"} ELSE {})
    /\ UNCHANGED <<trig, setterState, stake, cascade, trades, troubles, cutOff, dropped>>

\* Mutated: the order's status is written, or success whatever the engine did.
OrderStatus == IF keeper.got > 0 THEN "filled" ELSE "failed"
AlwaysExecuted == "executed"
Outcome == IF keeper.got > 0 THEN "executed" ELSE "failed"
Settle ==
    /\ keeper.pc = "settle" /\ Become(On, Outcome) /\ keeper' = Scan(Tail(keeper.todo))
    /\ UNCHANGED <<setterState, stake, fills, cascade, onBook, trades, troubles,
                   keeperHistory, dropped, windows>>

\* Any statement may fail, also the claim, those after the order was sent and
\* the one that marks the row failed, which ends the scan.
StepErrs ==
    /\ keeper.pc \in {"scan", "size", "submit", "settle", "fail"}
    /\ keeper.pc = "scan" => ShouldTrigger(On)
    /\ troubles < MaxTroubles /\ troubles' = troubles + 1
    /\ keeper' = IF keeper.pc = "fail" THEN Asleep
                 ELSE [pc |-> "fail", price |-> keeper.price, todo |-> keeper.todo]
    /\ cutOff' = IF keeper.pc \in {"settle", "fail"} THEN cutOff \cup {On} ELSE cutOff
    /\ UNCHANGED <<trig, setterState, stake, fills, cascade, onBook, trades, sent, filled,
                   dropped, windows>>

\* mark_order_failed does not look at the status.
MarkFailed ==
    /\ keeper.pc = "fail" /\ Become(On, "failed") /\ keeper' = Scan(Tail(keeper.todo))
    /\ UNCHANGED <<setterState, stake, fills, cascade, onBook, trades, troubles,
                   keeperHistory, dropped, windows>>

InHand == keeper.pc \in {"size", "submit", "settle", "fail"}

\* A restart loses what the keeper, the setters and the clean-up had to do.
Restart ==
    /\ troubles < MaxTroubles /\ troubles' = troubles + 1
    /\ keeper' = Asleep /\ plan' = [s \in Setters |-> NoPlan] /\ cascade' = Settled
    /\ windows' = windows
         \cup (IF cascade # Settled THEN {"clean-up lost"} ELSE {})
         \cup (IF \E s \in Setters : Busy(s) THEN {"set failed"} ELSE {})
    /\ cutOff' = IF InHand THEN cutOff \cup {On} ELSE cutOff
    /\ UNCHANGED <<trig, links, stake, fills, onBook, trades, sent, filled, dropped>>

TriggerStep ==
    \/ \E S \in SUBSET Kinds \ {{}} : Deferred(S) \/ (\E usd \in Usd : SetTpSl(S, usd))
    \/ DeleteTpSl
    \/ \E s \in Setters : StepCancel(s) \/ StepCreate(s) \/ StepLink(s) \/ StepFails(s)
    \/ \E kind \in Kinds, pos \in 0 .. stake.id, usd \in Usd, mode \in {"close", "part"} :
          RequestTrigger(kind, pos, usd, mode)
    \/ \E t \in TriggerRows : CancelTrigger(t)
    \/ UserBuys \/ (\E o \in onBook : RestingFills(o)) \/ Persist
    \/ CleanTriggers \/ CleanLink \/ UserCloses
    \/ (\E mark \in Marks : ListActive(mark)) \/ Claim \/ ReadSize
    \/ (keeper.pc = "submit" /\ \E got \in 0 .. keeper.size : SendOrder(got))
    \/ Settle \/ StepErrs \/ MarkFailed \/ Restart

TriggerNext == Cardinality(windows) <= MaxWindows /\ TriggerStep
TriggerSpec == TriggerInit /\ [][TriggerNext]_triggerVars

----------------------------------------------------------------------------
(* Properties *)

TriggerTypeOK ==
    /\ \A t \in TriggerRows :
          trig[t].status \in {"active", "triggered", "executed", "failed", "cancelled"}
    /\ Len(sent) = Len(trig) /\ filled \subseteq TriggerRows
    /\ \A p \in DOMAIN links : \A k \in Kinds : links[p][k] \in TriggerRows \cup {0}
    /\ stake.size \in Int /\ \A i \in DOMAIN fills : fills[i] \in Int \ {0}
    /\ keeper.pc \in {"idle", "scan", "size", "submit", "settle", "fail"}

\* A row sends at most one order to the engine, and none once it was cancelled
\* by its user, a replacement, a deletion or a close: whatever the keeper still
\* has in its list, and whatever fails or restarts.
FiredOnce == \A t \in TriggerRows : sent[t] <= 1 /\ (t \in dropped => sent[t] = 0)

IsSetUp(t) == trig[t].status = "active" /\ trig[t].by = "setter"

\* Every active row of a position is the one its position_tp_sl row names, so
\* that there is one stop of a kind and the user sees it, outside a request in
\* progress; excused are rows of the request that creates one alone, overlapping
\* requests (the hook checks, then inserts) and those that failed half-way or ran
\* across a close.
LinkAgrees ==
    windows \cap {"overlap", "set failed", "set late"} = {} =>
        \A t \in TriggerRows : IsSetUp(t) =>
            \/ LinkOf(trig[t].of)[trig[t].kind] = t
            \/ \E s \in Setters : Busy(s) /\ plan[s].of = trig[t].of
            \/ cascade.of = trig[t].of

\* No trigger that a setter made outlives its position: an active one belongs to the open position
\* or to one that is being cleaned up, unless the clean-up was lost or a request
\* ran across the close.
ActiveHasPosition ==
    windows \cap {"clean-up lost", "set late"} = {} =>
        \A t \in TriggerRows : IsSetUp(t) =>
            Open(trig[t].of) \/ cascade = [of |-> trig[t].of, step |-> "cancel"]

\* With every fill applied the user is not short: a trigger that closes the
\* position never turns it, also when it fires on a position that has just
\* closed.  Excused are a size read while a fill was under way, a close under
\* an order in flight, and rows of a size of their own (the engine knows no
\* reduce-only).
NeverReversed ==
    windows \cap {"in flight", "closed under", "sized"} = {} =>
        stake.size + SumFunctionOnSet(fills, DOMAIN fills) >= 0

\* What the row says is what happened: 'executed' traded, 'failed' did not, and
\* 'triggered' is in the keeper's hands, unless an error came after the order or
\* a restart after the claim: nothing takes such a row up again.  A limit order
\* that rests is called 'failed' and may still trade.
OutcomeIsTrue ==
    \A t \in TriggerRows \ cutOff :
        /\ trig[t].status = "executed" => t \in filled
        /\ trig[t].status = "failed" => t \notin filled \/ trig[t].kind \in LimitKinds
        /\ trig[t].status = "triggered" => InHand /\ On = t
\* An active stop that a setter made is the one its position names, and its
\* position is open.
StopsBelong == TriggerTypeOK /\ LinkAgrees /\ ActiveHasPosition

\* A stop trades once at most, says whether it did, and never turns its position.
FiredAndTold == FiredOnce /\ OutcomeIsTrue /\ NeverReversed
=============================================================================
