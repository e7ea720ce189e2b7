----------------------------- MODULE RiskProofs -----------------------------
(***************************************************************************)
(* Theorems about RiskWorker, with the liquidations it is composed with,   *)
(* and about PositionLock, for every set of users, every book, every price *)
(* and every number of closes, rankings, orders and crashes, and for every *)
(* number of callers, keys and connections.                                *)
(*   StaysClosed: a position that is closed stays closed.                  *)
(*   WorkerClearsOrders: the worker cancels the orders of a restricted     *)
(*     account before it liquidates it and releases their margin once.     *)
(*   CasesCovered: the fund is not overdrawn by overlapping payouts, and   *)
(*     ADL reduces nobody twice for one liquidation.                       *)
(*   NobodyHolds: a call of increase_position that is over holds neither a *)
(*     lock nor a connection.                                              *)
(***************************************************************************)
EXTENDS RiskWorker, PositionLock, FiniteSetTheorems, SequenceTheorems, TLAPS


\* The worker's phases in which its current user is set.
OnUser == {"list", "flip", "refund", "liquidate"}

\* Only what the argument needs is typed.
Shapes ==
    /\ DOMAIN row = Users
    /\ DOMAIN step = Liquidators
    /\ DOMAIN mem = Liquidators
    /\ \A w \in Liquidators : DOMAIN mem[w] = DOMAIN Clear
    /\ DOMAIN tick = DOMAIN Idle

\* Whoever is looked at is a user.
Known ==
    /\ mem["sweep"].todo \subseteq Users
    /\ \A w \in Liquidators : step[w] \in {"lock", "commit"} => mem[w].user \in Users
    /\ tick.phase \in OnUser => tick.user \in Users

\* A liquidation about to commit holds the lock of a row that is still open, and no
\* other liquidation holds it too.
Guarded ==
    /\ \A w \in Liquidators : step[w] = "commit" =>
           mem[w].user \in locked /\ IsOpen(mem[w].user)
    /\ \A v, w \in Liquidators : step[v] = "commit" /\ step[w] = "commit" /\ v # w =>
           mem[v].user # mem[w].user

RiskInv == Shapes /\ Known /\ Guarded

\* What the invariant speaks of, besides the tick.
looked == <<row, step, mem, locked>>

LEMMA ClearIs ==
  /\ DOMAIN Clear = {"todo", "price", "user", "seen", "cap", "contributed", "gap", "list"}
  /\ Clear.todo = {}
  /\ DOMAIN Idle = {"phase", "todo", "prev", "wallet", "rows", "price", "user", "new"}
  /\ Idle.phase = "idle"
BY DEF Clear, Idle

LEMMA RiskInitInv == RiskInit => RiskInv
<1> SUFFICES ASSUME RiskInit PROVE RiskInv
  OBVIOUS
<1>1. Shapes
  <2>1. row = Book /\ tick = Idle /\ step = [w \in Liquidators |-> "idle"]
        /\ mem = [w \in Liquidators |-> Clear]
    BY DEF RiskInit, LiqInit
  <2> QED BY <2>1, BookAssumption DEF Shapes
<1>2. Known
  BY ClearIs DEF RiskInit, LiqInit, Known, OnUser, Liquidators
<1>3. Guarded
  BY DEF RiskInit, LiqInit, Guarded
<1> QED BY <1>1, <1>2, <1>3 DEF RiskInv

(***************************************************************************)
(* One step.  What the theorem says of it is called Frame.                 *)
(***************************************************************************)

Frame == \A u \in Users : ~IsOpen(u) => row'[u] = row[u]

\* Steps that change nothing the invariant looks at, except the worker's tick.
LEMMA QuietStep ==
  ASSUME RiskInv, UNCHANGED looked, DOMAIN tick' = DOMAIN Idle,
         tick'.phase \in OnUser => tick'.user \in Users
  PROVE  RiskInv' /\ Frame
<1>1. Shapes'
  BY DEF RiskInv, Shapes, looked
<1>2. Known'
  BY DEF RiskInv, Known, looked
<1>3. Guarded'
  BY DEF RiskInv, Guarded, looked, IsOpen
<1>4. Frame
  BY DEF Frame, looked
<1> QED BY <1>1, <1>2, <1>3, <1>4 DEF RiskInv

\* Steps of one task that leave the rows and the locks alone and do not bring it to
\* its commit.
LEMMA OwnStep ==
  ASSUME RiskInv, UNCHANGED <<row, locked, tick>>,
         NEW w \in Liquidators, NEW label, NEW local,
         step' = [step EXCEPT ![w] = label], label # "commit",
         mem' = [mem EXCEPT ![w] = local], DOMAIN local = DOMAIN Clear,
         w = "sweep" => local.todo \subseteq Users,
         label = "lock" => local.user \in Users
  PROVE  RiskInv' /\ Frame
<1> USE DEF Liquidators
<1>1. Shapes'
  BY DEF RiskInv, Shapes
<1>2. Known'
  BY DEF RiskInv, Shapes, Known
<1>3. Guarded'
  BY DEF RiskInv, Shapes, Guarded, IsOpen
<1>4. Frame
  BY DEF Frame
<1> QED BY <1>1, <1>2, <1>3, <1>4 DEF RiskInv

\* One row is rewritten that was open and that no liquidation has locked.
LEMMA RowStep ==
  ASSUME RiskInv, NEW u, NEW r, IsOpen(u), u \notin locked,
         row' = [row EXCEPT ![u] = r], UNCHANGED <<locked, tick>>,
         UNCHANGED mem, DOMAIN step' = Liquidators,
         \A w \in Liquidators : step'[w] \in {"lock", "commit"} => step'[w] = step[w]
  PROVE  RiskInv' /\ Frame
<1>1. Shapes'
  BY DEF RiskInv, Shapes
<1>2. Known'
  BY DEF RiskInv, Known
<1>3. Guarded'
  BY DEF RiskInv, Shapes, Known, Guarded, IsOpen
<1>4. Frame
  BY DEF RiskInv, Shapes, Frame
<1> QED BY <1>1, <1>2, <1>3, <1>4 DEF RiskInv

LEMMA LockStep ==
  ASSUME RiskInv, NEW w \in Liquidators, LockPosition(w), UNCHANGED riskOnly
  PROVE  RiskInv' /\ Frame
<1> DEFINE u == mem[w].user
<1>0. step[w] = "lock" /\ u \notin locked /\ u \in Users /\ UNCHANGED <<row, tick>>
  BY DEF LockPosition, RiskInv, Known, rowsAndMoney, riskOnly
<1>1. CASE StillOpenRow(row[u])
  <2> DEFINE local == [mem[w] EXCEPT !.cap =
        IF RemainingAt(row[u], mem[w].price) < 0 THEN Pct(fund.balance, FundCapPct) ELSE 0]
  <2>1. locked' = locked \cup {u} /\ mem' = [mem EXCEPT ![w] = local]
        /\ step' = [step EXCEPT ![w] = "commit"]
    BY <1>0, <1>1 DEF LockPosition, Next1
  <2>2. DOMAIN local = DOMAIN mem[w] /\ local.user = u /\ local.todo = mem[w].todo
    BY ClearIs DEF RiskInv, Shapes
  <2>3. IsOpen(u)
    BY <1>1 DEF StillOpenRow, IsOpen
  <2> HIDE DEF local
  <2> USE DEF Liquidators
  <2>4. Shapes'
    BY <1>0, <2>1, <2>2 DEF RiskInv, Shapes
  <2>5. Known'
    BY <1>0, <2>1, <2>2 DEF RiskInv, Shapes, Known
  <2>6. Guarded'
    <3>1. step'[w] = "commit" /\ mem'[w].user = u /\ IsOpen(u)'
      BY <1>0, <2>1, <2>2, <2>3 DEF RiskInv, Shapes, IsOpen
    <3>2. \A v \in Liquidators : v # w => step'[v] = step[v] /\ mem'[v] = mem[v]
      BY <2>1 DEF RiskInv, Shapes
    <3> QED BY <1>0, <2>1, <3>1, <3>2 DEF RiskInv, Guarded, IsOpen
  <2>7. Frame
    BY <1>0 DEF Frame
  <2> QED BY <2>4, <2>5, <2>6, <2>7 DEF RiskInv
<1>2. CASE ~StillOpenRow(row[u])
  <2>1. UNCHANGED <<locked, mem>> /\ step' = [step EXCEPT ![w] = After(w)]
    BY <1>0, <1>2 DEF LockPosition, Next1
  <2>2. After(w) \notin {"lock", "commit"}
    BY DEF After
  <2>3. \A v \in Liquidators : step'[v] \in {"lock", "commit"} => step'[v] = step[v]
    BY <2>1, <2>2 DEF RiskInv, Shapes
  <2>4. Shapes' /\ Known'
    BY <1>0, <2>1, <2>3 DEF RiskInv, Shapes, Known
  <2>5. Guarded'
    BY <1>0, <2>1, <2>3 DEF RiskInv, Guarded, IsOpen
  <2>6. Frame
    BY <1>0 DEF Frame
  <2> QED BY <2>4, <2>5, <2>6 DEF RiskInv
<1> QED BY <1>1, <1>2

LEMMA CommitStep ==
  ASSUME RiskInv, NEW w \in Liquidators, CommitLiquidation(w), UNCHANGED riskOnly
  PROVE  RiskInv' /\ Frame
<1> DEFINE u == mem[w].user
<1>1. PICK r, label, g, n :
        /\ row' = [row EXCEPT ![u] = r]
        /\ step' = [step EXCEPT ![w] = label] /\ label \in {"pick", "gap"}
        /\ mem' = [mem EXCEPT ![w] = [mem[w] EXCEPT !.gap = g, !.contributed = n]]
  BY Zenon DEF CommitLiquidation, Next1
<1>2. step[w] = "commit" /\ locked' = locked \ {u} /\ tick' = tick
  BY DEF CommitLiquidation, riskOnly
<1>3. u \in Users /\ IsOpen(u)
  BY <1>2 DEF RiskInv, Known, Guarded
<1> DEFINE local == [mem[w] EXCEPT !.gap = g, !.contributed = n]
<1>4. DOMAIN local = DOMAIN mem[w] /\ local.todo = mem[w].todo
  BY ClearIs DEF RiskInv, Shapes
<1>5. mem' = [mem EXCEPT ![w] = local]
  BY <1>1
<1> HIDE DEF local
<1>6. step'[w] \notin {"lock", "commit"} /\ mem'[w] = local
  BY <1>1, <1>5 DEF RiskInv, Shapes
<1>7. \A v \in Liquidators : v # w => step'[v] = step[v] /\ mem'[v] = mem[v]
  BY <1>1, <1>5 DEF RiskInv, Shapes
<1>8. Shapes'
  BY <1>1, <1>2, <1>4, <1>5 DEF RiskInv, Shapes
<1>9. Known'
  <2>1. mem'["sweep"].todo = mem["sweep"].todo
    BY <1>4, <1>6, <1>7 DEF Liquidators
  <2> QED BY <2>1, <1>2, <1>6, <1>7 DEF RiskInv, Known
<1>10. Guarded'
  <2>1. \A v \in Liquidators : step'[v] = "commit" =>
          v # w /\ step[v] = "commit" /\ mem'[v].user = mem[v].user /\ mem[v].user # u
    BY <1>2, <1>6, <1>7 DEF RiskInv, Guarded
  <2>2. \A v \in Users : v # u => row'[v] = row[v]
    BY <1>1 DEF RiskInv, Shapes
  <2>3. \A v \in Liquidators : step[v] = "commit" => mem[v].user \in Users
    BY DEF RiskInv, Known
  <2> QED BY <1>2, <2>1, <2>2, <2>3 DEF RiskInv, Guarded, IsOpen
<1>11. Frame
  BY <1>1, <1>3 DEF RiskInv, Shapes, Frame
<1> QED BY <1>8, <1>9, <1>10, <1>11 DEF RiskInv

LEMMA CrashStep ==
  ASSUME RiskInv, Crash
  PROVE  RiskInv' /\ Frame
<1>1. /\ row' = row /\ locked' = {} /\ tick' = Idle
      /\ step' = [w \in Liquidators |-> "idle"] /\ mem' = [w \in Liquidators |-> Clear]
  BY DEF Crash, LiqCrash, rowsAndMoney
<1>2. Shapes'
  BY <1>1 DEF RiskInv, Shapes
<1>3. Known'
  BY <1>1, ClearIs DEF Known, OnUser, Liquidators
<1>4. Guarded'
  BY <1>1 DEF Guarded
<1>5. Frame
  BY <1>1 DEF Frame
<1> QED BY <1>2, <1>3, <1>4, <1>5 DEF RiskInv

\* The liquidations, the ranking and the users, while the worker's own state stays.
LEMMA ClosingStep ==
  ASSUME RiskInv, Closing, UNCHANGED riskOnly
  PROVE  RiskInv' /\ Frame
<1> USE DEF rowsAndMoney, riskOnly
<1>0. DOMAIN Clear = DOMAIN [Clear EXCEPT !.todo = {}] /\ DOMAIN mem["risk"] = DOMAIN Clear
      /\ DOMAIN mem["sweep"] = DOMAIN Clear
      /\ "sweep" \in Liquidators /\ "risk" \in Liquidators
  BY DEF RiskInv, Shapes, Liquidators
<1>1. CASE Sweep
  <2>1. PICK todo, price :
          /\ todo \in SUBSET Users
          /\ mem' = [mem EXCEPT !["sweep"] = [Clear EXCEPT !.todo = todo, !.price = price]]
    <3>1. mem' = [mem EXCEPT !["sweep"] = [Clear EXCEPT
             !.todo = {u \in Isolated : IsOpen(u) /\ ShouldLiquidateAt(row[u], mark)},
             !.price = mark]]
      BY <1>1 DEF Sweep
    <3>2. {u \in Isolated : IsOpen(u) /\ ShouldLiquidateAt(row[u], mark)} \in SUBSET Users
      BY DEF Isolated
    <3> QED BY Zenon, <3>1, <3>2
  <2> DEFINE local == [Clear EXCEPT !.todo = todo, !.price = price]
  <2>2. DOMAIN local = DOMAIN Clear /\ local.todo = todo
    BY ClearIs
  <2>3. mem' = [mem EXCEPT !["sweep"] = local]
    BY <2>1
  <2>4. step' = [step EXCEPT !["sweep"] = "pick"] /\ UNCHANGED <<row, locked, tick>>
    BY <1>1 DEF Sweep, Next1
  <2>5. todo \subseteq Users
    BY <2>1
  <2> HIDE DEF local
  <2> QED BY <1>0, <2>2, <2>3, <2>4, <2>5, OwnStep
<1>2. CASE Pick
  <2>1. step[ "sweep"] = "pick" /\ UNCHANGED <<row, locked, tick>>
    BY <1>2 DEF Pick
  <2>2. CASE mem["sweep"].todo = {}
    <3>1. step' = [step EXCEPT !["sweep"] = "idle"] /\ mem' = [mem EXCEPT !["sweep"] = Clear]
      BY <1>2, <2>2 DEF Pick, Reset, Next1
    <3>2. Clear.todo \subseteq Users
      BY ClearIs
    <3> QED BY <1>0, <2>1, <3>1, <3>2, OwnStep
  <2>3. CASE mem["sweep"].todo # {}
    <3>1. PICK v \in mem["sweep"].todo :
            /\ mem' = [mem EXCEPT !["sweep"].todo = @ \ {v}, !["sweep"].user = v]
            /\ step' = [step EXCEPT !["sweep"] = "lock"]
      BY <1>2, <2>3 DEF Pick, Next1
    <3> DEFINE local == [mem["sweep"] EXCEPT !.todo = @ \ {v}, !.user = v]
    <3>2. mem' = [mem EXCEPT !["sweep"] = local]
      BY <1>0, <3>1 DEF RiskInv, Shapes
    <3>3. DOMAIN local = DOMAIN mem["sweep"] /\ local.todo = mem["sweep"].todo \ {v}
          /\ local.user = v
      BY <1>0, ClearIs
    <3>4. v \in Users /\ local.todo \subseteq Users
      BY <3>3 DEF RiskInv, Known
    <3> HIDE DEF local
    <3> QED BY <1>0, <2>1, <3>1, <3>2, <3>3, <3>4, OwnStep
  <2> QED BY <2>2, <2>3
<1>3. CASE \E w \in Liquidators : LockPosition(w) \/ CommitLiquidation(w)
  BY <1>3, LockStep, CommitStep
<1>4. CASE Gap
  <2>1. UNCHANGED <<row, locked, tick>>
    BY <1>4 DEF Gap
  <2>2. CASE step' = [step EXCEPT !["risk"] = "idle"] /\ mem' = [mem EXCEPT !["risk"] = Clear]
    BY <1>0, <2>1, <2>2, OwnStep
  <2>3. CASE \E gap, list : /\ step' = [step EXCEPT !["risk"] = "adl"]
             /\ mem' = [mem EXCEPT !["risk"].gap = gap, !["risk"].list = list]
    <3>1. PICK gap, list : mem' = [mem EXCEPT !["risk"].gap = gap, !["risk"].list = list]
      BY <2>3
    <3> DEFINE local == [mem["risk"] EXCEPT !.gap = gap, !.list = list]
    <3>2. mem' = [mem EXCEPT !["risk"] = local]
      BY <1>0, <3>1 DEF RiskInv, Shapes
    <3>3. DOMAIN local = DOMAIN mem["risk"]
      BY <1>0
    <3> HIDE DEF local
    <3> QED BY <1>0, <2>1, <2>3, <3>2, <3>3, OwnStep
  <2> QED BY <1>4, <2>2, <2>3 DEF Gap, Reset, Next1
<1>5. CASE AdlDone
  BY <1>0, <1>5, OwnStep DEF AdlDone, Reset, Next1
<1>6. CASE AdlReduce
  <2> DEFINE e == Head(mem["risk"].list)
  <2>1. e.user \notin locked /\ UNCHANGED <<locked, tick>>
    BY Zenon, <1>6 DEF AdlReduce
  <2>2. CASE ReduceGuard(e.user)
    <3>1. PICK r : row' = [row EXCEPT ![e.user] = r]
      BY Zenon, <1>6, <2>2 DEF AdlReduce
    <3>2. step' = [step EXCEPT !["risk"] = "adlpay"] /\ UNCHANGED mem
      BY Zenon, <1>6, <2>2 DEF AdlReduce, Next1
    <3>3. DOMAIN step' = Liquidators
          /\ \A w \in Liquidators : step'[w] \in {"lock", "commit"} => step'[w] = step[w]
      BY <3>2 DEF RiskInv, Shapes
    <3>4. IsOpen(e.user)
      BY <2>2 DEF ReduceGuard
    <3> HIDE DEF e
    <3> QED BY <2>1, <3>1, <3>2, <3>3, <3>4, RowStep
  <2>3. CASE ~ReduceGuard(e.user)
    <3>1. mem' = [mem EXCEPT !["risk"].list = Tail(@)] /\ UNCHANGED <<row, step>>
          /\ step["risk"] = "adl"
      BY <1>6, <2>3 DEF AdlReduce
    <3> DEFINE local == [mem["risk"] EXCEPT !.list = Tail(@)]
    <3>2. mem' = [mem EXCEPT !["risk"] = local]
      BY <1>0, <3>1 DEF RiskInv, Shapes
    <3>3. DOMAIN local = DOMAIN mem["risk"]
      BY <1>0
    <3> HIDE DEF local, e
    <3>4. DOMAIN mem' = Liquidators /\ mem'["risk"] = local /\ mem'["sweep"] = mem["sweep"]
      BY <1>0, <3>2 DEF RiskInv, Shapes
    <3>5. Shapes'
      BY <1>0, <2>1, <3>1, <3>3, <3>4 DEF RiskInv, Shapes, Liquidators
    <3>6. Known'
      BY <2>1, <3>1, <3>4 DEF RiskInv, Known, Liquidators
    <3>7. Guarded'
      BY <2>1, <3>1, <3>4 DEF RiskInv, Guarded, Liquidators, IsOpen
    <3>8. Frame
      BY <3>1 DEF Frame
    <3> QED BY <3>5, <3>6, <3>7, <3>8 DEF RiskInv
  <2> QED BY <2>2, <2>3
<1>7. CASE AdlPay
  <2>1. PICK took, list : mem' = [mem EXCEPT !["risk"].gap = @ - took, !["risk"].list = list]
    BY Zenon, <1>7 DEF AdlPay
  <2> DEFINE local == [mem["risk"] EXCEPT !.gap = @ - took, !.list = list]
  <2>2. mem' = [mem EXCEPT !["risk"] = local]
    BY <1>0, <2>1 DEF RiskInv, Shapes
  <2>3. DOMAIN local = DOMAIN mem["risk"]
    BY <1>0
  <2>4. step' = [step EXCEPT !["risk"] = "adl"] /\ UNCHANGED <<row, locked, tick>>
    BY <1>7 DEF AdlPay, Next1
  <2> HIDE DEF local
  <2> QED BY Zenon, <1>0, <2>2, <2>3, <2>4, OwnStep
<1> QED BY <1>1, <1>2, <1>3, <1>4, <1>5, <1>6, <1>7 DEF Closing

LEMMA PeopleStep ==
  ASSUME RiskInv, Ranking \/ People, UNCHANGED riskOnly
  PROVE  RiskInv' /\ Frame
<1> USE DEF rowsAndMoney, riskOnly
<1>0. UNCHANGED looked =>
        RiskInv' /\ Frame
  BY QuietStep DEF RiskInv, Shapes, Known
<1>1. CASE Ranking \/ \E price \in Marks : MoveMark(price)
  BY <1>0, <1>1 DEF Ranking, RankRead, RankWrite, MoveMark, looked
<1>2. CASE \E u \in Users : \E n \in 1..Book[u].tokens : ClosePart(u, n)
  <2>1. PICK u, n : u \in Users /\ ClosePart(u, n)
    BY <1>2
  <2>2. PICK r : row' = [row EXCEPT ![u] = r]
    BY <2>1 DEF ClosePart
  <2>3. IsOpen(u) /\ u \notin locked /\ UNCHANGED <<locked, tick, step, mem>>
    BY <2>1 DEF ClosePart
  <2>4. DOMAIN step' = Liquidators
        /\ \A w \in Liquidators : step'[w] \in {"lock", "commit"} => step'[w] = step[w]
    BY <2>3 DEF RiskInv, Shapes
  <2> QED BY <2>2, <2>3, <2>4, RowStep
<1> QED BY <1>1, <1>2 DEF People

\* The worker, and the users' orders.
LEMMA WorkerStep ==
  ASSUME RiskInv, Worker
  PROVE  RiskInv' /\ Frame
<1> USE DEF rowsAndMoney, liqVars, looked
<1>0. DOMAIN tick = {"phase", "todo", "prev", "wallet", "rows", "price", "user", "new"}
      /\ (tick.phase \in OnUser => tick.user \in Users) /\ Unified \subseteq Users
  BY ClearIs, RateAssumption DEF RiskInv, Shapes, Known
<1>1. CASE TickBalances \/ TickPositions
  <2>1. tick'.phase \in {"read", "visit"} /\ DOMAIN tick' = DOMAIN tick /\ UNCHANGED looked
    BY <1>0, <1>1 DEF TickBalances, TickPositions
  <2> QED BY <1>0, <2>1, ClearIs, QuietStep DEF OnUser
<1>2. CASE TickEnd
  BY <1>2, ClearIs, QuietStep DEF TickEnd, OnUser
<1>3. CASE \E u \in Unified : Visit(u)
  <2>1. PICK u \in Unified : Visit(u)
    BY <1>3
  <2>2. PICK new, phase :
          tick' = [tick EXCEPT !.todo = @ \ {u}, !.user = u, !.new = new, !.phase = phase]
    BY Zenon, <2>1 DEF Visit
  <2>3. tick'.user \in Users /\ DOMAIN tick' = DOMAIN tick
    BY <1>0, <2>2
  <2>4. UNCHANGED looked
    BY <2>1 DEF Visit
  <2> QED BY <1>0, <2>3, <2>4, ClearIs, QuietStep
<1>4. CASE CancelList \/ CancelFlip \/ CancelRefund \/ CancelErrs
  <2>1. tick.phase \in OnUser /\ UNCHANGED looked
        /\ \E phase : tick' = [tick EXCEPT !.phase = phase]
    BY Zenon, <1>4 DEF CancelList, CancelFlip, CancelRefund, CancelErrs, OnUser, Release, Settle
  <2>2. tick'.user = tick.user /\ DOMAIN tick' = DOMAIN tick
    BY <1>0, <2>1
  <2> QED BY <1>0, <2>1, <2>2, ClearIs, QuietStep
<1>5. CASE Forced
  <2>1. tick.phase = "liquidate" /\ tick' = [tick EXCEPT !.phase = "visit"]
        /\ UNCHANGED <<row, locked>> /\ step["risk"] = "idle"
    BY <1>5 DEF Forced, Quiet
  <2>2. tick.user \in Users /\ DOMAIN tick' = DOMAIN Idle /\ tick'.phase = "visit"
    BY <1>0, <2>1, ClearIs DEF OnUser
  <2>3. CASE UNCHANGED <<step, mem>>
    BY <2>1, <2>2, <2>3, QuietStep DEF OnUser
  <2>4. CASE LiquidateOne(tick.user)
    <3> DEFINE u == tick.user
    <3>1. PICK seen, price :
            mem' = [mem EXCEPT !["risk"] = [Clear EXCEPT !.user = u, !.seen = seen, !.price = price]]
      BY Zenon, <2>4 DEF LiquidateOne
    <3> DEFINE local == [Clear EXCEPT !.user = u, !.seen = seen, !.price = price]
    <3>2. DOMAIN local = DOMAIN Clear /\ local.user = u
      BY ClearIs
    <3>3. mem' = [mem EXCEPT !["risk"] = local] /\ step' = [step EXCEPT !["risk"] = "lock"]
      BY <2>4, <3>1 DEF LiquidateOne, Next1
    <3> HIDE DEF local
    <3> USE DEF Liquidators
    <3>4. DOMAIN mem' = Liquidators /\ mem'["risk"] = local /\ mem'["sweep"] = mem["sweep"]
          /\ DOMAIN step' = Liquidators /\ step'["risk"] = "lock" /\ step'["sweep"] = step["sweep"]
      BY <3>3 DEF RiskInv, Shapes
    <3>5. Shapes'
      BY <2>1, <2>2, <3>2, <3>4 DEF RiskInv, Shapes
    <3>6. Known'
      BY <2>2, <3>2, <3>4 DEF RiskInv, Known, OnUser
    <3>7. Guarded'
      BY <2>1, <3>4 DEF RiskInv, Guarded, IsOpen
    <3>8. Frame
      BY <2>1 DEF Frame
    <3> QED BY <3>5, <3>6, <3>7, <3>8 DEF RiskInv
  <2> QED BY <1>5, <2>3, <2>4 DEF Forced
<1> QED BY <1>1, <1>2, <1>3, <1>4, <1>5 DEF Worker

LEMMA OrderStep ==
  ASSUME RiskInv, NEW u \in Unified, PlaceGate(u) \/ PlaceInsert(u) \/ UserCancels(u)
  PROVE  RiskInv' /\ Frame
<1>1. UNCHANGED <<looked, tick>>
  BY Zenon DEF PlaceGate, PlaceInsert, UserCancels, Release, Settle, looked, liqVars
<1> QED BY <1>1, QuietStep DEF RiskInv, Shapes, Known

LEMMA RiskStep ==
  ASSUME RiskInv, [RiskNext]_riskVars
  PROVE  RiskInv' /\ Frame
<1>1. CASE UNCHANGED riskVars
  BY <1>1, QuietStep DEF riskVars, riskOnly, liqVars, looked, RiskInv, Shapes, Known
<1>2. CASE RiskNext
  BY <1>2, ClosingStep, PeopleStep, WorkerStep, OrderStep, CrashStep DEF RiskNext
<1> QED BY <1>1, <1>2

(***************************************************************************)
(* The theorem.                                                            *)
(***************************************************************************)

\* A position that was closed, by its owner, by ADL or by a liquidation, is never
\* touched again: the row lock of execute_liquidation and the status checks of
\* execute_liquidation, close_position and execute_adl suffice for that, whatever
\* the sweep, the worker, the rankings and the users do and whenever the process
\* stops.
THEOREM StaysClosed == RiskSpec => ClosedStaysClosed
<1>1. RiskInv /\ [RiskNext]_riskVars => RiskInv'
  BY RiskStep
<1>2. RiskInv /\ [RiskNext]_riskVars => [\A u \in Users : ~IsOpen(u) => row'[u] = row[u]]_liqVars
  BY RiskStep DEF Frame
<1> QED BY <1>1, <1>2, RiskInitInv, PTL DEF RiskSpec, ClosedStaysClosed

(***************************************************************************)
(* Sums of shares, and the numbers liquidations reckon with.               *)
(***************************************************************************)

\* The n-th part of t parts of x is at most x.
LEMMA ShareLess ==
  ASSUME NEW x \in Nat, NEW t \in Nat \ {0}, NEW n \in 0..t
  PROVE  (x * n) \div t \in 0..x
<1>1. x * n \in Nat /\ x * n <= x * t
  <2>1. PICK d \in Nat : t = n + d
    <3>1. t - n \in Nat /\ t = n + (t - n)
      OBVIOUS
    <3> QED BY <3>1
  <2>2. n \in Nat /\ x * t = x * n + x * d
    BY <2>1
  <2>3. x * n \in Nat /\ x * d \in Nat
    BY <2>2
  <2> QED BY <2>2, <2>3
<1>2. PICK q, r : q = (x * n) \div t /\ r = (x * n) % t
  OBVIOUS
<1>3. q \in Int /\ r \in 0..(t - 1) /\ x * n = t * q + r
  BY <1>1, <1>2
<1>4. q >= 0
  <2> SUFFICES ASSUME q < 0 PROVE FALSE
    BY <1>3
  <2>1. PICK p \in Nat : q = -1 - p
    <3>1. -1 - q \in Nat /\ q = -1 - (-1 - q)
      BY <1>3
    <3> QED BY <3>1
  <2>2. t * q = -t - t * p /\ t * p \in Nat
    BY <2>1
  <2> QED BY <1>1, <1>3, <2>2
<1>5. q <= x
  <2> SUFFICES ASSUME q > x PROVE FALSE
    BY <1>3
  <2>1. PICK p \in Nat : q = x + 1 + p
    <3>1. q - x - 1 \in Nat /\ q = x + 1 + (q - x - 1)
      BY <1>3
    <3> QED BY <3>1
  <2>2. t * q = x * t + t + t * p /\ t * p \in Nat
    BY <2>1
  <2> QED BY <1>1, <1>3, <2>2
<1> QED BY <1>2, <1>3, <1>4, <1>5

\* A percentage of a whole number.
LEMMA PctLess ==
  ASSUME NEW a \in Nat, NEW k \in 0..100
  PROVE  Pct(a, k) \in 0..a
BY ShareLess DEF Pct

LEMMA HalfAtMost ==
  ASSUME NEW a \in Nat, NEW k \in 0..50
  PROVE  Pct(a, k) \in Nat /\ 2 * Pct(a, k) <= a
<1>1. a * k \in Nat /\ a * k <= a * 50
  <2>1. PICK d \in Nat : 50 = k + d
    <3>1. 50 - k \in Nat /\ 50 = k + (50 - k)
      OBVIOUS
    <3> QED BY <3>1
  <2>2. a * 50 = a * k + a * d /\ a * d \in Nat /\ a * k \in Nat
    BY <2>1
  <2> QED BY <2>2
<1>2. PICK b \in Nat : b = a * k
  BY <1>1
<1>3. b <= 50 * a
  BY <1>1, <1>2
<1>4. b \div 100 \in Nat /\ 2 * (b \div 100) <= a
  BY <1>3
<1> QED BY <1>2, <1>4 DEF Pct

\* A sequence that lists a finite set.
LEMMA SomeOrder ==
  ASSUME NEW T, NEW S \in SUBSET T, IsFiniteSet(S), NEW s \in SetToSeqs(S)
  PROVE  /\ s \in Seq(T) /\ \A i \in DOMAIN s : s[i] \in S
         /\ \A i, j \in DOMAIN s : i # j => s[i] # s[j]
<1>1. PICK n \in Nat : n = Cardinality(S)
  BY FS_CardinalityType
<1>2. s \in [1..n -> S] /\ \A i, j \in 1..n : i # j => s[i] # s[j]
  BY <1>1 DEF SetToSeqs
<1>3. s \in [1..n -> T]
  BY <1>2
<1>4. s \in Seq(T)
  BY <1>3
<1> QED BY <1>2, <1>4

RowT == [status : {"open", "closed", "liquidated"}, side : {"long", "short"},
         tokens : Nat, size : Nat, coll : Nat]
Ranked == [user : Users, side : {"long", "short"}, size : Nat, pnl : Nat \ {0}, score : Int]

\* The numbers liquidations reckon with, wherever they are kept meanwhile.
Money ==
    /\ row \in [Users -> RowT] /\ avail \in [Users -> Int] /\ hold \in [Users -> Nat]
    /\ mark \in Nat
    /\ \A w \in Liquidators : /\ mem[w].price \in Nat /\ mem[w].gap \in Int
                              /\ mem[w].list \in Seq(Ranked)
    /\ step["risk"] \in {"lock", "commit"} => mem["risk"].seen \in RowT
    /\ step["risk"] = "adlpay" => mem["risk"].list # << >>
    /\ ranks \in [{"long", "short"} -> Seq(Ranked)]
    /\ DOMAIN ranker = {"busy", "seen", "runs"} /\ ranker.seen \subseteq Ranked
    /\ IsFiniteSet(ranker.seen)


LEMMA NumbersOf ==
  ASSUME NEW r \in RowT, NEW price \in Nat
  PROVE  /\ PnlAt(r, price) \in Int /\ RemainingAt(r, price) \in Int
         /\ LiqFeeOf(r) \in Nat /\ Contribution(r) \in Nat /\ BufferOf(r.size) \in Nat
<1>1. r.tokens \in Nat /\ r.size \in Nat /\ r.coll \in Nat
  BY DEF RowT
<1>2. PICK p \in Nat : p = r.tokens * price
  BY <1>1
<1>3. PnlAt(r, price) \in Int
  BY <1>1, <1>2 DEF PnlAt
<1>4. r.size \div LiqFeeDiv \in Nat /\ r.size \div InsFeeDiv \in Nat /\ r.size \div BufferDiv \in Nat
  BY <1>1, RateAssumption
<1> QED BY <1>1, <1>3, <1>4 DEF RemainingAt, LiqFeeOf, Contribution, BufferOf

\* A balance that is settled stays a balance.
LEMMA SettleTypes ==
  ASSUME Money, NEW u, NEW a, NEW b \in Int, Settle(u, a, b), a \in Int
  PROVE  avail' \in [Users -> Int] /\ hold' \in [Users -> Nat]
<1>1. avail \in [Users -> Int] /\ hold \in [Users -> Nat]
  BY DEF Money
<1>2. avail' = [avail EXCEPT ![u] = avail[u] + b]
      /\ hold' = [hold EXCEPT ![u] = Floor0(hold[u] - a)]
  BY DEF Settle, DrawnToZero
<1>3. u \in Users => avail[u] + b \in Int /\ hold[u] - a \in Int
  BY <1>1
<1>4. u \in Users => Floor0(hold[u] - a) \in Nat
  <2>1. ASSUME NEW n \in Int PROVE Floor0(n) \in Nat
    BY DEF Floor0
  <2> QED BY <1>3, <2>1
<1> QED BY <1>1, <1>2, <1>3, <1>4

LEMMA SettleWholeTypes ==
  ASSUME Money, NEW u, NEW a, NEW b \in Int, SettleWhole(u, a, b), a \in Int
  PROVE  avail' \in [Users -> Int] /\ hold' \in [Users -> Nat]
<1>1. avail \in [Users -> Int] /\ hold \in [Users -> Nat]
  BY DEF Money
<1>2. avail' = [avail EXCEPT ![u] = avail[u] + b + Floor0(hold[u] - a)]
      /\ hold' = [hold EXCEPT ![u] = 0]
  BY DEF SettleWhole, DrawnToZero
<1>3. u \in Users => avail[u] + b + Floor0(hold[u] - a) \in Int
  BY <1>1 DEF Floor0
<1>4. avail' \in [Users -> Int]
  BY <1>1, <1>2, <1>3
<1> QED BY <1>1, <1>2, <1>4

\* Steps that leave rows, money and rankings alone and change one task's memory.
LEMMA MemMoney ==
  ASSUME Money, Shapes, UNCHANGED <<row, avail, hold, mark, ranks, ranker>>,
         NEW w \in Liquidators, NEW label, NEW local,
         step' = [step EXCEPT ![w] = label], mem' = [mem EXCEPT ![w] = local],
         local.price \in Nat, local.gap \in Int, local.list \in Seq(Ranked),
         w = "risk" /\ label \in {"lock", "commit"} => local.seen \in RowT,
         w = "risk" => label # "adlpay"
  PROVE  Money'
<1> USE DEF Money, Shapes, Liquidators
<1>1. \A v \in Liquidators : /\ mem'[v].price \in Nat /\ mem'[v].gap \in Int
                             /\ mem'[v].list \in Seq(Ranked)
  OBVIOUS
<1>2. step'["risk"] \in {"lock", "commit"} => mem'["risk"].seen \in RowT
  OBVIOUS
<1>3. step'["risk"] = "adlpay" => mem'["risk"].list # << >>
  OBVIOUS
<1> QED BY <1>1, <1>2, <1>3

\* Steps that change nothing of it.
LEMMA QuietMoney ==
  ASSUME Money, UNCHANGED <<row, avail, hold, mark, ranks, ranker, mem, step>>
  PROVE  Money'
BY DEF Money

LEMMA ClearMoney ==
  Clear.price = 0 /\ Clear.gap = 0 /\ Clear.list = << >> /\ Clear.list \in Seq(Ranked)
BY DEF Clear

LEMMA SweepMoney ==
  ASSUME Money, Shapes, Sweep \/ Pick
  PROVE  Money'
<1> USE DEF rowsAndMoney
<1>0. "sweep" \in Liquidators /\ DOMAIN mem = Liquidators /\ DOMAIN mem["sweep"] = DOMAIN Clear
  BY DEF Shapes, Liquidators
<1>1. UNCHANGED <<row, avail, hold, mark, ranks, ranker>>
  BY DEF Sweep, Pick
<1>2. \E label, local :
        /\ step' = [step EXCEPT !["sweep"] = label] /\ mem' = [mem EXCEPT !["sweep"] = local]
        /\ local.price \in Nat /\ local.gap \in Int /\ local.list \in Seq(Ranked)
  <2>1. CASE Sweep
    <3>1. PICK todo : mem' = [mem EXCEPT !["sweep"] = [Clear EXCEPT !.todo = todo, !.price = mark]]
      BY Zenon, <2>1 DEF Sweep
    <3> DEFINE local == [Clear EXCEPT !.todo = todo, !.price = mark]
    <3>2. local.price = mark /\ local.gap = 0 /\ local.list = << >>
      BY ClearIs, ClearMoney
    <3>3. mem' = [mem EXCEPT !["sweep"] = local] /\ step' = [step EXCEPT !["sweep"] = "pick"]
      BY <2>1, <3>1 DEF Sweep, Next1
    <3>4. mark \in Nat /\ << >> \in Seq(Ranked)
      BY DEF Money
    <3> HIDE DEF local
    <3>5. local.price \in Nat /\ local.gap \in Int /\ local.list \in Seq(Ranked)
      BY <3>2, <3>4
    <3> QED BY <3>3, <3>5
  <2>2. CASE Pick /\ mem["sweep"].todo = {}
    <3>1. step' = [step EXCEPT !["sweep"] = "idle"] /\ mem' = [mem EXCEPT !["sweep"] = Clear]
      BY <2>2 DEF Pick, Reset, Next1
    <3>2. Clear.price \in Nat /\ Clear.gap \in Int /\ Clear.list \in Seq(Ranked)
      BY ClearMoney
    <3> QED BY <3>1, <3>2
  <2>3. CASE Pick /\ mem["sweep"].todo # {}
    <3>1. PICK v : /\ mem' = [mem EXCEPT !["sweep"].todo = @ \ {v}, !["sweep"].user = v]
                   /\ step' = [step EXCEPT !["sweep"] = "lock"]
      BY <2>3 DEF Pick, Next1
    <3> DEFINE local == [mem["sweep"] EXCEPT !.todo = @ \ {v}, !.user = v]
    <3>2. mem' = [mem EXCEPT !["sweep"] = local]
      BY <1>0, <3>1
    <3>3. local.price = mem["sweep"].price /\ local.gap = mem["sweep"].gap
          /\ local.list = mem["sweep"].list
      BY <1>0, ClearIs
    <3> HIDE DEF local
    <3> QED BY <1>0, <3>1, <3>2, <3>3 DEF Money
  <2> QED BY <2>1, <2>2, <2>3
<1> QED BY <1>0, <1>1, <1>2, MemMoney

LEMMA LockMoney ==
  ASSUME Money, Shapes, NEW w \in Liquidators, LockPosition(w)
  PROVE  Money'
<1> USE DEF rowsAndMoney
<1>0. DOMAIN mem = Liquidators /\ DOMAIN mem[w] = DOMAIN Clear
  BY DEF Shapes
<1>1. UNCHANGED <<row, avail, hold, mark, ranks, ranker>> /\ step[w] = "lock"
  BY DEF LockPosition
<1>2. CASE StillOpenRow(row[mem[w].user])
  <2>1. PICK cap : /\ mem' = [mem EXCEPT ![w].cap = cap]
                   /\ step' = [step EXCEPT ![w] = "commit"]
    BY <1>2 DEF LockPosition, Next1
  <2> DEFINE local == [mem[w] EXCEPT !.cap = cap]
  <2>2. mem' = [mem EXCEPT ![w] = local]
    BY <1>0, <2>1
  <2>3. local.price = mem[w].price /\ local.gap = mem[w].gap
        /\ local.list = mem[w].list /\ local.seen = mem[w].seen
    BY <1>0, ClearIs
  <2>4. w = "risk" => mem[w].seen \in RowT
    BY <1>1 DEF Money
  <2> HIDE DEF local
  <2>5. local.price \in Nat /\ local.gap \in Int /\ local.list \in Seq(Ranked)
    BY <2>3 DEF Money
  <2> QED BY <1>1, <2>1, <2>2, <2>3, <2>4, <2>5, MemMoney
<1>3. CASE ~StillOpenRow(row[mem[w].user])
  <2>1. mem' = mem /\ step' = [step EXCEPT ![w] = After(w)]
    BY <1>3 DEF LockPosition, Next1
  <2>2. After(w) \notin {"lock", "commit", "adlpay"}
    BY DEF After
  <2>3. step'["risk"] \in {"lock", "commit", "adlpay"} => step'["risk"] = step["risk"]
    BY <2>1, <2>2 DEF Shapes, Liquidators
  <2> QED BY <1>1, <2>1, <2>3 DEF Money
<1> QED BY <1>2, <1>3

LEMMA CommitMoney ==
  ASSUME Money, Shapes, Known, NEW w \in Liquidators, CommitLiquidation(w)
  PROVE  Money'
<1> DEFINE u == mem[w].user
           r == row[u]
           rest == RemainingAt(r, mem[w].price)
           back == Floor0(rest - LiqFeeOf(r) - Contribution(r))
<1>0. step[w] = "commit" /\ u \in Users /\ r \in RowT /\ mem[w].price \in Nat
      /\ DOMAIN mem = Liquidators /\ DOMAIN mem[w] = DOMAIN Clear
  BY DEF CommitLiquidation, Known, Money, Shapes
<1>1. /\ PnlAt(r, mem[w].price) \in Int /\ rest \in Int /\ LiqFeeOf(r) \in Nat
      /\ Contribution(r) \in Nat /\ BufferOf(r.size) \in Nat /\ r.coll \in Nat
  BY <1>0, NumbersOf DEF RowT
<1>2. row' \in [Users -> RowT]
  <2>1. [r EXCEPT !.status = "liquidated", !.tokens = 0, !.size = 0, !.coll = 0] \in RowT
    BY <1>0 DEF RowT
  <2>2. row' = [row EXCEPT ![u] =
                  [r EXCEPT !.status = "liquidated", !.tokens = 0, !.size = 0, !.coll = 0]]
    BY <1>0 DEF CommitLiquidation, Money
  <2> QED BY <2>1, <2>2 DEF Money
<1>3. avail' \in [Users -> Int] /\ hold' \in [Users -> Nat]
  <2>1. SettleWhole(u, r.coll + BufferOf(r.size), back + BufferOf(r.size))
    BY DEF CommitLiquidation
  <2>2. back \in Int
    BY <1>1 DEF Floor0
  <2> HIDE DEF u, r, back
  <2> QED BY <1>1, <2>1, <2>2, SettleWholeTypes DEF r
<1>4. PICK g, n, label :
        /\ g \in Int
        /\ mem' = [mem EXCEPT ![w] = [mem[w] EXCEPT !.gap = g, !.contributed = n]]
        /\ step' = [step EXCEPT ![w] = label] /\ label \in {"pick", "gap"}
  <2>1. w # "sweep" => mem[w].seen.coll \in Int
    BY <1>0 DEF Money, Liquidators, RowT
  <2>2. (IF w = "sweep" THEN 0 ELSE
           Floor0(LiqFeeOf(r) + Contribution(r) - mem[w].seen.coll - PnlAt(r, mem[w].price))) \in Int
    <3>1. CASE w = "sweep"
      BY <3>1
    <3>2. CASE w # "sweep"
      <4> HIDE DEF r
      <4> QED BY <1>1, <2>1, <3>2 DEF Floor0
    <3> QED BY <3>1, <3>2
  <2> QED BY Zenon, <2>2, <1>0 DEF CommitLiquidation, Next1
<1> DEFINE local == [mem[w] EXCEPT !.gap = g, !.contributed = n]
<1>5. local.price = mem[w].price /\ local.gap = g /\ local.list = mem[w].list /\ g \in Int
  BY <1>0, <1>4, ClearIs
<1>6. mem' = [mem EXCEPT ![w] = local]
  BY <1>4
<1> HIDE DEF local
<1>7. \A v \in Liquidators : /\ mem'[v].price \in Nat /\ mem'[v].gap \in Int
                             /\ mem'[v].list \in Seq(Ranked)
  BY <1>0, <1>5, <1>6 DEF Money
<1>8. step'["risk"] \notin {"lock", "commit", "adlpay"} \/
        (step'["risk"] = step["risk"] /\ mem'["risk"] = mem["risk"])
  BY <1>4, <1>6 DEF Shapes, Liquidators
<1>9. UNCHANGED <<mark, ranks, ranker>>
  BY DEF CommitLiquidation
<1> QED BY <1>2, <1>3, <1>7, <1>8, <1>9 DEF Money

LEMMA GapMoney ==
  ASSUME Money, Shapes, NEW s \in {"long", "short"}, row[mem["risk"].user].side = s,
         Gap \/ AdlDone, cases[mem["risk"].user].paid \in Int
  PROVE  Money'
<1> USE DEF rowsAndMoney
<1>0. "risk" \in Liquidators /\ DOMAIN mem = Liquidators /\ DOMAIN mem["risk"] = DOMAIN Clear
  BY DEF Shapes, Liquidators
<1>1. UNCHANGED <<row, avail, hold, mark, ranks, ranker>>
  BY DEF Gap, AdlDone
<1>2. CASE step' = [step EXCEPT !["risk"] = "idle"] /\ mem' = [mem EXCEPT !["risk"] = Clear]
  <2>1. Clear.price \in Nat /\ Clear.gap \in Int /\ Clear.list \in Seq(Ranked)
    BY ClearMoney
  <2> HIDE DEF Clear
  <2> QED BY <1>0, <1>1, <1>2, <2>1, MemMoney
<1>3. CASE \E gap \in Int : \E n \in Nat :
             /\ step' = [step EXCEPT !["risk"] = "adl"] /\ n <= Len(ranks[Opp(s)])
             /\ mem' = [mem EXCEPT !["risk"].gap = gap,
                                   !["risk"].list = SubSeq(ranks[Opp(s)], 1, n)]
  <2>1. PICK gap \in Int, n \in Nat :
             /\ step' = [step EXCEPT !["risk"] = "adl"] /\ n <= Len(ranks[Opp(s)])
             /\ mem' = [mem EXCEPT !["risk"].gap = gap,
                                   !["risk"].list = SubSeq(ranks[Opp(s)], 1, n)]
    BY <1>3
  <2> DEFINE list == SubSeq(ranks[Opp(s)], 1, n)
             local == [mem["risk"] EXCEPT !.gap = gap, !.list = list]
  <2>2. ranks[Opp(s)] \in Seq(Ranked)
    BY DEF Opp, Money
  <2>3. list \in Seq(Ranked)
    BY <2>1, <2>2
  <2> HIDE DEF list
  <2>4. local.price = mem["risk"].price /\ local.gap = gap /\ local.list = list
    BY <1>0, ClearIs
  <2>5. mem' = [mem EXCEPT !["risk"] = local]
    BY <1>0, <2>1 DEF list
  <2> HIDE DEF local
  <2> QED BY <1>0, <1>1, <2>1, <2>3, <2>4, <2>5, MemMoney DEF Money
<1>4. CASE Gap
  <2> DEFINE gap == Floor0(mem["risk"].gap - RecordedPayout("risk"))
             n == Lower(MaxPerAdl, Len(ranks[Opp(s)]))
  <2>1. CASE gap = 0
    BY <1>2, <1>4, <2>1 DEF Gap, Reset, Next1
  <2>2. CASE gap # 0
    <3>1. RecordedPayout("risk") \in Int /\ mem["risk"].gap \in Int
      BY <1>0 DEF RecordedPayout, Money
    <3>2. gap \in Int
      BY <3>1 DEF Floor0
    <3>3. Len(ranks[Opp(s)]) \in Nat
      BY DEF Opp, Money
    <3>4. n \in Nat /\ n <= Len(ranks[Opp(s)])
      BY <3>3, AdlAssumption DEF Lower
    <3>5. /\ step' = [step EXCEPT !["risk"] = "adl"]
          /\ mem' = [mem EXCEPT !["risk"].gap = gap,
                                !["risk"].list = SubSeq(ranks[Opp(s)], 1, n)]
      BY <1>4, <2>2 DEF Gap, Next1
    <3> HIDE DEF gap, n
    <3> QED BY <1>3, <3>2, <3>4, <3>5
  <2> QED BY <2>1, <2>2
<1> QED BY <1>2, <1>4 DEF AdlDone, Reset, Next1

\* The entry ADL looks at, and what it cuts.
LEMMA EntryIs ==
  ASSUME Money, Shapes, mem["risk"].list # << >>
  PROVE  /\ Head(mem["risk"].list) \in Ranked
         /\ Tail(mem["risk"].list) \in Seq(Ranked)
<1>1. PICK list \in Seq(Ranked) : list = mem["risk"].list
  BY DEF Money, Liquidators
<1>2. list # << >>
  BY <1>1
<1>3. Head(list) \in Ranked /\ Tail(list) \in Seq(Ranked)
  BY <1>2
<1> QED BY <1>1, <1>3

LEMMA CutIs ==
  ASSUME NEW need \in Int, NEW pnl \in Nat \ {0}
  PROVE  CutPct(need, pnl) \in 0..100
<1>1. (100 * Lower(need, pnl)) \div pnl \in Int
  <2>1. Lower(need, pnl) \in Int
    BY DEF Lower
  <2>2. PICK n \in Int : n = 100 * Lower(need, pnl)
    BY <2>1
  <2> QED BY <2>2
<1>2. MinCutPct \in 0..100 /\ MaxCutPct \in 0..100
  BY RateAssumption
<1> QED BY <1>1, <1>2 DEF CutPct, Higher, Lower

LEMMA CollIs ==
  ASSUME NEW size \in Nat
  PROVE  size \div Leverage \in Nat
BY RateAssumption

LEMMA AdlReduceMoney ==
  ASSUME Money, Shapes, Known, AdlReduce
  PROVE  Money'
<1> DEFINE l == mem["risk"]
           e == Head(l.list)
           cut == CutPct(l.gap, e.pnl)
           coll == e.size \div Leverage
<1>0. "risk" \in Liquidators /\ DOMAIN mem = Liquidators /\ DOMAIN mem["risk"] = DOMAIN Clear
      /\ step["risk"] = "adl" /\ l.list # << >> /\ l.gap \in Int
  BY Zenon DEF Shapes, Liquidators, AdlReduce, Money
<1>1. e \in Ranked /\ Tail(l.list) \in Seq(Ranked)
  BY <1>0, EntryIs
<1>2. UNCHANGED <<avail, hold, mark, ranks, ranker>>
  BY Zenon DEF AdlReduce
<1>3. CASE ReduceGuard(e.user)
  <2>1. cut \in 0..100
    BY <1>0, <1>1, CutIs DEF Ranked
  <2>2. e.user \in Users /\ e.size \in Nat /\ coll \in Nat
    BY <1>1, CollIs DEF Ranked
  <2>3. e.size - Pct(e.size, cut) \in Nat /\ coll - Pct(coll, cut) \in Nat
    <3> HIDE DEF e, coll, cut
    <3>1. Pct(e.size, cut) \in 0..e.size /\ Pct(coll, cut) \in 0..coll
      BY <2>1, <2>2, PctLess
    <3> QED BY <2>2, <3>1
  <2>4. PICK s \in Nat, c \in Nat : s = e.size - Pct(e.size, cut) /\ c = coll - Pct(coll, cut)
    BY <2>3
  <2>5. row' = [row EXCEPT ![e.user] =
                 IF cut = 100
                 THEN [@ EXCEPT !.status = "closed", !.tokens = 0, !.size = 0, !.coll = 0]
                 ELSE [@ EXCEPT !.size = s, !.coll = c]]
        /\ step' = [step EXCEPT !["risk"] = "adlpay"] /\ mem' = mem
    BY Zenon, <1>3, <2>4 DEF AdlReduce, Next1
  <2> HIDE DEF e, coll, cut
  <2>6. row' \in [Users -> RowT]
    <3>1. row \in [Users -> RowT] /\ row[e.user] \in RowT
      BY <2>2 DEF Money
    <3>2. [row[e.user] EXCEPT !.status = "closed", !.tokens = 0, !.size = 0, !.coll = 0] \in RowT
          /\ [row[e.user] EXCEPT !.size = s, !.coll = c] \in RowT
      BY <3>1 DEF RowT
    <3>3. PICK r \in RowT : row' = [row EXCEPT ![e.user] = r]
      BY <2>5, <3>2
    <3> QED BY <3>1, <3>3
  <2> QED BY <1>0, <1>2, <2>5, <2>6 DEF Money, Shapes
<1>4. CASE ~ReduceGuard(e.user)
  <2>1. mem' = [mem EXCEPT !["risk"].list = Tail(@)] /\ UNCHANGED <<row, step>>
    BY <1>4 DEF AdlReduce
  <2> DEFINE local == [mem["risk"] EXCEPT !.list = Tail(@)]
  <2>2. mem' = [mem EXCEPT !["risk"] = local]
    BY <1>0, <2>1
  <2>3. local.price = mem["risk"].price /\ local.gap = mem["risk"].gap
        /\ local.list = Tail(mem["risk"].list)
    BY <1>0, ClearIs
  <2> HIDE DEF local
  <2>4. \A v \in Liquidators : /\ mem'[v].price \in Nat /\ mem'[v].gap \in Int
                               /\ mem'[v].list \in Seq(Ranked)
    BY <1>0, <1>1, <2>2, <2>3 DEF Money
  <2> QED BY <1>0, <1>2, <2>1, <2>4 DEF Money
<1> QED BY <1>3, <1>4

LEMMA AdlPayMoney ==
  ASSUME Money, Shapes, AdlPay
  PROVE  Money'
<1> DEFINE l == mem["risk"]
           e == Head(l.list)
           cut == CutPct(l.gap, e.pnl)
           coll == Pct(e.size \div Leverage, cut)
           took == Pct(e.pnl, cut)
           back == Floor0(coll + took - Lower(l.gap, e.pnl))
<1>0. "risk" \in Liquidators /\ DOMAIN mem = Liquidators /\ DOMAIN mem["risk"] = DOMAIN Clear
      /\ step["risk"] = "adlpay" /\ l.list # << >> /\ l.gap \in Int
  BY DEF Shapes, Liquidators, AdlPay, Money
<1>1. e \in Ranked /\ Tail(l.list) \in Seq(Ranked)
  BY <1>0, EntryIs
<1>2. UNCHANGED <<row, mark, ranks, ranker>>
  BY DEF AdlPay
<1>3. e.size \in Nat /\ e.pnl \in Nat \ {0} /\ e.size \div Leverage \in Nat
  BY <1>1, CollIs DEF Ranked
<1>4. cut \in 0..100
  BY <1>0, <1>3, CutIs
<1>5. coll \in Nat /\ took \in Nat
  <2> HIDE DEF e, l, cut
  <2>1. coll \in 0..(e.size \div Leverage) /\ took \in 0..e.pnl
    BY <1>3, <1>4, PctLess
  <2> QED BY <1>3, <2>1
<1>6. back \in Nat
  <2> HIDE DEF e, l, coll, took
  <2> QED BY SMTT(30), <1>0, <1>3, <1>5 DEF Floor0, Lower
<1>7. Settle(e.user, coll, back)
  BY DEF AdlPay
<1>8. avail' \in [Users -> Int] /\ hold' \in [Users -> Nat]
  <2>1. PICK u, a, b : u = e.user /\ a = coll /\ b = back
    OBVIOUS
  <2>2. a \in Int /\ b \in Int
    <3> HIDE DEF coll, back
    <3> QED BY SMTT(30), <1>5, <1>6, <2>1
  <2>3. Settle(u, a, b)
    BY Zenon, <1>7, <2>1
  <2> QED BY <2>2, <2>3, SettleTypes
<1> DEFINE local == [mem["risk"] EXCEPT !.gap = @ - took, !.list = Tail(@)]
<1>9. mem' = [mem EXCEPT !["risk"] = local] /\ step' = [step EXCEPT !["risk"] = "adl"]
  <2>1. mem' = [mem EXCEPT !["risk"].gap = @ - took, !["risk"].list = Tail(@)]
    BY DEF AdlPay
  <2> HIDE DEF took
  <2> QED BY <1>0, <2>1 DEF AdlPay, Next1
<1>10. local.price = l.price /\ local.gap = l.gap - took /\ local.list = Tail(l.list)
  <2> HIDE DEF took
  <2> QED BY <1>0, ClearIs
<1> HIDE DEF local, l, took, e
<1>11. local.price \in Nat /\ local.gap \in Int /\ local.list \in Seq(Ranked)
  BY <1>0, <1>1, <1>5, <1>10 DEF Money, l
<1>12. \A v \in Liquidators : /\ mem'[v].price \in Nat /\ mem'[v].gap \in Int
                              /\ mem'[v].list \in Seq(Ranked)
  BY <1>0, <1>9, <1>11 DEF Money
<1>13. step'["risk"] = "adl"
  BY <1>0, <1>9 DEF Shapes
<1> QED BY <1>2, <1>8, <1>12, <1>13 DEF Money

\* Part of a position is less of it.
LEMMA LessRow ==
  ASSUME NEW r \in RowT, NEW status \in {"open", "closed"},
         NEW n \in 0..r.tokens, NEW a \in 0..r.size, NEW b \in 0..r.coll
  PROVE  [r EXCEPT !.status = status, !.tokens = @ - n, !.size = @ - a, !.coll = @ - b] \in RowT
<1>1. PICK t \in Nat, s \in Nat, c \in Nat : t = r.tokens - n /\ s = r.size - a /\ c = r.coll - b
  <2>1. r.tokens - n \in Nat /\ r.size - a \in Nat /\ r.coll - b \in Nat
    BY DEF RowT
  <2> QED BY <2>1
<1>2. [r EXCEPT !.status = status, !.tokens = @ - n, !.size = @ - a, !.coll = @ - b]
        = [r EXCEPT !.status = status, !.tokens = t, !.size = s, !.coll = c]
  BY <1>1 DEF RowT
<1>3. [r EXCEPT !.status = status, !.tokens = t, !.size = s, !.coll = c] \in RowT
  BY <1>1 DEF RowT
<1> QED BY <1>2, <1>3

LEMMA CloseMoney ==
  ASSUME Money, Shapes, NEW u \in Users, NEW n \in 1..Book[u].tokens, ClosePart(u, n)
  PROVE  Money'
<1> DEFINE r == row[u]
<1>1. r \in RowT /\ r.tokens \in Nat /\ r.size \in Nat /\ r.coll \in Nat /\ n \in 1..r.tokens
      /\ mark \in Nat /\ r.tokens \in Nat \ {0}
  BY DEF Money, RowT, ClosePart
<1> DEFINE share(x) == (x * n) \div r.tokens
           pays == Floor0(share(r.coll) + share(PnlAt(r, mark)))
<1>2. share(r.size) \in 0..r.size /\ share(r.coll) \in 0..r.coll
  <2>1. n \in 0..r.tokens
    BY <1>1
  <2> HIDE DEF r
  <2> QED BY <1>1, <2>1, ShareLess
<1>3. share(PnlAt(r, mark)) \in Int
  <2>1. PnlAt(r, mark) \in Int
    BY <1>1, NumbersOf
  <2>2. PICK p \in Int : p = PnlAt(r, mark)
    BY <2>1
  <2>3. PICK q \in Int : q = p * n
    BY <1>1
  <2>4. q \div r.tokens \in Int
    BY <1>1
  <2> QED BY <2>2, <2>3, <2>4
<1>4. pays \in Nat
  <2>1. PICK a \in Int, b \in Int : a = share(r.coll) /\ b = share(PnlAt(r, mark))
    BY <1>1, <1>2, <1>3
  <2> QED BY <2>1 DEF Floor0
<1>5. BufferOf(share(r.size)) \in Nat
  <2>1. PICK s \in Nat : s = share(r.size)
    BY <1>1, <1>2
  <2> QED BY <2>1, RateAssumption DEF BufferOf
<1>6. Settle(u, share(r.coll) + BufferOf(share(r.size)), pays)
  BY DEF ClosePart
<1>7. avail' \in [Users -> Int] /\ hold' \in [Users -> Nat]
  <2>1. PICK a \in Int, b \in Int : Settle(u, a, b)
    <3>1. share(r.coll) \in Nat
      BY <1>1, <1>2
    <3>2. PICK a, b : a = share(r.coll) + BufferOf(share(r.size)) /\ b = pays
      OBVIOUS
    <3>3. a \in Int /\ b \in Int
      <4> HIDE DEF share, pays
      <4> QED BY <1>4, <1>5, <3>1, <3>2
    <3>4. Settle(u, a, b)
      BY <1>6, <3>2
    <3> QED BY <3>3, <3>4
  <2> QED BY <2>1, SettleTypes
<1>8. row' \in [Users -> RowT]
  <2>1. row' = [row EXCEPT ![u] = [r EXCEPT
                  !.status = IF n = r.tokens THEN "closed" ELSE "open",
                  !.tokens = @ - n, !.size = @ - share(r.size), !.coll = @ - share(r.coll)]]
    BY DEF ClosePart
  <2> HIDE DEF share
  <2>2. PICK a, b : a = share(r.size) /\ b = share(r.coll)
    OBVIOUS
  <2>3. n \in 0..r.tokens /\ a \in 0..r.size /\ b \in 0..r.coll
    BY <1>1, <1>2, <2>2
  <2>4. PICK status \in {"open", "closed"} : row' = [row EXCEPT ![u] = [r EXCEPT
          !.status = status, !.tokens = @ - n, !.size = @ - a, !.coll = @ - b]]
    BY <2>1, <2>2
  <2> HIDE DEF r
  <2>5. [r EXCEPT !.status = status, !.tokens = @ - n, !.size = @ - a, !.coll = @ - b] \in RowT
    BY Zenon, <1>1, <2>3, LessRow
  <2> QED BY <2>4, <2>5 DEF Money
<1>9. UNCHANGED <<mark, ranks, ranker, mem, step>>
  BY DEF ClosePart
<1> QED BY <1>7, <1>8, <1>9 DEF Money

\* The ranking holds what it read.
LEMMA RankMoney ==
  ASSUME Money, Shapes, Ranking
  PROVE  Money'
<1> USE DEF rowsAndMoney
<1>0. UNCHANGED <<row, avail, hold, mark, mem, step>>
  BY DEF Ranking, RankRead, RankWrite
<1>1. CASE RankRead
  <2> DEFINE ranked == {x \in Users : IsOpen(x) /\ row[x].tokens > 0 /\ RankPnl(row[x]) > 0}
             entry(u) == [user |-> u, side |-> row[u].side, size |-> row[u].size,
                          pnl |-> RankPnl(row[u]),
                          score |-> (100 * RankPnl(row[u])) \div Higher(row[u].coll, 1)]
  <2>1. ASSUME NEW u \in ranked PROVE entry(u) \in Ranked
    <3>1. PICK r \in RowT : r = row[u] /\ r.tokens > 0 /\ RankPnl(r) > 0
      BY DEF Money
    <3>2. r.tokens \in Nat \ {0} /\ r.size \in Nat /\ r.coll \in Nat /\ mark \in Nat
          /\ r.side \in {"long", "short"}
      BY <3>1 DEF RowT, Money
    <3>3. RankPnl(r) \in Int
      <4>1. PICK n \in Nat : n = r.size \div r.tokens
        BY <3>2
      <4>2. PICK a \in Int, b \in Int : a = mark - n /\ b = n - mark
        BY <3>2, <4>1
      <4>3. a * r.size \in Int /\ b * r.size \in Int
        BY <3>2, <4>2
      <4> QED BY <4>1, <4>2, <4>3 DEF RankPnl
    <3>4. PICK p \in Nat \ {0} : p = RankPnl(r)
      BY <3>1, <3>3
    <3>5. Higher(r.coll, 1) \in Nat \ {0}
      BY <3>2 DEF Higher
    <3>6. PICK h \in Nat \ {0} : h = Higher(r.coll, 1)
      BY <3>5
    <3>7. (100 * p) \div h \in Int
      BY <3>4, <3>6
    <3> QED BY <3>1, <3>2, <3>4, <3>6, <3>7 DEF Ranked
  <2>2. ranker' = [busy |-> TRUE, runs |-> ranker.runs + 1, seen |-> {entry(u) : u \in ranked}]
    BY <1>1 DEF RankRead
  <2> HIDE DEF entry, ranked
  <2>3. ranker'.seen \subseteq Ranked /\ DOMAIN ranker' = {"busy", "seen", "runs"}
    BY <2>1, <2>2
  <2>4. UNCHANGED ranks
    BY <1>1 DEF RankRead
  <2>5. ranked \subseteq Users
    BY DEF ranked
  <2>6. IsFiniteSet({entry(u) : u \in ranked})
    <3>1. IsFiniteSet(ranked)
      BY <2>5, BookAssumption, FS_Subset
    <3>2. PICK f : f = [u \in ranked |-> entry(u)]
      OBVIOUS
    <3>3. {entry(u) : u \in ranked} = {f[u] : u \in ranked}
      BY <3>2
    <3>4. f \in Surjection(ranked, {f[u] : u \in ranked})
      BY <3>2 DEF Surjection
    <3> QED BY <3>1, <3>3, <3>4, FS_Surjection
  <2> QED BY <1>0, <2>2, <2>3, <2>4, <2>6 DEF Money
<1>2. CASE RankWrite
  <2>1. ranker' = [ranker EXCEPT !.busy = FALSE, !.seen = {}]
    BY <1>2 DEF RankWrite
  <2>2. ranker'.seen \subseteq Ranked /\ DOMAIN ranker' = {"busy", "seen", "runs"}
        /\ ranker'.seen = {} /\ IsFiniteSet(ranker'.seen)
    BY <2>1, FS_EmptySet DEF Money
  <2>3. PICK long \in SetToSeqs({e \in ranker.seen : e.side = "long"}),
             short \in SetToSeqs({e \in ranker.seen : e.side = "short"}) :
          ranks' = [s \in {"long", "short"} |-> IF s = "long" THEN long ELSE short]
    BY <1>2 DEF RankWrite, Replaced
  <2>4. long \in Seq(Ranked) /\ short \in Seq(Ranked)
    <3>1. ASSUME NEW side \in {"long", "short"}
          PROVE  /\ {e \in ranker.seen : e.side = side} \in SUBSET Ranked
                 /\ IsFiniteSet({e \in ranker.seen : e.side = side})
      <4>1. {e \in ranker.seen : e.side = side} \subseteq ranker.seen
        OBVIOUS
      <4> QED BY <4>1, FS_Subset DEF Money
    <3> QED BY <2>3, <3>1, SomeOrder
  <2>5. ranks' \in [{"long", "short"} -> Seq(Ranked)]
    BY <2>3, <2>4
  <2> QED BY <1>0, <2>2, <2>5 DEF Money
<1> QED BY <1>1, <1>2 DEF Ranking

LEMMA PriceMoney ==
  ASSUME Money, NEW price \in Marks, MoveMark(price)
  PROVE  Money'
<1>1. mark' \in Nat
  BY RateAssumption DEF MoveMark
<1> QED BY <1>1 DEF MoveMark, rowsAndMoney, Money

\* The worker, and the users' orders.
LEMMA WorkerMoney ==
  ASSUME Money, Shapes, Known, Worker
  PROVE  Money'
<1> USE DEF liqVars, rowsAndMoney
<1>1. CASE TickBalances \/ TickPositions \/ TickEnd \/ CancelList \/ CancelFlip \/ CancelErrs
           \/ \E u \in Unified : Visit(u)
  BY Zenon, <1>1, QuietMoney DEF TickBalances, TickPositions, TickEnd, CancelList, CancelFlip, CancelErrs,
                            Visit
<1>2. CASE CancelRefund
  <2>1. UNCHANGED <<row, mark, ranks, ranker, mem, step>>
    BY <1>2 DEF CancelRefund
  <2>2. avail' \in [Users -> Int] /\ hold' \in [Users -> Nat]
    BY <1>2, OrderAssumption, SettleTypes DEF CancelRefund, Release
  <2> QED BY <2>1, <2>2 DEF Money
<1>3. CASE Forced
  <2>1. UNCHANGED <<row, avail, hold, mark, ranks, ranker>>
    BY <1>3 DEF Forced
  <2>2. CASE UNCHANGED <<step, mem>>
    BY <2>1, <2>2, QuietMoney
  <2>3. CASE LiquidateOne(tick.user) /\ tick.user \in Users
    <3> DEFINE local == [Clear EXCEPT !.user = tick.user, !.seen = row[tick.user], !.price = mark]
    <3>1. mem' = [mem EXCEPT !["risk"] = local] /\ step' = [step EXCEPT !["risk"] = "lock"]
      BY <2>3 DEF LiquidateOne, Next1
    <3>2. local.price = mark /\ local.gap = Clear.gap /\ local.list = Clear.list
          /\ local.seen = row[tick.user]
      BY ClearIs
    <3> HIDE DEF local
    <3>3. local.price \in Nat /\ local.gap \in Int /\ local.list \in Seq(Ranked)
          /\ local.seen \in RowT
      BY <2>3, <3>2, ClearMoney DEF Money
    <3> QED BY <2>1, <3>1, <3>3, MemMoney DEF Liquidators
  <2>4. tick.user \in Users
    BY <1>3 DEF Forced, Known, OnUser
  <2> QED BY <1>3, <2>2, <2>3, <2>4 DEF Forced
<1> QED BY SMTT(30), <1>1, <1>2, <1>3 DEF Worker

LEMMA OrderMoney ==
  ASSUME Money, NEW u \in Unified, PlaceGate(u) \/ PlaceInsert(u) \/ UserCancels(u)
  PROVE  Money'
<1> USE DEF liqVars, rowsAndMoney
<1>1. CASE PlaceGate(u)
  BY <1>1, QuietMoney DEF PlaceGate
<1>2. CASE PlaceInsert(u)
  <2>1. u \in Users /\ OrderMargin \in Nat
    BY RateAssumption, OrderAssumption
  <2>2. avail' = [avail EXCEPT ![u] = avail[u] - OrderMargin]
        /\ hold' = [hold EXCEPT ![u] = hold[u] + OrderMargin]
        /\ UNCHANGED <<row, mark, ranks, ranker, mem, step>>
    BY Zenon, <1>2 DEF PlaceInsert
  <2>3. avail[u] - OrderMargin \in Int /\ hold[u] + OrderMargin \in Nat
    BY <2>1 DEF Money
  <2> QED BY <2>1, <2>2, <2>3 DEF Money
<1>3. CASE UserCancels(u)
  <2>1. UNCHANGED <<row, mark, ranks, ranker, mem, step>>
    BY <1>3 DEF UserCancels
  <2>2. avail' \in [Users -> Int] /\ hold' \in [Users -> Nat]
    BY <1>3, OrderAssumption, SettleTypes DEF UserCancels, Release
  <2> QED BY <2>1, <2>2 DEF Money
<1> QED BY <1>1, <1>2, <1>3

LEMMA CrashMoney ==
  ASSUME Money, Crash
  PROVE  Money'
<1>1. /\ UNCHANGED <<row, avail, hold, mark, ranks>>
      /\ step' = [w \in Liquidators |-> "idle"] /\ mem' = [w \in Liquidators |-> Clear]
      /\ ranker' = [ranker EXCEPT !.busy = FALSE, !.seen = {}]
  BY DEF Crash, LiqCrash, rowsAndMoney
<1>2. DOMAIN ranker' = {"busy", "seen", "runs"} /\ ranker'.seen = {}
        /\ IsFiniteSet(ranker'.seen)
  BY <1>1, FS_EmptySet DEF Money
<1>3. step'["risk"] = "idle"
  BY <1>1 DEF Liquidators
<1>4. \A w \in Liquidators : /\ mem'[w].price \in Nat /\ mem'[w].gap \in Int
                             /\ mem'[w].list \in Seq(Ranked)
  <2>1. \A w \in Liquidators : mem'[w] = Clear
    BY <1>1
  <2>2. Clear.price \in Nat /\ Clear.gap \in Int /\ Clear.list \in Seq(Ranked)
    BY ClearMoney
  <2> QED BY <2>1, <2>2
<1> QED BY <1>1, <1>2, <1>3, <1>4 DEF Money

(***************************************************************************)
(* What the steps of the liquidations do to their own state.               *)
(***************************************************************************)

Labels == {"idle", "pick", "lock", "commit", "gap", "adl", "adlpay"}

Kept(w) == step'[w] = step[w] /\ mem'[w] = mem[w]

LEMMA ChangeOf ==
  ASSUME Shapes, NEW w \in Liquidators, NEW label, NEW local,
         step' = [step EXCEPT ![w] = label], mem' = [mem EXCEPT ![w] = local]
  PROVE  step'[w] = label /\ mem'[w] = local /\ \A v \in Liquidators : v # w => Kept(v)
BY DEF Shapes, Kept

LEMMA SweepEffects ==
  ASSUME Shapes, Sweep \/ Pick
  PROVE  /\ Kept("risk") /\ step'["sweep"] \in {"idle", "pick", "lock"}
         /\ mem'["sweep"].cap \in {0, mem["sweep"].cap}
         /\ UNCHANGED <<row, locked, fund, cases, reduced, lost, ranks, ranker>>
<1> USE DEF rowsAndMoney
<1>0. "sweep" \in Liquidators /\ "risk" \in Liquidators
      /\ DOMAIN mem = Liquidators /\ DOMAIN mem["sweep"] = DOMAIN Clear
  BY DEF Shapes, Liquidators
<1>1. UNCHANGED <<row, locked, fund, cases, reduced, lost, ranks, ranker>>
  BY DEF Sweep, Pick
<1>2. CASE Sweep
  <2>1. PICK todo : mem' = [mem EXCEPT !["sweep"] = [Clear EXCEPT !.todo = todo, !.price = mark]]
    BY Zenon, <1>2 DEF Sweep
  <2> DEFINE local == [Clear EXCEPT !.todo = todo, !.price = mark]
  <2>2. local.cap = 0
    BY DEF Clear
  <2>3. mem' = [mem EXCEPT !["sweep"] = local] /\ step' = [step EXCEPT !["sweep"] = "pick"]
    BY <1>2, <2>1 DEF Sweep, Next1
  <2> HIDE DEF local
  <2> QED BY <1>0, <1>1, <2>2, <2>3, ChangeOf
<1>3. CASE Pick /\ mem["sweep"].todo = {}
  <2>1. step' = [step EXCEPT !["sweep"] = "idle"] /\ mem' = [mem EXCEPT !["sweep"] = Clear]
    BY <1>3 DEF Pick, Reset, Next1
  <2>2. Clear.cap = 0
    BY DEF Clear
  <2> QED BY <1>0, <1>1, <2>1, <2>2, ChangeOf
<1>4. CASE Pick /\ mem["sweep"].todo # {}
  <2>1. PICK v : /\ mem' = [mem EXCEPT !["sweep"].todo = @ \ {v}, !["sweep"].user = v]
                 /\ step' = [step EXCEPT !["sweep"] = "lock"]
    BY <1>4 DEF Pick, Next1
  <2> DEFINE local == [mem["sweep"] EXCEPT !.todo = @ \ {v}, !.user = v]
  <2>2. mem' = [mem EXCEPT !["sweep"] = local]
    BY <1>0, <2>1
  <2>3. local.cap = mem["sweep"].cap
    BY <1>0, ClearIs
  <2> HIDE DEF local
  <2>4. step'["sweep"] = "lock" /\ mem'["sweep"] = local /\ Kept("risk")
    BY <1>0, <2>1, <2>2, ChangeOf
  <2> QED BY <1>1, <2>3, <2>4
<1> QED BY <1>2, <1>3, <1>4

LEMMA LockEffects ==
  ASSUME Shapes, NEW w \in Liquidators, LockPosition(w)
  PROVE  /\ \A v \in Liquidators : v # w => Kept(v)
         /\ step[w] = "lock"
         /\ UNCHANGED <<row, fund, cases, reduced, lost, ranks, ranker>>
         /\ \/ /\ step'[w] = "commit" /\ mem'[w].user = mem[w].user
               /\ IsOpen(mem[w].user) /\ mem'[w].list = mem[w].list
               /\ mem'[w].cap = IF RemainingAt(row[mem[w].user], mem[w].price) < 0
                                THEN Pct(fund.balance, FundCapPct) ELSE 0
            \/ step'[w] = After(w) /\ mem' = mem
<1> USE DEF rowsAndMoney
<1>0. DOMAIN mem = Liquidators /\ DOMAIN mem[w] = DOMAIN Clear
  BY DEF Shapes
<1>1. UNCHANGED <<row, fund, cases, reduced, lost, ranks, ranker>> /\ step[w] = "lock"
  BY DEF LockPosition
<1>2. CASE StillOpenRow(row[mem[w].user])
  <2>1. PICK cap : /\ cap = IF RemainingAt(row[mem[w].user], mem[w].price) < 0
                            THEN Pct(fund.balance, FundCapPct) ELSE 0
                   /\ mem' = [mem EXCEPT ![w].cap = cap]
                   /\ step' = [step EXCEPT ![w] = "commit"]
    BY <1>2 DEF LockPosition, Next1
  <2> DEFINE local == [mem[w] EXCEPT !.cap = cap]
  <2>2. mem' = [mem EXCEPT ![w] = local]
    BY <1>0, <2>1
  <2>3. local.cap = cap /\ local.user = mem[w].user /\ local.list = mem[w].list
    BY <1>0, ClearIs
  <2>4. IsOpen(mem[w].user)
    BY <1>2 DEF StillOpenRow, IsOpen
  <2> HIDE DEF local
  <2>5. step'[w] = "commit" /\ mem'[w] = local /\ \A v \in Liquidators : v # w => Kept(v)
    BY <2>1, <2>2, ChangeOf
  <2> QED BY <1>1, <2>1, <2>3, <2>4, <2>5
<1>3. CASE ~StillOpenRow(row[mem[w].user])
  <2>1. mem' = mem /\ step' = [step EXCEPT ![w] = After(w)]
    BY <1>3 DEF LockPosition, Next1
  <2> QED BY <1>1, <2>1 DEF Shapes, Kept
<1> QED BY <1>2, <1>3

\* What a liquidation pays from the fund.
PaidBy(w) ==
    LET rest == RemainingAt(row[mem[w].user], mem[w].price) IN
    IF rest < 0 THEN FundPays(-rest, mem[w].cap) ELSE 0

LEMMA CommitEffects ==
  ASSUME Shapes, NEW w \in Liquidators, CommitLiquidation(w)
  PROVE  LET u == mem[w].user IN
         /\ \A v \in Liquidators : v # w => Kept(v)
         /\ step[w] = "commit" /\ step'[w] = (IF w = "sweep" THEN "pick" ELSE "gap")
         /\ mem'[w].user = u /\ mem'[w].cap = mem[w].cap /\ mem'[w].list = mem[w].list
         /\ UNCHANGED <<reduced, lost, ranks, ranker>>
         /\ fund' = [balance |-> fund.balance + Contribution(row[u]) - PaidBy(w),
                     in |-> fund.in + Contribution(row[u]), out |-> fund.out + PaidBy(w)]
         /\ \E n, b : cases' = [cases EXCEPT ![u] =
                          [cases[u] EXCEPT !.times = n, !.bad = b, !.paid = PaidBy(w)]]
         /\ \E r : row' = [row EXCEPT ![u] = [r EXCEPT !.status = "liquidated"]]
<1> DEFINE u == mem[w].user
<1>0. DOMAIN mem = Liquidators /\ DOMAIN mem[w] = DOMAIN Clear
  BY SMTT(30) DEF Shapes
<1>1. PICK g, n : mem' = [mem EXCEPT ![w].gap = g, ![w].contributed = n]
  BY DEF CommitLiquidation
<1> DEFINE local == [mem[w] EXCEPT !.gap = g, !.contributed = n]
<1>2. mem' = [mem EXCEPT ![w] = local]
  BY <1>0, <1>1
<1>3. local.user = u /\ local.cap = mem[w].cap /\ local.list = mem[w].list
  BY <1>0, ClearIs
<1> HIDE DEF local
<1>4. step' = [step EXCEPT ![w] = IF w = "sweep" THEN "pick" ELSE "gap"]
  BY DEF CommitLiquidation, Next1
<1>5. \E r : row' = [row EXCEPT ![u] = [r EXCEPT !.status = "liquidated"]]
  <2>1. [row[u] EXCEPT !.status = "liquidated", !.tokens = 0, !.size = 0, !.coll = 0]
        = [[row[u] EXCEPT !.tokens = 0, !.size = 0, !.coll = 0] EXCEPT !.status = "liquidated"]
    OBVIOUS
  <2> QED BY <2>1 DEF CommitLiquidation
<1>6. \E m, b : cases' = [cases EXCEPT ![u] =
                          [cases[u] EXCEPT !.times = m, !.bad = b, !.paid = PaidBy(w)]]
  BY Zenon DEF CommitLiquidation, PaidBy
<1>7. /\ fund' = [balance |-> fund.balance + Contribution(row[u]) - PaidBy(w),
                  in |-> fund.in + Contribution(row[u]), out |-> fund.out + PaidBy(w)]
      /\ UNCHANGED <<reduced, lost, ranks, ranker>> /\ step[w] = "commit"
  BY DEF CommitLiquidation, PaidBy
<1>8. step'[w] = (IF w = "sweep" THEN "pick" ELSE "gap")
      /\ mem'[w] = local /\ \A v \in Liquidators : v # w => Kept(v)
  BY <1>2, <1>4, ChangeOf
<1> QED BY Zenon, <1>3, <1>5, <1>6, <1>7, <1>8

LEMMA GapEffects ==
  ASSUME Shapes, Gap \/ AdlDone
  PROVE  /\ Kept("sweep") /\ step["risk"] \in {"gap", "adl"}
         /\ UNCHANGED <<row, locked, fund, cases, reduced, lost, ranks, ranker>>
         /\ \/ step'["risk"] = "idle" /\ mem'["risk"] = Clear
            \/ /\ step["risk"] = "gap" /\ step'["risk"] = "adl"
               /\ mem'["risk"].user = mem["risk"].user /\ mem'["risk"].cap = mem["risk"].cap
               /\ LET all == ranks[Opp(row[mem["risk"].user].side)] IN
                  mem'["risk"].list = SubSeq(all, 1, Lower(MaxPerAdl, Len(all)))
<1> USE DEF rowsAndMoney
<1>0. "sweep" \in Liquidators /\ "risk" \in Liquidators
      /\ DOMAIN mem = Liquidators /\ DOMAIN mem["risk"] = DOMAIN Clear
  BY DEF Shapes, Liquidators
<1>1. UNCHANGED <<row, locked, fund, cases, reduced, lost, ranks, ranker>>
      /\ step["risk"] \in {"gap", "adl"}
  BY DEF Gap, AdlDone
<1>2. CASE step' = [step EXCEPT !["risk"] = "idle"] /\ mem' = [mem EXCEPT !["risk"] = Clear]
  BY ZenonT(40), <1>0, <1>1, <1>2, ChangeOf
<1>3. CASE \E gap, list :
             /\ step["risk"] = "gap"
             /\ LET all == ranks[Opp(row[mem["risk"].user].side)] IN
                list = SubSeq(all, 1, Lower(MaxPerAdl, Len(all)))
             /\ mem' = [mem EXCEPT !["risk"].gap = gap, !["risk"].list = list]
             /\ step' = [step EXCEPT !["risk"] = "adl"]
  <2>1. PICK gap, list :
             /\ step["risk"] = "gap"
             /\ LET all == ranks[Opp(row[mem["risk"].user].side)] IN
                list = SubSeq(all, 1, Lower(MaxPerAdl, Len(all)))
             /\ mem' = [mem EXCEPT !["risk"].gap = gap, !["risk"].list = list]
             /\ step' = [step EXCEPT !["risk"] = "adl"]
    BY Zenon, <1>3
  <2> DEFINE local == [mem["risk"] EXCEPT !.gap = gap, !.list = list]
  <2>2. mem' = [mem EXCEPT !["risk"] = local]
    BY Zenon, <1>0, <2>1
  <2>3. local.user = mem["risk"].user /\ local.cap = mem["risk"].cap /\ local.list = list
    BY <1>0, ClearIs
  <2> HIDE DEF local
  <2>4. step'["risk"] = "adl" /\ mem'["risk"] = local /\ Kept("sweep")
    BY ZenonT(40), <1>0, <2>1, <2>2, ChangeOf
  <2> QED BY Zenon, <1>1, <2>1, <2>3, <2>4
<1>4. CASE AdlDone
  BY <1>2, <1>4 DEF AdlDone, Reset, Next1
<1>5. CASE Gap
  BY Zenon, <1>2, <1>3, <1>5 DEF Gap, Reset, Next1
<1> QED BY <1>4, <1>5

LEMMA AdlReduceEffects ==
  ASSUME Shapes, AdlReduce
  PROVE  /\ Kept("sweep") /\ step["risk"] = "adl" /\ mem["risk"].list # << >>
         /\ UNCHANGED <<locked, fund, cases, reduced, ranks, ranker>>
         /\ lost' \subseteq lost \cup {"stale rank"} /\ lost \subseteq lost'
         /\ mem'["risk"].user = mem["risk"].user /\ mem'["risk"].cap = mem["risk"].cap
         /\ \/ step'["risk"] = "adlpay" /\ mem' = mem
            \/ /\ step'["risk"] = "adl" /\ mem'["risk"].list = Tail(mem["risk"].list)
               /\ row' = row
<1>0. "sweep" \in Liquidators /\ "risk" \in Liquidators
      /\ DOMAIN mem = Liquidators /\ DOMAIN mem["risk"] = DOMAIN Clear
  BY DEF Shapes, Liquidators
<1>1. UNCHANGED <<locked, fund, cases, reduced, ranks, ranker>>
      /\ step["risk"] = "adl" /\ mem["risk"].list # << >>
  BY Zenon DEF AdlReduce
<1> DEFINE e == Head(mem["risk"].list)
<1>2. CASE ReduceGuard(e.user)
  <2>1. step' = [step EXCEPT !["risk"] = "adlpay"] /\ mem' = mem
        /\ lost' \in {lost, lost \cup {"stale rank"}}
    BY Zenon, <1>2 DEF AdlReduce, Next1
  <2> QED BY Zenon, <1>0, <1>1, <2>1 DEF Shapes, Kept, Liquidators
<1>3. CASE ~ReduceGuard(e.user)
  <2>1. mem' = [mem EXCEPT !["risk"].list = Tail(@)] /\ step' = step /\ lost' = lost /\ row' = row
    BY <1>3 DEF AdlReduce
  <2> DEFINE local == [mem["risk"] EXCEPT !.list = Tail(@)]
  <2>2. mem' = [mem EXCEPT !["risk"] = local]
    BY <1>0, <2>1
  <2>3. local.user = mem["risk"].user /\ local.cap = mem["risk"].cap
        /\ local.list = Tail(mem["risk"].list)
    BY <1>0, ClearIs
  <2> HIDE DEF local
  <2>4. mem'["risk"] = local /\ mem'["sweep"] = mem["sweep"]
    BY <1>0, <2>2
  <2> QED BY Zenon, <1>1, <2>1, <2>3, <2>4 DEF Kept
<1> QED BY Zenon, <1>2, <1>3

LEMMA AdlPayEffects ==
  ASSUME Shapes, AdlPay
  PROVE  /\ Kept("sweep") /\ step["risk"] = "adlpay" /\ step'["risk"] = "adl"
         /\ UNCHANGED <<row, locked, fund, lost, ranks, ranker>>
         /\ mem'["risk"].user = mem["risk"].user /\ mem'["risk"].cap = mem["risk"].cap
         /\ mem'["risk"].list = Tail(mem["risk"].list)
         /\ reduced' = Append(reduced, [victim |-> mem["risk"].user,
                                user |-> Head(mem["risk"].list).user, need |-> mem["risk"].gap])
         /\ \E n : cases' = [cases EXCEPT ![mem["risk"].user].taken = n]
<1>0. "sweep" \in Liquidators /\ "risk" \in Liquidators
      /\ DOMAIN mem = Liquidators /\ DOMAIN mem["risk"] = DOMAIN Clear
  BY DEF Shapes, Liquidators
<1>1. UNCHANGED <<row, locked, fund, lost, ranks, ranker>> /\ step["risk"] = "adlpay"
  BY DEF AdlPay
<1>2. PICK took : /\ mem' = [mem EXCEPT !["risk"].gap = @ - took, !["risk"].list = Tail(@)]
                  /\ cases' = [cases EXCEPT ![mem["risk"].user].taken = @ + took]
  BY Zenon DEF AdlPay
<1> DEFINE local == [mem["risk"] EXCEPT !.gap = @ - took, !.list = Tail(@)]
<1>3. mem' = [mem EXCEPT !["risk"] = local]
  BY <1>0, <1>2
<1>4. local.user = mem["risk"].user /\ local.cap = mem["risk"].cap
      /\ local.list = Tail(mem["risk"].list)
  BY <1>0, ClearIs
<1> HIDE DEF local
<1>5. step' = [step EXCEPT !["risk"] = "adl"]
      /\ reduced' = Append(reduced, [victim |-> mem["risk"].user,
                             user |-> Head(mem["risk"].list).user, need |-> mem["risk"].gap])
  BY DEF AdlPay, Next1
<1>6. \E n : cases' = [cases EXCEPT ![mem["risk"].user].taken = n]
  BY <1>2
<1> QED BY <1>0, <1>1, <1>3, <1>4, <1>5, <1>6, ChangeOf

(***************************************************************************)
(* The worker and the orders.                                              *)
(***************************************************************************)

\* Nothing disturbed that the order of the worker's steps depends on.
Undisturbed == lost \cap LeavesOrder = {}

\* The worker's task: where it is, and what it knows of the accounts.
Task ==
    /\ step \in [Liquidators -> Labels]
    /\ locked \subseteq Users
    /\ account \in [Unified -> {"normal", "warning"} \cup Restricted]
    /\ order \in [Unified -> {"none", "checked", "open", "cancelled"}]
    /\ DOMAIN released = Unified
    /\ tick.phase \in {"idle", "read", "visit"} \cup OnUser
    /\ lost \subseteq Disturbances
    /\ tick.phase = "read" => tick.prev = account
    /\ tick.phase \in {"visit"} \cup OnUser =>
          tick.todo \subseteq Unified /\ \A u \in tick.todo : tick.prev[u] = account[u]
    /\ tick.phase \in OnUser =>
          /\ tick.user \in Unified /\ tick.user \notin tick.todo
          /\ account[tick.user] = tick.new /\ tick.new \in Restricted
          /\ step["risk"] = "idle"
    /\ tick.phase = "liquidate" => tick.new = "liquidating"
    /\ step["risk"] # "idle" => /\ mem["risk"].user \in Unified
                                /\ account[mem["risk"].user] \in Restricted

\* A restricted account has no open order, or the worker is about to cancel it.
Cleared ==
    Undisturbed => \A u \in Unified :
        account[u] \in Restricted /\ order[u] = "open"
            => tick.phase \in {"list", "flip"} /\ tick.user = u

\* The margin is on its way back.
Returning ==
    lost \cap WrongRelease = {} /\ tick.phase = "refund" =>
        order[tick.user] = "cancelled" /\ released[tick.user] = 0

OrderInv == Task /\ Cleared /\ Returning /\ ReleasedOnce

TickFields == {"phase", "todo", "prev", "wallet", "rows", "price", "user", "new"}

LEMMA OneMore ==
  ASSUME NEW n, n = 0
  PROVE  n + 1 = 1
OBVIOUS

LEMMA LockedKnown ==
  ASSUME RiskInv, locked \subseteq Users, [RiskNext]_riskVars
  PROVE  locked' \subseteq Users
<1> USE DEF rowsAndMoney, liqVars, riskOnly
<1>1. CASE UNCHANGED riskVars
  BY <1>1 DEF riskVars
<1>2. CASE \E w \in Liquidators : LockPosition(w)
  BY <1>2 DEF LockPosition, RiskInv, Known
<1>3. CASE \E w \in Liquidators : CommitLiquidation(w)
  BY SMTT(30), <1>3 DEF CommitLiquidation
<1>4. CASE Sweep \/ Pick \/ Gap \/ AdlDone \/ AdlReduce \/ AdlPay
  BY Zenon, <1>4 DEF Sweep, Pick, Gap, AdlDone, AdlReduce, AdlPay
<1>5. CASE Ranking
  BY SMTT(30), <1>5 DEF Ranking, RankRead, RankWrite
<1>6. CASE People
  BY Zenon, <1>6 DEF People, MoveMark, ClosePart
<1>7. CASE Worker
  BY Zenon, <1>7 DEF Worker, TickBalances, TickPositions, TickEnd, Visit, CancelList, CancelFlip,
              CancelRefund, CancelErrs, Forced
<1>8. CASE \E u \in Unified : PlaceGate(u) \/ PlaceInsert(u) \/ UserCancels(u)
  BY Zenon, <1>8 DEF PlaceGate, PlaceInsert, UserCancels
<1>9. CASE Crash
  BY <1>9 DEF Crash, LiqCrash
<1> QED BY <1>1, <1>2, <1>3, <1>4, <1>5, <1>6, <1>7, <1>8, <1>9 DEF RiskNext, Closing

\* A liquidation goes on with the user it started with, and only the worker starts one.
LEMMA ClosingGoesOn ==
  ASSUME RiskInv, Task, Closing
  PROVE  /\ step' \in [Liquidators -> Labels]
         /\ step'["risk"] # "idle" => step["risk"] # "idle" /\ mem'["risk"].user = mem["risk"].user
         /\ lost' \subseteq lost \cup {"stale rank"} /\ lost \subseteq lost'
<1>0. Shapes /\ "risk" \in Liquidators /\ "sweep" \in Liquidators
  BY DEF RiskInv, Liquidators
<1>1. step' \in [Liquidators -> Labels]
  <2>1. step' = step \/ \E w \in Liquidators, label \in Labels : step' = [step EXCEPT ![w] = label]
    BY Zenon, <1>0 DEF Closing, Sweep, Pick, LockPosition, CommitLiquidation, Gap, AdlDone, AdlReduce,
                AdlPay, Reset, Next1, After, Labels
  <2> QED BY ZenonT(40), <2>1 DEF Task
<1>2. CASE Sweep \/ Pick
  BY Zenon, <1>0, <1>1, <1>2, SweepEffects DEF Kept
<1>3. ASSUME NEW w \in Liquidators, LockPosition(w)
      PROVE  /\ step'["risk"] # "idle" =>
                  step["risk"] # "idle" /\ mem'["risk"].user = mem["risk"].user
             /\ lost' = lost
  <2>1. CASE w = "sweep"
    BY <1>0, <1>3, <2>1, LockEffects DEF Kept
  <2>2. CASE w = "risk"
    BY <1>0, <1>3, <2>2, LockEffects DEF After
  <2> QED BY <2>1, <2>2 DEF Liquidators
<1>4. ASSUME NEW w \in Liquidators, CommitLiquidation(w)
      PROVE  /\ step'["risk"] # "idle" =>
                  step["risk"] # "idle" /\ mem'["risk"].user = mem["risk"].user
             /\ lost' = lost
  <2>1. CASE w = "sweep"
    BY Zenon, <1>0, <1>4, <2>1, CommitEffects DEF Kept
  <2>2. CASE w = "risk"
    BY Zenon, <1>0, <1>4, <2>2, CommitEffects
  <2> QED BY <2>1, <2>2 DEF Liquidators
<1>5. CASE Gap \/ AdlDone
  BY Zenon, <1>0, <1>1, <1>5, GapEffects
<1>6. CASE AdlReduce
  BY Zenon, <1>0, <1>1, <1>6, AdlReduceEffects
<1>7. CASE AdlPay
  BY Zenon, <1>0, <1>1, <1>7, AdlPayEffects
<1> QED BY Zenon, <1>1, <1>2, <1>3, <1>4, <1>5, <1>6, <1>7 DEF Closing

\* Steps that leave the worker, the accounts and the orders as they are.
LEMMA ElsewhereOrders ==
  ASSUME OrderInv, UNCHANGED riskOnly, locked' \subseteq Users,
         step' \in [Liquidators -> Labels],
         step'["risk"] # "idle" => step["risk"] # "idle" /\ mem'["risk"].user = mem["risk"].user,
         lost' \subseteq lost \cup {"stale rank"}, lost \subseteq lost'
  PROVE  OrderInv'
<1> USE DEF OrderInv, riskOnly
<1>1. Task'
  <2>1. tick.phase \in OnUser => step'["risk"] = "idle"
    BY Zenon DEF Task
  <2>2. lost' \subseteq Disturbances
    BY Zenon DEF Task, Disturbances, LeavesOrder, WrongRelease
  <2> QED BY Zenon, <2>1, <2>2 DEF Task
<1>2. \A x \in LeavesOrder \cup WrongRelease : x \in lost' <=> x \in lost
  BY Zenon DEF LeavesOrder, WrongRelease
<1>5. lost' \cap LeavesOrder = {} <=> lost \cap LeavesOrder = {}
  BY Zenon, <1>2
<1>6. lost' \cap WrongRelease = {} <=> lost \cap WrongRelease = {}
  BY Zenon, <1>2
<1>7. Cleared'
  BY Zenon, <1>5 DEF Cleared, Undisturbed
<1>8. Returning'
  BY Zenon, <1>6 DEF Returning
<1>9. ReleasedOnce'
  BY Zenon, <1>6 DEF ReleasedOnce
<1> QED BY Zenon, <1>1, <1>7, <1>8, <1>9

\* The worker moves on and touches no order.
LEMMA TickOrders ==
  ASSUME OrderInv, RiskInv,
         TickBalances \/ TickPositions \/ TickEnd \/ CancelList
  PROVE  OrderInv'
<1> USE DEF OrderInv, liqVars
<1>0. DOMAIN tick = TickFields /\ UNCHANGED <<account, order, released, step, mem, lost, locked>>
  BY ClearIs DEF RiskInv, Shapes, TickFields, TickBalances, TickPositions, TickEnd, CancelList
<1>1. \/ tick'.phase = "read" /\ tick'.prev = account /\ tick.phase = "idle"
      \/ /\ tick'.phase = "visit" /\ tick'.todo = Unified /\ tick'.prev = tick.prev
         /\ tick.phase = "read"
      \/ tick'.phase = "idle" /\ tick.phase = "visit"
      \/ /\ tick'.todo = tick.todo /\ tick'.prev = tick.prev /\ tick'.user = tick.user
         /\ tick'.new = tick.new /\ tick.phase = "list"
         /\ tick'.phase = IF order[tick.user] = "open" THEN "flip" ELSE AfterCancel
  <2>1. CASE TickBalances
    BY <1>0, <2>1 DEF TickBalances, TickFields
  <2>2. CASE TickPositions
    BY <1>0, <2>2 DEF TickPositions, TickFields
  <2>3. CASE TickEnd
    BY <2>3, ClearIs DEF TickEnd
  <2>4. CASE CancelList
    BY <1>0, <2>4 DEF CancelList, TickFields
  <2> QED BY <2>1, <2>2, <2>3, <2>4
<1>2. AfterCancel \in {"liquidate", "visit"} /\ (AfterCancel = "liquidate" => tick.new = "liquidating")
  BY DEF AfterCancel, Onward, WhileIn
<1>3. tick.phase = "list" => tick.user \in Unified
  BY Zenon DEF Task, OnUser
<1>4. Task'
  BY Zenon, <1>0, <1>1, <1>2 DEF Task, OnUser
<1>5. Cleared'
  BY Zenon, <1>0, <1>1, <1>3 DEF Cleared, Undisturbed
<1>6. Returning' /\ ReleasedOnce'
  BY Zenon, <1>0, <1>1, <1>2 DEF Returning, ReleasedOnce
<1> QED BY <1>4, <1>5, <1>6

LEMMA VisitOrders ==
  ASSUME OrderInv, RiskInv, NEW u \in Unified, Visit(u)
  PROVE  OrderInv'
<1> USE DEF OrderInv, liqVars
<1>0. DOMAIN tick = TickFields /\ UNCHANGED <<order, released, step, mem, lost, locked>>
      /\ tick.phase = "visit" /\ step["risk"] = "idle" /\ u \in tick.todo
  BY ClearIs DEF RiskInv, Shapes, TickFields, Visit, Quiet
<1>1. PICK new : /\ new = Classify(Equity(tick.wallet[u], tick.rows[u], tick.price),
                                   Maintenance(tick.rows[u]))
                 /\ account' = [account EXCEPT ![u] = new]
                 /\ tick' = [tick EXCEPT !.todo = @ \ {u}, !.user = u, !.new = new, !.phase =
                      IF tick.prev[u] # new /\ CancelsOrders(new) THEN "list"
                      ELSE Onward(tick.prev[u], new)]
  BY Zenon DEF Visit
<1>2. new \in {"normal", "warning"} \cup Restricted
  BY <1>1 DEF Classify, Restricted
<1>3. /\ tick'.todo = tick.todo \ {u} /\ tick'.user = u /\ tick'.new = new
      /\ tick'.prev = tick.prev
      /\ tick'.phase = IF tick.prev[u] # new /\ CancelsOrders(new) THEN "list"
                       ELSE IF new = "liquidating" THEN "liquidate" ELSE "visit"
  BY <1>0, <1>1 DEF TickFields, Onward, WhileIn
<1>4. tick.prev[u] = account[u] /\ CancelsOrders(new) = (new \in Restricted)
      /\ (new = "liquidating" => new \in Restricted)
  BY Zenon, <1>0 DEF Task, CancelsOrders, Restricted
<1>5. account'[u] = new /\ \A v \in Unified : v # u => account'[v] = account[v]
  BY Zenon, <1>1 DEF Task
<1>6. account' \in [Unified -> {"normal", "warning"} \cup Restricted]
  BY Zenon, <1>1, <1>2 DEF Task
<1>7. Task'
  BY Zenon, <1>0, <1>3, <1>4, <1>5, <1>6 DEF Task, OnUser
<1>8. Cleared'
  BY Zenon, <1>0, <1>3, <1>4, <1>5 DEF Cleared, Undisturbed
<1>9. Returning' /\ ReleasedOnce'
  BY Zenon, <1>0, <1>3 DEF Returning, ReleasedOnce
<1> QED BY <1>7, <1>8, <1>9

LEMMA FlipOrders ==
  ASSUME OrderInv, RiskInv, CancelFlip
  PROVE  OrderInv'
<1> USE DEF OrderInv, rowsAndMoney
<1> DEFINE u == tick.user
<1>0. DOMAIN tick = TickFields /\ UNCHANGED <<account, released, step, mem, locked>>
      /\ tick.phase = "flip"
  BY Zenon, ClearIs DEF RiskInv, Shapes, TickFields, CancelFlip
<1>1. /\ tick'.todo = tick.todo /\ tick'.prev = tick.prev /\ tick'.user = u
      /\ tick'.new = tick.new /\ tick'.phase = "refund"
  BY Zenon, <1>0 DEF CancelFlip, TickFields
<1>2. u \in Unified
  BY Zenon, <1>0 DEF Task, OnUser
<1>3. CASE order[u] = "open"
  <2>1. order' = [order EXCEPT ![u] = "cancelled"] /\ lost' = lost
    BY <1>3 DEF CancelFlip
  <2>2. order'[u] = "cancelled" /\ \A v \in Unified : v # u => order'[v] = order[v]
    BY Zenon, <1>2, <2>1 DEF Task
  <2>3. Task'
    BY Zenon, <1>0, <1>1, <1>2, <2>1 DEF Task, OnUser
  <2>4. Cleared'
    BY Zenon, <1>0, <1>1, <2>1, <2>2 DEF Cleared, Undisturbed
  <2>5. Returning'
    BY Zenon, <1>0, <1>1, <1>2, <1>3, <2>1, <2>2 DEF Returning, ReleasedOnce
  <2>6. ReleasedOnce'
    BY Zenon, <1>0, <1>1, <2>1, <2>2 DEF ReleasedOnce
  <2> QED BY <2>3, <2>4, <2>5, <2>6
<1>4. CASE order[u] # "open"
  <2>1. order' = order /\ lost' = lost \cup {"refunded twice"}
    BY Zenon, <1>4 DEF CancelFlip
  <2>2. Task'
    BY Zenon, <1>0, <1>1, <1>2, <2>1 DEF Task, OnUser, Disturbances, LeavesOrder, WrongRelease
  <2>3. "refunded twice" \in lost' /\ (Undisturbed' => Undisturbed)
    BY Zenon, <2>1 DEF Undisturbed
  <2>4. Cleared'
    BY Zenon, <1>0, <1>1, <1>4, <2>1, <2>3 DEF Cleared
  <2>5. Returning' /\ ReleasedOnce'
    BY Zenon, <2>3 DEF Returning, ReleasedOnce, WrongRelease
  <2> QED BY <2>2, <2>4, <2>5
<1> QED BY <1>3, <1>4

LEMMA RefundOrders ==
  ASSUME OrderInv, RiskInv, CancelRefund
  PROVE  OrderInv'
<1> USE DEF OrderInv
<1> DEFINE u == tick.user
<1>0. DOMAIN tick = TickFields /\ UNCHANGED <<account, order, lost, step, mem, locked>>
      /\ tick.phase = "refund" /\ released' = [released EXCEPT ![u] = released[u] + 1]
  BY ClearIs DEF RiskInv, Shapes, TickFields, CancelRefund, Release
<1>1. /\ tick'.todo = tick.todo /\ tick'.prev = tick.prev /\ tick'.user = u
      /\ tick'.new = tick.new /\ tick'.phase = AfterCancel
  BY <1>0 DEF CancelRefund, TickFields
<1>2. u \in Unified
  BY Zenon, <1>0 DEF Task, OnUser
<1>3. AfterCancel \in {"liquidate", "visit"} /\ (AfterCancel = "liquidate" => tick.new = "liquidating")
  BY DEF AfterCancel, Onward, WhileIn
<1>4. Task'
  BY Zenon, <1>0, <1>1, <1>2, <1>3 DEF Task, OnUser
<1>5. Cleared' /\ Returning'
  BY Zenon, <1>0, <1>1, <1>3 DEF Cleared, Undisturbed, Returning
<1>6. ReleasedOnce'
  <2>1. released'[u] = released[u] + 1 /\ \A v \in Unified : v # u => released'[v] = released[v]
    BY Zenon, <1>0, <1>2 DEF Task
  <2> SUFFICES ASSUME NEW v \in Unified, lost \cap WrongRelease = {}
               PROVE  released'[v] = (IF order[v] = "cancelled" THEN 1 ELSE 0)
    BY Zenon, <1>0 DEF ReleasedOnce
  <2>2. CASE v = u
    <3>1. order[u] = "cancelled" /\ released[u] = 0
      BY Zenon, <1>0 DEF Returning
    <3>2. released'[u] = 1
      <4>1. PICK n : n = released[u]
        BY Zenon
      <4>2. n = 0 /\ released'[u] = n + 1
        BY Zenon, <2>1, <3>1, <4>1
      <4>3. n + 1 = 1
        BY Zenon, <4>2, OneMore
      <4> QED BY Zenon, <4>2, <4>3
    <3> QED BY Zenon, <2>2, <3>1, <3>2
  <2>3. CASE v # u
    BY Zenon, <2>1, <2>3 DEF ReleasedOnce
  <2> QED BY Zenon, <2>2, <2>3
<1> QED BY <1>4, <1>5, <1>6

\* A failed statement: the window says so, and the visit goes on.
LEMMA ErrsOrders ==
  ASSUME OrderInv, RiskInv, CancelErrs
  PROVE  OrderInv'
<1> USE DEF OrderInv, rowsAndMoney
<1> DEFINE u == tick.user
<1>0. DOMAIN tick = TickFields /\ UNCHANGED <<account, order, released, step, mem, locked>>
      /\ tick.phase \in {"list", "flip", "refund"}
  BY Zenon, ClearIs DEF RiskInv, Shapes, TickFields, CancelErrs
<1>1. /\ tick'.todo = tick.todo /\ tick'.prev = tick.prev /\ tick'.user = u
      /\ tick'.new = tick.new /\ tick'.phase = AfterCancel
  BY Zenon, <1>0 DEF CancelErrs, TickFields
<1>2. AfterCancel \in {"liquidate", "visit"} /\ (AfterCancel = "liquidate" => tick.new = "liquidating")
  BY DEF AfterCancel, Onward, WhileIn
<1>3. /\ tick.phase = "refund" => lost' = lost \cup {"not refunded"}
      /\ tick.phase # "refund" /\ order[u] = "open" => lost' = lost \cup {"not cancelled"}
      /\ tick.phase # "refund" /\ order[u] # "open" => lost' = lost
  BY Zenon DEF CancelErrs
<1>4. lost \subseteq lost' /\ lost' \subseteq lost \cup {"not refunded", "not cancelled"}
  BY Zenon, <1>3
<1>5. lost' \subseteq Disturbances
  BY Zenon, <1>4 DEF Task, Disturbances, LeavesOrder, WrongRelease
<1>6. Task'
  BY Zenon, <1>0, <1>1, <1>2, <1>5 DEF Task, OnUser
<1>7. Cleared'
  <2> SUFFICES ASSUME Undisturbed', NEW v \in Unified, account[v] \in Restricted, order[v] = "open"
               PROVE  FALSE
    BY Zenon, <1>0 DEF Cleared
  <2>1. Undisturbed
    BY Zenon, <1>4 DEF Undisturbed
  <2>2. tick.phase \in {"list", "flip"} /\ u = v
    BY Zenon, <2>1 DEF Cleared
  <2>3. "not cancelled" \in lost'
    BY Zenon, <1>3, <2>2
  <2> QED BY Zenon, <2>3 DEF Undisturbed, LeavesOrder
<1>8. Returning'
  BY Zenon, <1>1, <1>2 DEF Returning
<1>9. ReleasedOnce'
  <2> SUFFICES ASSUME NEW v \in Unified, lost' \cap WrongRelease = {}
               PROVE  released[v] = (IF order[v] = "cancelled" THEN 1 ELSE 0)
    BY Zenon, <1>0 DEF ReleasedOnce
  <2>1. tick.phase # "refund"
    BY Zenon, <1>3 DEF WrongRelease
  <2>2. lost \cap WrongRelease = {}
    BY Zenon, <1>4
  <2> QED BY Zenon, <2>1, <2>2 DEF ReleasedOnce
<1> QED BY <1>6, <1>7, <1>8, <1>9

LEMMA ForcedOrders ==
  ASSUME OrderInv, RiskInv, Forced
  PROVE  OrderInv'
<1> USE DEF OrderInv, rowsAndMoney
<1>0. DOMAIN tick = TickFields /\ UNCHANGED <<account, order, released, lost, locked>>
      /\ tick.phase = "liquidate" /\ tick' = [tick EXCEPT !.phase = "visit"]
      /\ "risk" \in Liquidators
  BY ClearIs DEF RiskInv, Shapes, TickFields, Forced, Liquidators
<1>1. /\ tick'.todo = tick.todo /\ tick'.prev = tick.prev /\ tick'.phase = "visit"
  BY <1>0 DEF TickFields
<1>2. tick.user \in Unified /\ account[tick.user] \in Restricted
  BY Zenon, <1>0 DEF Task, OnUser
<1>3. step' \in [Liquidators -> Labels]
      /\ (step'["risk"] # "idle" => mem'["risk"].user = tick.user)
  <2>1. CASE UNCHANGED <<step, mem>>
    BY Zenon, <1>0, <2>1 DEF Task, OnUser
  <2>2. CASE LiquidateOne(tick.user)
    <3> DEFINE local == [Clear EXCEPT !.user = tick.user, !.seen = row[tick.user], !.price = mark]
    <3>1. mem' = [mem EXCEPT !["risk"] = local] /\ step' = [step EXCEPT !["risk"] = "lock"]
      BY <2>2 DEF LiquidateOne, Next1
    <3>2. local.user = tick.user
      BY ClearIs
    <3> HIDE DEF local
    <3>3. mem'["risk"] = local
      BY <1>0, <3>1 DEF RiskInv, Shapes
    <3> QED BY Zenon, <3>1, <3>2, <3>3 DEF Task, Labels
  <2> QED BY <2>1, <2>2 DEF Forced
<1>4. Task'
  BY Zenon, <1>0, <1>1, <1>2, <1>3 DEF Task, OnUser
<1>5. Cleared' /\ Returning' /\ ReleasedOnce'
  BY Zenon, <1>0, <1>1 DEF Cleared, Undisturbed, Returning, ReleasedOnce
<1> QED BY <1>4, <1>5

LEMMA UserOrders ==
  ASSUME OrderInv, RiskInv, NEW u \in Unified, PlaceGate(u) \/ PlaceInsert(u) \/ UserCancels(u)
  PROVE  OrderInv'
<1> USE DEF OrderInv, liqVars
<1>0. UNCHANGED <<account, tick, step, mem, locked>>
  BY Zenon DEF PlaceGate, PlaceInsert, UserCancels
<1>1. CASE PlaceGate(u)
  <2>1. order[u] = "none" /\ order' = [order EXCEPT ![u] = "checked"] /\ lost' = lost
        /\ released' = released
    BY <1>1 DEF PlaceGate
  <2>2. Task'
    BY Zenon, <1>0, <2>1 DEF Task
  <2>3. order'[u] = "checked" /\ \A v \in Unified : v # u => order'[v] = order[v]
    BY Zenon, <2>1 DEF Task
  <2>4. Cleared'
    BY Zenon, <1>0, <2>1, <2>3 DEF Cleared, Undisturbed
  <2>5. Returning'
    BY Zenon, <1>0, <2>1, <2>3 DEF Returning, Task, OnUser
  <2>6. ReleasedOnce'
    BY Zenon, <1>0, <2>1, <2>3 DEF ReleasedOnce
  <2> QED BY <2>2, <2>4, <2>5, <2>6
<1>2. CASE PlaceInsert(u)
  <2>1. order[u] = "checked" /\ order' = [order EXCEPT ![u] = "open"] /\ released' = released
        /\ lost' = IF account[u] \in Restricted THEN lost \cup {"late order"} ELSE lost
    BY Zenon, <1>2 DEF PlaceInsert
  <2>2. Task'
    BY Zenon, <1>0, <2>1 DEF Task, Disturbances, LeavesOrder, WrongRelease
  <2>3. order'[u] = "open" /\ \A v \in Unified : v # u => order'[v] = order[v]
    BY Zenon, <2>1 DEF Task
  <2>4. (Undisturbed' => Undisturbed /\ account[u] \notin Restricted)
        /\ (lost' \cap WrongRelease = lost \cap WrongRelease)
    BY Zenon, <2>1 DEF Undisturbed, LeavesOrder, WrongRelease
  <2>5. Cleared'
    BY Zenon, <1>0, <2>3, <2>4 DEF Cleared
  <2>6. Returning'
    BY Zenon, <1>0, <2>1, <2>3, <2>4 DEF Returning, Task, OnUser
  <2>7. ReleasedOnce'
    BY Zenon, <1>0, <2>1, <2>3, <2>4 DEF ReleasedOnce
  <2> QED BY <2>2, <2>5, <2>6, <2>7
<1>3. CASE UserCancels(u)
  <2>1. order[u] = "open" /\ order' = [order EXCEPT ![u] = "cancelled"] /\ lost' = lost
        /\ released' = [released EXCEPT ![u] = released[u] + 1]
    BY <1>3 DEF UserCancels, Release, Cancellable
  <2>2. Task'
    BY Zenon, <1>0, <2>1 DEF Task
  <2>3. order'[u] = "cancelled" /\ \A v \in Unified : v # u => order'[v] = order[v]
    BY Zenon, <2>1 DEF Task
  <2>4. released'[u] = released[u] + 1 /\ \A v \in Unified : v # u => released'[v] = released[v]
    BY Zenon, <2>1 DEF Task
  <2>5. Cleared'
    BY Zenon, <1>0, <2>1, <2>3 DEF Cleared, Undisturbed
  <2>6. Returning'
    BY Zenon, <1>0, <2>1, <2>3, <2>4 DEF Returning, Task, OnUser
  <2>7. ReleasedOnce'
    <3> SUFFICES ASSUME NEW v \in Unified, lost \cap WrongRelease = {},
                        ~(tick.phase = "refund" /\ tick.user = v)
                 PROVE  released'[v] = (IF order'[v] = "cancelled" THEN 1 ELSE 0)
      BY Zenon, <1>0, <2>1 DEF ReleasedOnce
    <3>1. released[v] = (IF order[v] = "cancelled" THEN 1 ELSE 0)
      BY Zenon DEF ReleasedOnce
    <3>2. CASE v = u
      <4>1. released[u] = 0
        BY Zenon, <2>1, <3>1, <3>2
      <4>2. PICK n : n = released[u]
        BY Zenon
      <4>3. n = 0 /\ released'[u] = n + 1
        BY Zenon, <2>4, <4>1, <4>2
      <4>5. n + 1 = 1
        BY Zenon, <4>3, OneMore
      <4>4. released'[u] = 1
        BY Zenon, <4>3, <4>5
      <4> QED BY Zenon, <2>3, <3>2, <4>4
    <3>3. CASE v # u
      BY Zenon, <2>3, <2>4, <3>1, <3>3
    <3> QED BY Zenon, <3>2, <3>3
  <2> QED BY <2>2, <2>5, <2>6, <2>7
<1> QED BY <1>1, <1>2, <1>3

LEMMA CrashOrders ==
  ASSUME OrderInv, Crash
  PROVE  OrderInv'
<1> USE DEF OrderInv
<1>1. /\ tick' = Idle /\ UNCHANGED <<account, released>> /\ locked' = {}
      /\ step' = [w \in Liquidators |-> "idle"]
      /\ order' = [u \in Unified |-> IF order[u] = "checked" THEN "none" ELSE order[u]]
      /\ lost' = lost \cup (IF tick.phase \in {"list", "flip", "refund"} THEN {"cancel"} ELSE {})
                      \cup (IF step["risk"] \in {"gap", "adl", "adlpay"} THEN {"gap"} ELSE {})
  BY DEF Crash, LiqCrash
<1>2. tick'.phase = "idle" /\ step'["risk"] = "idle"
  BY <1>1, ClearIs DEF Liquidators
<1>3. lost' \subseteq Disturbances
  BY Zenon, <1>1 DEF Task, Disturbances, LeavesOrder, WrongRelease
<1>4. Task'
  BY Zenon, <1>1, <1>2, <1>3 DEF Task, OnUser, Labels
<1>5. /\ "cancel" \notin lost' => tick.phase \notin {"list", "flip", "refund"}
      /\ lost \subseteq lost'
  BY <1>1
<1>6. \A u \in Unified : /\ order'[u] = "open" => order[u] = "open"
                         /\ order'[u] = "cancelled" <=> order[u] = "cancelled"
  BY <1>1
<1>7. Cleared'
  BY Zenon, <1>1, <1>2, <1>5, <1>6 DEF Cleared, Undisturbed, LeavesOrder
<1>8. Returning'
  BY Zenon, <1>2 DEF Returning
<1>9. ReleasedOnce'
  <2> SUFFICES ASSUME NEW u \in Unified, lost' \cap WrongRelease = {}
               PROVE  released'[u] = (IF order'[u] = "cancelled" THEN 1 ELSE 0)
    BY Zenon DEF ReleasedOnce
  <2>1. lost \cap WrongRelease = {} /\ tick.phase # "refund"
    BY Zenon, <1>5 DEF WrongRelease
  <2>2. released[u] = (IF order[u] = "cancelled" THEN 1 ELSE 0)
    BY Zenon, <2>1 DEF ReleasedOnce
  <2> QED BY Zenon, <1>1, <1>6, <2>2
<1> QED BY <1>4, <1>7, <1>8, <1>9

LEMMA OrdersStep ==
  ASSUME OrderInv, RiskInv, [RiskNext]_riskVars
  PROVE  OrderInv'
<1>0. locked' \subseteq Users
  BY Zenon, LockedKnown DEF OrderInv, Task
<1>1. CASE UNCHANGED riskVars
  <2>1. UNCHANGED <<riskOnly, step, mem, lost>>
    BY <1>1 DEF riskVars, liqVars
  <2> QED BY Zenon, <1>0, <2>1, ElsewhereOrders DEF OrderInv, Task
<1>2. CASE Closing /\ UNCHANGED riskOnly
  BY Zenon, <1>0, <1>2, ClosingGoesOn, ElsewhereOrders DEF OrderInv
<1>3. CASE (Ranking \/ People) /\ UNCHANGED riskOnly
  <2>1. UNCHANGED <<step, mem, lost>>
    BY Zenon, <1>3 DEF Ranking, RankRead, RankWrite, People, MoveMark, ClosePart
  <2> QED BY ZenonT(40), <1>0, <1>3, <2>1, ElsewhereOrders DEF OrderInv, Task
<1>4. CASE Worker
  BY <1>4, TickOrders, VisitOrders, FlipOrders, RefundOrders, ErrsOrders, ForcedOrders DEF Worker
<1>5. CASE \E u \in Unified : PlaceGate(u) \/ PlaceInsert(u) \/ UserCancels(u)
  BY <1>5, UserOrders
<1>6. CASE Crash
  BY <1>6, CrashOrders
<1> QED BY <1>1, <1>2, <1>3, <1>4, <1>5, <1>6 DEF RiskNext

(***************************************************************************)
(* The fund and what it paid.                                              *)
(***************************************************************************)

FundTypes ==
    /\ fund.balance \in Int /\ fund.in \in Int /\ fund.out \in Int
    /\ fund.balance = FundSeed + fund.in - fund.out
    /\ DOMAIN cases = Users
    /\ \A u \in Users : DOMAIN cases[u] = DOMAIN NoCase /\ cases[u].paid \in Int
    /\ \A w \in Liquidators : mem[w].cap \in Int

\* A case that takes from others leaves what the fund paid.
LEMMA TakenKeepsPaid ==
  ASSUME FundTypes, NEW v, NEW n, cases' = [cases EXCEPT ![v].taken = n]
  PROVE  /\ DOMAIN cases' = Users
         /\ \A u \in Users : DOMAIN cases'[u] = DOMAIN NoCase /\ cases'[u].paid = cases[u].paid
<1>1. DOMAIN NoCase = {"times", "bad", "paid", "taken"}
  BY DEF NoCase
<1>2. ASSUME NEW u \in Users
      PROVE  DOMAIN cases'[u] = DOMAIN NoCase /\ cases'[u].paid = cases[u].paid
  <2>1. CASE u = v
    <3>1. cases'[u] = [cases[u] EXCEPT !.taken = n]
      BY <2>1 DEF FundTypes
    <3> QED BY <1>1, <3>1 DEF FundTypes
  <2>2. CASE u # v
    <3>1. cases'[u] = cases[u]
      BY <2>2 DEF FundTypes
    <3> QED BY <3>1 DEF FundTypes
  <2> QED BY <2>1, <2>2
<1> QED BY <1>2 DEF FundTypes

\* A liquidation that is committed stores what the fund paid for it.
LEMMA CommitPaid ==
  ASSUME FundTypes, NEW v \in Users, NEW n, NEW b, NEW p,
         cases' = [cases EXCEPT ![v] = [cases[v] EXCEPT !.times = n, !.bad = b, !.paid = p]]
  PROVE  /\ DOMAIN cases' = Users /\ cases'[v].paid = p
         /\ \A u \in Users : DOMAIN cases'[u] = DOMAIN NoCase
         /\ \A u \in Users : u # v => cases'[u] = cases[u]
<1>1. DOMAIN NoCase = {"times", "bad", "paid", "taken"}
  BY DEF NoCase
<1>2. cases'[v] = [cases[v] EXCEPT !.times = n, !.bad = b, !.paid = p]
  BY DEF FundTypes
<1>3. DOMAIN cases'[v] = DOMAIN NoCase /\ cases'[v].paid = p
  BY <1>1, <1>2 DEF FundTypes
<1> QED BY <1>3 DEF FundTypes

\* What a liquidation adds to the fund, and takes from it.
LEMMA PaysNumbers ==
  ASSUME Money, FundTypes, Known, NEW w \in Liquidators, CommitLiquidation(w)
  PROVE  /\ PaidBy(w) \in Int /\ PaidBy(w) <= Floor0(mem[w].cap)
         /\ mem[w].cap >= 0 => PaidBy(w) >= 0
         /\ Contribution(row[mem[w].user]) \in Nat
<1>1. row[mem[w].user] \in RowT /\ mem[w].price \in Nat /\ mem[w].cap \in Int
  BY DEF CommitLiquidation, Known, Money, FundTypes
<1>2. PICK rest \in Int : rest = RemainingAt(row[mem[w].user], mem[w].price)
  BY <1>1, NumbersOf
<1>3. Contribution(row[mem[w].user]) \in Nat
  BY <1>1, NumbersOf
<1>4. PaidBy(w) = IF rest < 0 THEN (IF -rest < mem[w].cap THEN -rest ELSE mem[w].cap) ELSE 0
  BY <1>2 DEF PaidBy, FundPays, Lower
<1> QED BY SMTT(30), <1>1, <1>3, <1>4 DEF Floor0

\* The steps that leave the fund, what it paid and the caps of the others as they are.
FundKept ==
    /\ fund' = fund /\ DOMAIN cases' = Users
    /\ \A u \in Users : DOMAIN cases'[u] = DOMAIN NoCase /\ cases'[u].paid = cases[u].paid
    /\ \A w \in Liquidators : mem'[w].cap \in {0, mem[w].cap}
    /\ \A w \in Liquidators : step'[w] = "commit" => step[w] = "commit" /\ mem'[w].cap = mem[w].cap

LEMMA KeptFund ==
  ASSUME Shapes, FundTypes, [RiskNext]_riskVars,
         ~ \E w \in Liquidators : LockPosition(w) \/ CommitLiquidation(w)
  PROVE  FundKept
<1> USE DEF rowsAndMoney, liqVars, riskOnly
<1>0. "risk" \in Liquidators /\ "sweep" \in Liquidators
      /\ \A w \in Liquidators : w = "risk" \/ w = "sweep"
  BY DEF Liquidators
<1>1. UNCHANGED <<fund, cases, mem, step>> => FundKept
  BY DEF FundKept, FundTypes
<1>2. CASE UNCHANGED riskVars
  BY SMTT(30), <1>1, <1>2 DEF riskVars
<1>3. CASE Ranking \/ People
  BY Zenon, <1>1, <1>3 DEF Ranking, RankRead, RankWrite, People, MoveMark, ClosePart
<1>4. CASE \E u \in Unified : PlaceGate(u) \/ PlaceInsert(u) \/ UserCancels(u)
  BY Zenon, <1>1, <1>4 DEF PlaceGate, PlaceInsert, UserCancels
<1>5. CASE Worker /\ ~Forced
  BY Zenon, <1>1, <1>5 DEF Worker, TickBalances, TickPositions, TickEnd, Visit, CancelList, CancelFlip,
                    CancelRefund, CancelErrs
<1>6. CASE Forced
  <2>1. UNCHANGED <<fund, cases>>
    BY <1>6 DEF Forced
  <2>2. CASE UNCHANGED <<step, mem>>
    BY <1>1, <2>1, <2>2
  <2>3. CASE LiquidateOne(tick.user)
    <3> DEFINE local == [Clear EXCEPT !.user = tick.user, !.seen = row[tick.user], !.price = mark]
    <3>1. mem' = [mem EXCEPT !["risk"] = local] /\ step' = [step EXCEPT !["risk"] = "lock"]
      BY <2>3 DEF LiquidateOne, Next1
    <3>2. local.cap = 0
      BY DEF Clear
    <3> HIDE DEF local
    <3>3. step'["risk"] = "lock" /\ mem'["risk"].cap = 0 /\ Kept("sweep")
      BY <1>0, <3>1, <3>2, ChangeOf
    <3> QED BY <1>0, <2>1, <3>3 DEF FundKept, FundTypes, Kept
  <2> QED BY <1>6, <2>2, <2>3 DEF Forced
<1>7. CASE Crash
  <2>1. UNCHANGED <<fund, cases>> /\ step' = [w \in Liquidators |-> "idle"]
        /\ mem' = [w \in Liquidators |-> Clear]
    BY <1>7 DEF Crash, LiqCrash
  <2>2. Clear.cap = 0
    BY DEF Clear
  <2> HIDE DEF Clear
  <2> QED BY <2>1, <2>2 DEF FundKept, FundTypes
<1>8. CASE Sweep \/ Pick
  BY <1>0, <1>8, SweepEffects DEF FundKept, FundTypes, Kept
<1>9. CASE Gap \/ AdlDone
  <2>1. Clear.cap = 0
    BY DEF Clear
  <2> QED BY <1>0, <1>9, <2>1, GapEffects DEF FundKept, FundTypes, Kept
<1>10. CASE AdlReduce
  <2>1. step'["risk"] \in {"adl", "adlpay"}
    BY Zenon, <1>10, AdlReduceEffects
  <2> QED BY Zenon, <1>0, <1>10, <2>1, AdlReduceEffects DEF FundKept, FundTypes, Kept
<1>11. CASE AdlPay
  <2>1. PICK n : cases' = [cases EXCEPT ![mem["risk"].user].taken = n]
    BY <1>11, AdlPayEffects
  <2>2. PICK v : v = mem["risk"].user
    OBVIOUS
  <2>3. /\ DOMAIN cases' = Users
        /\ \A u \in Users : DOMAIN cases'[u] = DOMAIN NoCase /\ cases'[u].paid = cases[u].paid
    BY <2>1, <2>2, TakenKeepsPaid
  <2> QED BY <1>0, <1>11, <2>3, AdlPayEffects DEF FundKept, Kept
<1> QED BY <1>2, <1>3, <1>4, <1>5, <1>6, <1>7, <1>8, <1>9, <1>10, <1>11 DEF RiskNext, Closing

LEMMA FundTypesStep ==
  ASSUME RiskInv, Money, FundTypes, [RiskNext]_riskVars
  PROVE  FundTypes'
<1>0. Shapes /\ Known
  BY DEF RiskInv
<1>1. CASE ~ \E w \in Liquidators : LockPosition(w) \/ CommitLiquidation(w)
  BY <1>0, <1>1, KeptFund DEF FundKept, FundTypes
<1>2. ASSUME NEW w \in Liquidators, LockPosition(w) PROVE FundTypes'
  <2>1. Pct(fund.balance, FundCapPct) \in Int
    <3>1. PICK n \in Int : n = fund.balance * FundCapPct
      BY RateAssumption DEF FundTypes
    <3> QED BY <3>1 DEF Pct
  <2>2. mem'[w].cap \in Int
    BY <1>0, <1>2, <2>1, LockEffects DEF FundTypes
  <2>3. UNCHANGED <<fund, cases>> /\ \A v \in Liquidators : v # w => mem'[v] = mem[v]
    BY <1>0, <1>2, LockEffects DEF Kept
  <2> QED BY <2>2, <2>3 DEF FundTypes
<1>3. ASSUME NEW w \in Liquidators, CommitLiquidation(w) PROVE FundTypes'
  <2> DEFINE u == mem[w].user
  <2>1. u \in Users /\ step[w] = "commit"
    BY <1>0, <1>3 DEF Known, CommitLiquidation
  <2>2. PICK p \in Int, c \in Nat : p = PaidBy(w) /\ c = Contribution(row[u])
    BY <1>0, <1>3, PaysNumbers
  <2>3. fund' = [balance |-> fund.balance + c - p, in |-> fund.in + c, out |-> fund.out + p]
    BY Zenon, <1>0, <1>3, <2>2, CommitEffects
  <2>4. PICK n, b : cases' = [cases EXCEPT ![u] =
                          [cases[u] EXCEPT !.times = n, !.bad = b, !.paid = p]]
    <3>1. PICK n, b : cases' = [cases EXCEPT ![u] =
                          [cases[u] EXCEPT !.times = n, !.bad = b, !.paid = PaidBy(w)]]
      BY Zenon, <1>0, <1>3, CommitEffects
    <3>2. cases' = [cases EXCEPT ![u] = [cases[u] EXCEPT !.times = n, !.bad = b, !.paid = p]]
      BY <2>2, <3>1
    <3> QED BY Zenon, <3>2
  <2>5. PICK v \in Users : v = u
    BY <2>1
  <2>6. /\ DOMAIN cases' = Users /\ cases'[v].paid = p
        /\ \A x \in Users : DOMAIN cases'[x] = DOMAIN NoCase
        /\ \A x \in Users : x # v => cases'[x] = cases[x]
    BY Zenon, <2>4, <2>5, CommitPaid
  <2>7. \A x \in Liquidators : mem'[x].cap = mem[x].cap
    BY Zenon, <1>0, <1>3, CommitEffects DEF Kept
  <2>8. fund'.balance = fund.balance + c - p /\ fund'.in = fund.in + c /\ fund'.out = fund.out + p
    BY <2>3
  <2>9. FundSeed \in Nat
    BY RateAssumption
  <2> QED BY <2>2, <2>6, <2>7, <2>8, <2>9 DEF FundTypes
<1> QED BY <1>1, <1>2, <1>3

LEMMA MoneyStep ==
  ASSUME RiskInv, Money, FundTypes, OrderInv, [RiskNext]_riskVars
  PROVE  Money'
<1> USE DEF liqVars, riskOnly
<1>0. Shapes /\ Known
  BY DEF RiskInv
<1>1. CASE UNCHANGED riskVars
  BY <1>1, QuietMoney DEF riskVars
<1>2. CASE Closing
  <2>1. CASE Gap \/ AdlDone
    <3>1. CASE AdlDone
      <4>1. UNCHANGED <<row, avail, hold, mark, ranks, ranker>>
            /\ step' = [step EXCEPT !["risk"] = "idle"] /\ mem' = [mem EXCEPT !["risk"] = Clear]
        BY <3>1 DEF AdlDone, Reset, Next1, rowsAndMoney
      <4>2. Clear.price \in Nat /\ Clear.gap \in Int /\ Clear.list \in Seq(Ranked)
            /\ "risk" \in Liquidators
        BY ClearMoney DEF Liquidators
      <4> HIDE DEF Clear
      <4> QED BY <1>0, <4>1, <4>2, MemMoney
    <3>2. CASE Gap
      <4>1. mem["risk"].user \in Users
        BY Zenon, <3>2, RateAssumption DEF Gap, OrderInv, Task
      <4>2. row[mem["risk"].user].side \in {"long", "short"} /\ cases[mem["risk"].user].paid \in Int
        BY <4>1 DEF Money, RowT, FundTypes
      <4> QED BY <1>0, <3>2, <4>2, GapMoney
    <3> QED BY <2>1, <3>1, <3>2
  <2> QED BY <1>0, <1>2, <2>1, SweepMoney, LockMoney, CommitMoney, AdlReduceMoney, AdlPayMoney
          DEF Closing
<1>3. CASE Ranking
  BY <1>0, <1>3, RankMoney
<1>4. CASE People
  BY <1>0, <1>4, PriceMoney, CloseMoney DEF People
<1>5. CASE Worker
  BY <1>0, <1>5, WorkerMoney
<1>6. CASE \E u \in Unified : PlaceGate(u) \/ PlaceInsert(u) \/ UserCancels(u)
  BY <1>6, OrderMoney
<1>7. CASE Crash
  BY <1>7, CrashMoney
<1> QED BY <1>1, <1>2, <1>3, <1>4, <1>5, <1>6, <1>7 DEF RiskNext

(***************************************************************************)
(* The initial state, and the theorem about the orders.                    *)
(***************************************************************************)

WorkInv == RiskInv /\ Money /\ FundTypes /\ OrderInv

LEMMA WorkInit == RiskInit => WorkInv
<1> SUFFICES ASSUME RiskInit PROVE WorkInv
  OBVIOUS
<1>0. RiskInv
  BY RiskInitInv
<1>1. Money
  <2>1. row \in [Users -> RowT]
    BY BookAssumption DEF RiskInit, LiqInit, RowT
  <2>2. avail \in [Users -> Int] /\ hold \in [Users -> Nat]
    BY RateAssumption DEF RiskInit, LiqInit
  <2>3. mark \in Nat
    <3>1. PICK u \in Users : u = CHOOSE x \in Users : TRUE
      BY BookAssumption
    <3>2. Book[u].size \in Nat /\ Book[u].tokens \in Nat \ {0}
      BY BookAssumption
    <3>3. mark = Book[u].size \div Book[u].tokens
      BY <3>1 DEF RiskInit, LiqInit
    <3> QED BY <3>2, <3>3
  <2>4. mem = [w \in Liquidators |-> Clear] /\ step = [w \in Liquidators |-> "idle"]
        /\ ranks = [s \in {"long", "short"} |-> << >>]
        /\ ranker = [busy |-> FALSE, seen |-> {}, runs |-> 0]
    BY DEF RiskInit, LiqInit
  <2>5. \A w \in Liquidators : /\ mem[w].price \in Nat /\ mem[w].gap \in Int
                               /\ mem[w].list \in Seq(Ranked)
    <3>1. Clear.price \in Nat /\ Clear.gap \in Int /\ Clear.list \in Seq(Ranked)
      BY ClearMoney
    <3> HIDE DEF Clear
    <3> QED BY <2>4, <3>1
  <2>6. step["risk"] = "idle"
    BY <2>4 DEF Liquidators
  <2>7. ranks \in [{"long", "short"} -> Seq(Ranked)] /\ DOMAIN ranker = {"busy", "seen", "runs"}
        /\ ranker.seen \subseteq Ranked /\ IsFiniteSet(ranker.seen)
    BY <2>4, FS_EmptySet
  <2> QED BY <2>1, <2>2, <2>3, <2>5, <2>6, <2>7 DEF Money
<1>2. FundTypes
  <2>1. fund = [balance |-> FundSeed, in |-> 0, out |-> 0] /\ cases = [u \in Users |-> NoCase]
        /\ mem = [w \in Liquidators |-> Clear]
    BY DEF RiskInit, LiqInit
  <2>2. Clear.cap = 0 /\ NoCase.paid = 0
    BY DEF Clear, NoCase
  <2> HIDE DEF Clear, NoCase
  <2> QED BY <2>1, <2>2, RateAssumption DEF FundTypes
<1>3. OrderInv
  <2>1. /\ step = [w \in Liquidators |-> "idle"] /\ locked = {} /\ lost = {}
        /\ account = [u \in Unified |-> "normal"] /\ order = [u \in Unified |-> "none"]
        /\ released = [u \in Unified |-> 0] /\ tick = Idle
    BY DEF RiskInit, LiqInit
  <2>2. tick.phase = "idle" /\ step["risk"] = "idle"
    BY <2>1, ClearIs DEF Liquidators
  <2>3. Task
    BY <2>1, <2>2 DEF Task, OnUser, Labels
  <2>4. Cleared /\ Returning /\ ReleasedOnce
    BY <2>1, <2>2 DEF Cleared, Returning, ReleasedOnce
  <2> QED BY <2>3, <2>4 DEF OrderInv
<1> QED BY <1>0, <1>1, <1>2, <1>3 DEF WorkInv

LEMMA WorkStep ==
  ASSUME WorkInv, [RiskNext]_riskVars
  PROVE  WorkInv'
BY RiskStep, MoneyStep, FundTypesStep, OrdersStep DEF WorkInv

LEMMA WorkGives == WorkInv => OrdersClearedFirst
<1> SUFFICES ASSUME WorkInv PROVE OrdersClearedFirst
  OBVIOUS
<1> USE DEF WorkInv, OrderInv
<1>1. RiskTypeOK
  BY Zenon DEF RiskTypeOK, Money, RowT, Task, Labels, OnUser
<1>2. OrdersGoFirst
  BY Zenon DEF OrdersGoFirst, Task, Cleared, Undisturbed, OnUser
<1> QED BY <1>1, <1>2 DEF OrdersClearedFirst

\* The worker clears a restricted account in the order its comments promise, whatever
\* the users do meanwhile and whenever the process stops: it liquidates no position
\* while an order of its owner still holds margin, and the margin of an order comes
\* back exactly once, with the exceptions the two properties name.
THEOREM WorkerClearsOrders == RiskSpec => []OrdersClearedFirst
<1>1. WorkInv /\ [RiskNext]_riskVars => WorkInv'
  BY WorkStep
<1> QED BY <1>1, WorkInit, WorkGives, PTL DEF RiskSpec

(***************************************************************************)
(* The fund, and who is reduced for whom.                                  *)
(***************************************************************************)

\* Users whose bad debt the fund paid.
Payees == {u \in Users : cases[u].paid > 0}

\* What the fund can still pay, and to how many.
Limits ==
    /\ \A u \in Users : IsOpen(u) => cases[u].paid = 0
    /\ Cardinality(Payees) <= 2 => fund.balance >= 0
    /\ \A w \in Liquidators : step[w] = "commit" =>
          /\ Cardinality(Payees) = 0 => mem[w].cap >= 0 /\ 2 * mem[w].cap <= fund.balance
          /\ Cardinality(Payees) = 1 => mem[w].cap >= 0 /\ mem[w].cap <= fund.balance

LEMMA PayeesFinite ==
  /\ Users # {} /\ IsFiniteSet(Payees) /\ Cardinality(Payees) \in Nat
<1>1. Payees \subseteq Users
  BY DEF Payees
<1>2. IsFiniteSet(Payees)
  BY <1>1, BookAssumption, FS_Subset
<1> QED BY <1>2, BookAssumption, FS_CardinalityType

\* The sums of one payment.
LEMMA FundSums ==
  ASSUME NEW n \in Nat, NEW b \in Int, NEW cap \in Int, NEW p \in Int, NEW c \in Nat,
         NEW other \in Int, NEW m \in Nat, NEW d \in Int, d = b + c - p,
         n <= 2 => b >= 0,
         n = 0 => cap >= 0 /\ 2 * cap <= b,
         n = 1 => cap >= 0 /\ cap <= b,
         cap >= 0 => p <= cap, cap < 0 => p <= 0,
         m = IF p > 0 THEN n + 1 ELSE n
  PROVE  /\ m <= 2 => d >= 0
         /\ (n = 0 => other >= 0 /\ 2 * other <= b) /\ (n = 1 => other >= 0 /\ other <= b)
              => /\ m = 0 => other >= 0 /\ 2 * other <= d
                 /\ m = 1 => other >= 0 /\ other <= d
<1>1. CASE p > 0
  <2>1. m = n + 1 /\ p <= cap /\ cap >= 0
    BY <1>1
  <2> QED BY <2>1
<1>2. CASE p <= 0
  <2>1. m = n /\ d >= b
    BY <1>2
  <2> QED BY <2>1
<1> QED BY <1>1, <1>2

LEMMA LimitsKept ==
  ASSUME RiskInv, FundTypes, Limits, FundKept, Frame
  PROVE  Limits'
<1>1. \A u \in Users : cases'[u].paid = cases[u].paid
  BY DEF FundKept
<1>2. Payees' = Payees
  BY <1>1 DEF Payees
<1>3. \A u \in Users : IsOpen(u)' => IsOpen(u)
  BY DEF Frame, IsOpen
<1>4. \A u \in Users : IsOpen(u)' => cases'[u].paid = 0
  BY <1>1, <1>3 DEF Limits
<1>5. PICK n : n = Cardinality(Payees) /\ n = Cardinality(Payees')
  BY <1>2
<1>6. n <= 2 => fund'.balance >= 0
  BY <1>5 DEF Limits, FundKept
<1>7. ASSUME NEW w \in Liquidators, step'[w] = "commit"
      PROVE  /\ n = 0 => mem'[w].cap >= 0 /\ 2 * mem'[w].cap <= fund'.balance
             /\ n = 1 => mem'[w].cap >= 0 /\ mem'[w].cap <= fund'.balance
  <2>1. step[w] = "commit" /\ mem'[w].cap = mem[w].cap /\ fund' = fund
    BY <1>7 DEF FundKept
  <2> QED BY <1>5, <2>1 DEF Limits
<1> QED BY <1>4, <1>5, <1>6, <1>7 DEF Limits

LEMMA LimitsLock ==
  ASSUME RiskInv, FundTypes, Limits, NEW w \in Liquidators, LockPosition(w), FundCapPct <= 50
  PROVE  Limits'
<1>0. Shapes
  BY DEF RiskInv
<1>1. UNCHANGED <<row, fund, cases>> /\ \A v \in Liquidators : v # w => Kept(v)
  BY <1>0, LockEffects
<1>2. Payees' = Payees
  BY <1>1 DEF Payees
<1>3. PICK n \in Nat : n = Cardinality(Payees)
  BY PayeesFinite
<1>4. n <= 1 => fund.balance \in Nat
  BY <1>3 DEF Limits, FundTypes
<1>5. n <= 1 /\ step'[w] = "commit" => mem'[w].cap >= 0 /\ 2 * mem'[w].cap <= fund.balance
  <2> SUFFICES ASSUME n <= 1, step'[w] = "commit"
               PROVE  mem'[w].cap >= 0 /\ 2 * mem'[w].cap <= fund.balance
    OBVIOUS
  <2>1. mem'[w].cap = IF RemainingAt(row[mem[w].user], mem[w].price) < 0
                      THEN Pct(fund.balance, FundCapPct) ELSE 0
    BY <1>0, LockEffects DEF After
  <2>2. PICK b \in Nat : b = fund.balance
    BY <1>4
  <2>3. FundCapPct \in 0..50
    BY RateAssumption
  <2>4. Pct(b, FundCapPct) \in Nat /\ 2 * Pct(b, FundCapPct) <= b
    BY <2>3, HalfAtMost
  <2>5. PICK cap \in Nat : 2 * cap <= b /\ mem'[w].cap = cap
    <3>1. CASE RemainingAt(row[mem[w].user], mem[w].price) < 0
      BY <2>1, <2>2, <2>4, <3>1
    <3>2. CASE ~(RemainingAt(row[mem[w].user], mem[w].price) < 0)
      BY <2>1, <2>2, <3>2
    <3> QED BY <3>1, <3>2
  <2> QED BY <2>2, <2>5
<1>6. ASSUME NEW v \in Liquidators, step'[v] = "commit"
      PROVE  /\ n = 0 => mem'[v].cap >= 0 /\ 2 * mem'[v].cap <= fund'.balance
             /\ n = 1 => mem'[v].cap >= 0 /\ mem'[v].cap <= fund'.balance
  <2>1. CASE v = w
    <3> SUFFICES ASSUME n <= 1
                 PROVE  mem'[v].cap >= 0 /\ 2 * mem'[v].cap <= fund'.balance
                        /\ mem'[v].cap <= fund'.balance
      BY <1>3
    <3>1. mem'[v].cap >= 0 /\ 2 * mem'[v].cap <= fund.balance
      BY <1>5, <1>6, <2>1
    <3>2. mem'[v].cap \in Int
      <4>1. FundTypes'
        <5>1. Pct(fund.balance, FundCapPct) \in Int
          <6>1. PICK x \in Int : x = fund.balance * FundCapPct
            BY RateAssumption DEF FundTypes
          <6> QED BY <6>1 DEF Pct
        <5>2. mem'[w].cap \in Int
          BY <1>0, <5>1, LockEffects DEF FundTypes
        <5> QED BY <1>1, <5>2 DEF FundTypes, Kept
      <4> QED BY <4>1 DEF FundTypes
    <3>3. PICK cap \in Int, b \in Int : cap = mem'[v].cap /\ b = fund.balance
      BY <3>2 DEF FundTypes
    <3>4. cap >= 0 /\ 2 * cap <= b
      BY <3>1, <3>3
    <3> QED BY <1>1, <3>3, <3>4
  <2>2. CASE v # w
    <3>1. step[v] = "commit" /\ mem'[v] = mem[v]
      BY <1>1, <1>6, <2>2 DEF Kept
    <3> QED BY <1>1, <1>3, <3>1 DEF Limits
  <2> QED BY <2>1, <2>2
<1>7. (\A u \in Users : IsOpen(u) => cases[u].paid = 0)'
  BY <1>1 DEF Limits, IsOpen
<1>8. (n <= 2 => fund.balance >= 0)'
  BY <1>1, <1>3 DEF Limits
<1> QED BY <1>2, <1>3, <1>6, <1>7, <1>8 DEF Limits

LEMMA LimitsCommit ==
  ASSUME RiskInv, Money, FundTypes, Limits, NEW w \in Liquidators, CommitLiquidation(w), Frame,
         FundTypes'
  PROVE  Limits'
<1> DEFINE u == mem[w].user
<1>0. Shapes /\ Known /\ Guarded
  BY DEF RiskInv
<1>1. PICK v \in Users : v = u /\ IsOpen(v)
  BY <1>0 DEF Known, Guarded, CommitLiquidation
<1>2. PICK p \in Int, c \in Nat, cap \in Int :
        /\ p = PaidBy(w) /\ c = Contribution(row[u]) /\ cap = mem[w].cap
        /\ p <= Floor0(cap)
  BY <1>0, PaysNumbers DEF FundTypes
<1>3. PICK b \in Int, d \in Int : b = fund.balance /\ d = fund'.balance
  BY DEF FundTypes
<1>4. d = b + c - p
  <2>1. fund' = [balance |-> fund.balance + c - p, in |-> fund.in + c, out |-> fund.out + p]
    BY Zenon, <1>0, <1>2, CommitEffects
  <2> QED BY <1>3, <2>1
<1>5. PICK n, x : cases' = [cases EXCEPT ![u] =
                          [cases[u] EXCEPT !.times = n, !.bad = x, !.paid = PaidBy(w)]]
  BY Zenon, <1>0, CommitEffects
<1>6. cases' = [cases EXCEPT ![v] = [cases[v] EXCEPT !.times = n, !.bad = x, !.paid = p]]
  BY <1>1, <1>2, <1>5
<1>7. /\ cases'[v].paid = p /\ \A y \in Users : y # v => cases'[y] = cases[y]
  <2>1. cases' = [cases EXCEPT ![u] = [cases[u] EXCEPT !.times = n, !.bad = x, !.paid = p]]
    BY <1>1, <1>6
  <2>2. PICK y \in Users : y = u
    BY <1>1
  <2>3. /\ DOMAIN cases' = Users /\ cases'[y].paid = p
        /\ \A z \in Users : DOMAIN cases'[z] = DOMAIN NoCase
        /\ \A z \in Users : z # y => cases'[z] = cases[z]
    BY Zenon, <2>1, <2>2, CommitPaid
  <2> QED BY <1>1, <2>2, <2>3
<1>8. cases[v].paid = 0 /\ v \notin Payees
  <2>1. cases[v].paid = 0
    BY <1>1 DEF Limits
  <2> QED BY <2>1 DEF Payees
<1>9. Payees' = IF p > 0 THEN Payees \cup {v} ELSE Payees
  <2>1. \A y \in Users : y # v => (y \in Payees' <=> y \in Payees)
    BY <1>7 DEF Payees
  <2>2. v \in Payees' <=> p > 0
    BY <1>7 DEF Payees
  <2>3. Payees \subseteq Users /\ Payees' \subseteq Users
    BY DEF Payees
  <2> QED BY <1>8, <2>1, <2>2, <2>3
<1>10. PICK k \in Nat, m \in Nat : k = Cardinality(Payees) /\ m = Cardinality(Payees')
  <2>1. Cardinality(Payees) \in Nat
    BY PayeesFinite
  <2>2. Cardinality(Payees \cup {v}) \in Nat
    <3>1. PICK S : S = Payees /\ IsFiniteSet(S)
      BY PayeesFinite
    <3>2. IsFiniteSet(S \cup {v})
      BY <3>1, FS_AddElement
    <3>3. Cardinality(S \cup {v}) \in Nat
      BY <3>2, FS_CardinalityType
    <3> QED BY <3>1, <3>3
  <2>3. Cardinality(Payees') \in Nat
    BY <1>9, <2>1, <2>2
  <2> QED BY <2>1, <2>3
<1>11. m = IF p > 0 THEN k + 1 ELSE k
  <2>1. PICK S : S = Payees /\ IsFiniteSet(S) /\ v \notin S
    BY <1>8, PayeesFinite
  <2>2. Cardinality(S \cup {v}) = Cardinality(S) + 1
    BY <2>1, FS_AddElement
  <2> QED BY <1>9, <1>10, <2>1, <2>2
<1>12. /\ k <= 2 => b >= 0
       /\ k = 0 => cap >= 0 /\ 2 * cap <= b
       /\ k = 1 => cap >= 0 /\ cap <= b
  BY <1>0, <1>2, <1>3, <1>10 DEF Limits, CommitLiquidation
<1>13. (cap >= 0 => p <= cap) /\ (cap < 0 => p <= 0)
  BY <1>2 DEF Floor0
<1>14. m <= 2 => d >= 0
  <2>1. PICK other \in Int : other = 0
    OBVIOUS
  <2> QED BY <1>4, <1>11, <1>12, <1>13, <2>1, FundSums
<1>15. ASSUME NEW y \in Liquidators, step'[y] = "commit"
       PROVE  /\ m = 0 => mem'[y].cap >= 0 /\ 2 * mem'[y].cap <= d
              /\ m = 1 => mem'[y].cap >= 0 /\ mem'[y].cap <= d
  <2>1. y # w
    BY Zenon, <1>0, <1>15, CommitEffects
  <2>2. step[y] = "commit" /\ mem'[y] = mem[y]
    BY Zenon, <1>0, <1>15, <2>1, CommitEffects DEF Kept
  <2>3. PICK other \in Int : other = mem'[y].cap /\ other = mem[y].cap
    BY <2>2 DEF FundTypes
  <2>4. (k = 0 => other >= 0 /\ 2 * other <= b) /\ (k = 1 => other >= 0 /\ other <= b)
    BY <1>3, <1>10, <2>2, <2>3 DEF Limits
  <2>5. /\ m = 0 => other >= 0 /\ 2 * other <= d
        /\ m = 1 => other >= 0 /\ other <= d
    BY <1>4, <1>11, <1>12, <1>13, <2>4, FundSums
  <2> QED BY <2>3, <2>5
<1>16. \A y \in Users : IsOpen(y)' => cases'[y].paid = 0
  <2>1. PICK r : row' = [row EXCEPT ![u] = [r EXCEPT !.status = "liquidated"]]
    BY Zenon, <1>0, CommitEffects
  <2>2. ~IsOpen(v)'
    <3>1. row'[v] = [r EXCEPT !.status = "liquidated"]
      BY <1>0, <1>1, <2>1 DEF Shapes
    <3>2. row'[v].status \in {"liquidated"} \/ "status" \notin DOMAIN r
      BY <3>1
    <3>3. row'[v].status = "liquidated"
      BY <1>0, <1>1 DEF CommitLiquidation, Money, RowT
    <3> QED BY <3>3 DEF IsOpen
  <2>3. \A y \in Users : IsOpen(y)' => IsOpen(y)
    BY DEF Frame, IsOpen
  <2> QED BY <1>7, <2>2, <2>3 DEF Limits
<1> QED BY <1>3, <1>10, <1>14, <1>15, <1>16 DEF Limits

\* Nobody is listed twice.
Distinct(list) == \A i, j \in DOMAIN list : list[i].user = list[j].user => i = j

LEMMA TailDistinct ==
  ASSUME NEW list \in Seq(Ranked), list # << >>, Distinct(list)
  PROVE  /\ Distinct(Tail(list))
         /\ \A j \in DOMAIN Tail(list) : j + 1 \in DOMAIN list /\ Tail(list)[j] = list[j + 1]
         /\ \A j \in DOMAIN Tail(list) : Tail(list)[j].user # Head(list).user
<1>1. PICK n \in Nat : n = Len(list) /\ n > 0
  BY EmptySeq
<1>2. DOMAIN list = 1..n /\ DOMAIN Tail(list) = 1..(n - 1) /\ Head(list) = list[1]
  BY <1>1
<1>3. \A j \in 1..(n - 1) : Tail(list)[j] = list[j + 1] /\ j + 1 \in 1..n /\ j + 1 # 1
  BY <1>1
<1>4. 1 \in 1..n
  BY <1>1
<1>5. Distinct(Tail(list))
  <2> SUFFICES ASSUME NEW i \in 1..(n - 1), NEW j \in 1..(n - 1),
                      Tail(list)[i].user = Tail(list)[j].user
               PROVE  i = j
    BY <1>2 DEF Distinct
  <2>1. i + 1 = j + 1
    BY <1>2, <1>3 DEF Distinct
  <2> QED BY <2>1
<1>6. \A j \in 1..(n - 1) : Tail(list)[j].user # list[1].user
  BY <1>2, <1>3, <1>4 DEF Distinct
<1> QED BY <1>2, <1>3, <1>5, <1>6

LEMMA PartDistinct ==
  ASSUME NEW list \in Seq(Ranked), NEW n \in Nat, n <= Len(list), Distinct(list)
  PROVE  Distinct(SubSeq(list, 1, n))
<1>1. DOMAIN SubSeq(list, 1, n) = 1..n /\ \A i \in 1..n : SubSeq(list, 1, n)[i] = list[i]
      /\ 1..n \subseteq DOMAIN list
  OBVIOUS
<1> QED BY <1>1 DEF Distinct

\* Nobody is reduced twice for one victim.
ReduceInv ==
    /\ reduced \in Seq([victim : Users, user : Users, need : Int])
    /\ \A s \in {"long", "short"} : Distinct(ranks[s])
    /\ \A e, f \in ranker.seen : e.user = f.user => e = f
    /\ Distinct(mem["risk"].list)
    /\ \A i \in DOMAIN reduced : ~IsOpen(reduced[i].victim)
    /\ step["risk"] \in {"lock", "commit", "gap"} =>
          \A i \in DOMAIN reduced : reduced[i].victim # mem["risk"].user
    /\ step["risk"] \in {"gap", "adl", "adlpay"} => ~IsOpen(mem["risk"].user)
    /\ step["risk"] \in {"adl", "adlpay"} =>
          \A i \in DOMAIN reduced, j \in DOMAIN mem["risk"].list :
             reduced[i].victim = mem["risk"].user => reduced[i].user # mem["risk"].list[j].user
    /\ ReducedOncePerCase

LEMMA ElementOf ==
  ASSUME NEW T, NEW s \in Seq(T), NEW i \in DOMAIN s
  PROVE  s[i] \in T
OBVIOUS

\* Steps that reduce nobody and neither start a liquidation nor bring it to its gap.
LEMMA ReduceKept ==
  ASSUME ReduceInv, Frame, reduced' = reduced,
         \A s \in {"long", "short"} : Distinct(ranks'[s]),
         \A e, f \in ranker'.seen : e.user = f.user => e = f,
         mem'["risk"].user = mem["risk"].user \/ step'["risk"] = "idle",
         step["risk"] \in {"lock", "commit", "gap"} => mem["risk"].user \in Users,
         step["risk"] \in {"gap", "adl", "adlpay"} => mem["risk"].user \in Users,
         mem'["risk"].list \in Seq(Ranked), Distinct(mem'["risk"].list),
         \/ step'["risk"] \in {"idle", "pick"}
         \/ step'["risk"] \in {"lock", "commit"} /\ step["risk"] \in {"lock", "commit"}
         \/ step'["risk"] = "gap" /\ step["risk"] \in {"commit", "gap"} /\ ~IsOpen(mem["risk"].user)'
         \/ step'["risk"] = "adl" /\ step["risk"] = "gap"
         \/ /\ step'["risk"] \in {"adl", "adlpay"} /\ step["risk"] \in {"adl", "adlpay"}
            /\ \A j \in DOMAIN mem'["risk"].list : \E i \in DOMAIN mem["risk"].list :
                  mem'["risk"].list[j] = mem["risk"].list[i]
  PROVE  ReduceInv'
<1> USE DEF ReduceInv
<1>1. \A u \in Users : ~IsOpen(u) => ~IsOpen(u)'
  BY DEF Frame, IsOpen
<1>2. ASSUME NEW i \in DOMAIN reduced PROVE reduced[i].victim \in Users
  <2>1. reduced \in Seq([victim : Users, user : Users, need : Int])
    OBVIOUS
  <2>2. PICK old \in Seq([victim : Users, user : Users, need : Int]) : old = reduced
    BY <2>1
  <2>3. i \in DOMAIN old
    BY <2>2
  <2>5. old[i] \in [victim : Users, user : Users, need : Int]
    BY <2>3, ElementOf
  <2>4. reduced[i] \in [victim : Users, user : Users, need : Int]
    BY <2>2, <2>5
  <2> QED BY <2>4
<1>3. (\A i \in DOMAIN reduced : ~IsOpen(reduced[i].victim))'
  BY <1>1, <1>2 DEF IsOpen
<1>4. step'["risk"] \in {"lock", "commit", "gap"} =>
          \A i \in DOMAIN reduced' : reduced'[i].victim # mem'["risk"].user
  OBVIOUS
<1>5. step'["risk"] \in {"gap", "adl", "adlpay"} => ~IsOpen(mem["risk"].user)'
  BY <1>1 DEF IsOpen
<1>6. step'["risk"] \in {"adl", "adlpay"} =>
          \A i \in DOMAIN reduced', j \in DOMAIN mem'["risk"].list :
             reduced'[i].victim = mem'["risk"].user => reduced'[i].user # mem'["risk"].list[j].user
  OBVIOUS
<1>7. ReducedOncePerCase'
  BY DEF ReducedOncePerCase
<1> QED BY <1>3, <1>4, <1>5, <1>6, <1>7

LEMMA ClosingReduce ==
  ASSUME WorkInv, ReduceInv, Closing, Frame, Money'
  PROVE  ReduceInv'
<1>0. Shapes /\ Task /\ "risk" \in Liquidators /\ "sweep" \in Liquidators
  BY DEF WorkInv, RiskInv, OrderInv, Liquidators
<1>1. mem["risk"].list \in Seq(Ranked) /\ mem'["risk"].list \in Seq(Ranked)
      /\ ranks \in [{"long", "short"} -> Seq(Ranked)]
  BY <1>0 DEF WorkInv, Money
<1>2. step["risk"] # "idle" => mem["risk"].user \in Users
  BY Zenon, <1>0, RateAssumption DEF Task
<1>3. step["risk"] \in Labels
  BY Zenon, <1>0 DEF Task
<1>4. /\ \A s \in {"long", "short"} : Distinct(ranks[s])
      /\ \A e, f \in ranker.seen : e.user = f.user => e = f
      /\ Distinct(mem["risk"].list)
  BY DEF ReduceInv
<1>5. CASE /\ UNCHANGED <<reduced, ranks, ranker>> /\ Kept("risk")
  BY <1>1, <1>2, <1>3, <1>4, <1>5, ReduceKept DEF Kept, Labels, ReduceInv, Frame, IsOpen
<1>6. CASE Sweep \/ Pick
  BY <1>0, <1>5, <1>6, SweepEffects
<1>7. ASSUME NEW w \in Liquidators, LockPosition(w) PROVE ReduceInv'
  <2>1. CASE w = "sweep"
    BY <1>0, <1>5, <1>7, <2>1, LockEffects
  <2>2. CASE w = "risk"
    <3>1. /\ UNCHANGED <<reduced, ranks, ranker>> /\ step["risk"] = "lock"
          /\ \/ /\ step'["risk"] = "commit" /\ mem'["risk"].user = mem["risk"].user
                /\ mem'["risk"].list = mem["risk"].list
             \/ step'["risk"] = "idle" /\ mem' = mem
      BY <1>0, <1>7, <2>2, LockEffects DEF After
    <3> QED BY <1>1, <1>2, <1>4, <3>1, ReduceKept
  <2> QED BY <2>1, <2>2 DEF Liquidators
<1>8. ASSUME NEW w \in Liquidators, CommitLiquidation(w) PROVE ReduceInv'
  <2>1. CASE w = "sweep"
    BY Zenon, <1>0, <1>5, <1>8, <2>1, CommitEffects
  <2>2. CASE w = "risk"
    <3>1. /\ UNCHANGED <<reduced, ranks, ranker>> /\ step["risk"] = "commit"
          /\ step'["risk"] = "gap" /\ mem'["risk"].user = mem["risk"].user
          /\ mem'["risk"].list = mem["risk"].list
      BY Zenon, <1>0, <1>8, <2>2, CommitEffects
    <3>2. ~IsOpen(mem["risk"].user)'
      <4>1. row'[mem["risk"].user].status = "liquidated"
        BY ZenonT(40), <1>2, <1>8, <2>2, <3>1 DEF CommitLiquidation, WorkInv, Money, RowT
      <4> QED BY SMTT(30), <3>1, <4>1 DEF IsOpen
    <3> QED BY <1>1, <1>2, <1>4, <3>1, <3>2, ReduceKept
  <2> QED BY <2>1, <2>2 DEF Liquidators
<1>9. CASE Gap \/ AdlDone
  <2>1. UNCHANGED <<reduced, ranks, ranker>>
    BY <1>0, <1>9, GapEffects
  <2>2. CASE step'["risk"] = "idle" /\ mem'["risk"] = Clear
    <3>1. Distinct(mem'["risk"].list)
      BY <2>2, ClearMoney DEF Distinct
    <3> QED BY <1>1, <1>2, <1>4, <2>1, <2>2, <3>1, ReduceKept
  <2>3. CASE ~(step'["risk"] = "idle" /\ mem'["risk"] = Clear)
    <3> DEFINE all == ranks[Opp(row[mem["risk"].user].side)]
    <3>1. /\ step["risk"] = "gap" /\ step'["risk"] = "adl" /\ mem'["risk"].user = mem["risk"].user
          /\ mem'["risk"].list = SubSeq(all, 1, Lower(MaxPerAdl, Len(all)))
      BY <1>0, <1>9, <2>3, GapEffects
    <3>2. Opp(row[mem["risk"].user].side) \in {"long", "short"}
      BY DEF Opp
    <3>3. PICK a \in Seq(Ranked) : a = all /\ Distinct(a)
      BY <1>1, <1>4, <3>2
    <3>4. Lower(MaxPerAdl, Len(a)) \in Nat /\ Lower(MaxPerAdl, Len(a)) <= Len(a)
      <4>1. PICK n \in Nat : n = Len(a)
        OBVIOUS
      <4> QED BY SMTT(30), <4>1, AdlAssumption DEF Lower
    <3>5. Distinct(mem'["risk"].list)
      BY <3>1, <3>3, <3>4, PartDistinct
    <3> QED BY Zenon, <1>1, <1>2, <1>4, <2>1, <3>1, <3>5, ReduceKept
  <2> QED BY <2>2, <2>3
<1>10. CASE AdlReduce
  <2>1. /\ step["risk"] = "adl" /\ mem["risk"].list # << >> /\ UNCHANGED <<reduced, ranks, ranker>>
        /\ mem'["risk"].user = mem["risk"].user
        /\ \/ step'["risk"] = "adlpay" /\ mem' = mem
           \/ step'["risk"] = "adl" /\ mem'["risk"].list = Tail(mem["risk"].list)
    BY Zenon, <1>0, <1>10, AdlReduceEffects
  <2>2. PICK list \in Seq(Ranked) : list = mem["risk"].list /\ list # << >> /\ Distinct(list)
    BY <1>1, <1>4, <2>1
  <2>3. Distinct(Tail(list)) /\ \A j \in DOMAIN Tail(list) : \E i \in DOMAIN list : Tail(list)[j] = list[i]
    BY <2>2, TailDistinct
  <2>4. /\ Distinct(mem'["risk"].list)
        /\ \A j \in DOMAIN mem'["risk"].list : \E i \in DOMAIN mem["risk"].list :
                  mem'["risk"].list[j] = mem["risk"].list[i]
    <3>1. CASE mem' = mem
      BY <1>4, <3>1
    <3>2. CASE mem'["risk"].list = Tail(list)
      BY <2>2, <2>3, <3>2
    <3> QED BY <2>1, <2>2, <3>1, <3>2
  <2> QED BY <1>1, <1>2, <1>4, <2>1, <2>4, ReduceKept
<1>11. CASE AdlPay
  <2> DEFINE entry == [victim |-> mem["risk"].user, user |-> Head(mem["risk"].list).user,
                       need |-> mem["risk"].gap]
  <2>1. /\ step["risk"] = "adlpay" /\ step'["risk"] = "adl"
        /\ UNCHANGED <<row, ranks, ranker>>
        /\ mem'["risk"].user = mem["risk"].user
        /\ mem'["risk"].list = Tail(mem["risk"].list)
        /\ reduced' = Append(reduced, entry)
    BY <1>0, <1>11, AdlPayEffects
  <2>2. PICK list \in Seq(Ranked) : list = mem["risk"].list /\ list # << >> /\ Distinct(list)
    BY <1>1, <1>4, <2>1 DEF WorkInv, Money
  <2>3. PICK old \in Seq([victim : Users, user : Users, need : Int]) : old = reduced
    BY DEF ReduceInv
  <2>4. PICK v \in Users : v = mem["risk"].user /\ ~IsOpen(v)
    BY <1>2, <2>1 DEF ReduceInv
  <2>5. entry \in [victim : Users, user : Users, need : Int]
    <3>1. Head(list) \in Ranked
      BY <2>2
    <3>2. mem["risk"].gap \in Int
      BY <1>0 DEF WorkInv, Money
    <3> QED BY <2>2, <2>4, <3>1, <3>2 DEF Ranked
  <2>6. PICK h : h = Head(list).user
    OBVIOUS
  <2>7. PICK e \in [victim : Users, user : Users, need : Int] :
          e = entry /\ e.victim = v /\ e.user = h
    BY <2>2, <2>4, <2>5, <2>6
  <2>8. PICK n \in Nat : n = Len(old) /\ DOMAIN old = 1..n
    OBVIOUS
  <2>9. /\ reduced' \in Seq([victim : Users, user : Users, need : Int])
        /\ DOMAIN reduced' = 1..(n + 1) /\ reduced'[n + 1] = e
        /\ \A i \in 1..n : reduced'[i] = old[i]
    <3> HIDE DEF entry
    <3>1. reduced' = Append(old, e)
      BY <2>1, <2>3, <2>7
    <3> QED BY <2>8, <3>1
  <2>10. \A i \in 1..(n + 1) : i = n + 1 \/ i \in 1..n
    OBVIOUS
  <2>11. \A i \in 1..n, j \in DOMAIN list : old[i].victim = v => old[i].user # list[j].user
    BY ZenonT(40), <2>1, <2>2, <2>3, <2>4, <2>8 DEF ReduceInv
  <2>12. 1 \in DOMAIN list /\ Head(list) = list[1]
    BY <2>2, EmptySeq
  <2>13. /\ Distinct(Tail(list))
         /\ \A j \in DOMAIN Tail(list) : j + 1 \in DOMAIN list /\ Tail(list)[j] = list[j + 1]
         /\ \A j \in DOMAIN Tail(list) : Tail(list)[j].user # h
    BY <2>2, <2>6, TailDistinct
  <2>14. (\A i \in DOMAIN reduced : ~IsOpen(reduced[i].victim))'
    <3>1. \A i \in 1..n : ~IsOpen(old[i].victim)
      BY <2>3, <2>8 DEF ReduceInv
    <3>2. \A i \in 1..(n + 1) : ~IsOpen(reduced'[i].victim)
      BY Zenon, <2>4, <2>7, <2>9, <2>10, <3>1
    <3>3. \A i \in DOMAIN reduced' : row[reduced'[i].victim].status # "open"
      BY Zenon, <2>9, <3>2 DEF IsOpen
    <3> QED BY Zenon, <2>1, <3>3 DEF IsOpen
  <2>15. \A i \in DOMAIN reduced', j \in DOMAIN mem'["risk"].list :
             reduced'[i].victim = mem'["risk"].user => reduced'[i].user # mem'["risk"].list[j].user
    <3>1. ASSUME NEW i \in 1..(n + 1), NEW j \in DOMAIN Tail(list), reduced'[i].victim = v
          PROVE  reduced'[i].user # Tail(list)[j].user
      <4>1. CASE i = n + 1
        BY <2>7, <2>9, <2>13, <4>1
      <4>2. CASE i \in 1..n
        BY <2>9, <2>11, <2>13, <3>1, <4>2
      <4> QED BY <2>10, <4>1, <4>2
    <3>2. mem'["risk"].list = Tail(list) /\ mem'["risk"].user = v /\ DOMAIN reduced' = 1..(n + 1)
      BY <2>1, <2>2, <2>4, <2>9
    <3> QED BY <3>1, <3>2
  <2>16. ReducedOncePerCase'
    <3>1. \A i, j \in 1..n : old[i].victim = old[j].victim /\ old[i].user = old[j].user => i = j
      BY <2>3, <2>8 DEF ReduceInv, ReducedOncePerCase
    <3>2. \A i \in 1..n : ~(old[i].victim = v /\ old[i].user = h)
      BY <2>6, <2>11, <2>12
    <3>3. \A i, j \in 1..(n + 1) :
            reduced'[i].victim = reduced'[j].victim /\ reduced'[i].user = reduced'[j].user => i = j
      BY <2>7, <2>9, <2>10, <3>1, <3>2
    <3> QED BY <2>9, <3>3 DEF ReducedOncePerCase
  <2>17. ~IsOpen(mem["risk"].user)'
    BY <2>1, <2>4 DEF IsOpen
  <2> QED BY <1>4, <2>1, <2>2, <2>9, <2>13, <2>14, <2>15, <2>16, <2>17 DEF ReduceInv
<1> QED BY <1>6, <1>7, <1>8, <1>9, <1>10, <1>11 DEF Closing

LEMMA RankReduce ==
  ASSUME WorkInv, ReduceInv, Ranking, Frame
  PROVE  ReduceInv'
<1> USE DEF rowsAndMoney
<1>0. UNCHANGED <<reduced, step, mem>>
  BY DEF Ranking, RankRead, RankWrite
<1>1. Shapes /\ Task /\ "risk" \in Liquidators
  BY DEF WorkInv, RiskInv, OrderInv, Liquidators
<1>2. mem["risk"].list \in Seq(Ranked) /\ (step["risk"] # "idle" => mem["risk"].user \in Users)
      /\ step["risk"] \in Labels
  BY Zenon, <1>1, RateAssumption DEF WorkInv, Money, Task
<1>3. /\ \A s \in {"long", "short"} : Distinct(ranks'[s])
      /\ \A e, f \in ranker'.seen : e.user = f.user => e = f
  <2>1. CASE RankRead
    <3> DEFINE ranked == {x \in Users : IsOpen(x) /\ row[x].tokens > 0 /\ RankPnl(row[x]) > 0}
               entry(u) == [user |-> u, side |-> row[u].side, size |-> row[u].size,
                            pnl |-> RankPnl(row[u]),
                            score |-> (100 * RankPnl(row[u])) \div Higher(row[u].coll, 1)]
    <3>1. ranker'.seen = {entry(u) : u \in ranked} /\ ranks' = ranks
      BY <2>1 DEF RankRead
    <3>2. \A u \in ranked : entry(u).user = u
      OBVIOUS
    <3> HIDE DEF entry, ranked
    <3> QED BY <3>1, <3>2 DEF ReduceInv
  <2>2. CASE RankWrite
    <3>1. ranker' = [ranker EXCEPT !.busy = FALSE, !.seen = {}]
      BY <2>2 DEF RankWrite
    <3>2. ranker'.seen = {}
      BY <3>1 DEF WorkInv, Money
    <3>3. PICK long \in SetToSeqs({e \in ranker.seen : e.side = "long"}),
               short \in SetToSeqs({e \in ranker.seen : e.side = "short"}) :
            ranks' = [s \in {"long", "short"} |-> IF s = "long" THEN long ELSE short]
      BY <2>2 DEF RankWrite, Replaced
    <3>4. ASSUME NEW side, NEW list \in SetToSeqs({e \in ranker.seen : e.side = side})
          PROVE  Distinct(list)
      <4>1. PICK S : S = {e \in ranker.seen : e.side = side}
        OBVIOUS
      <4>2. S \in SUBSET Ranked /\ IsFiniteSet(S)
        <5>1. S \subseteq ranker.seen /\ ranker.seen \subseteq Ranked /\ IsFiniteSet(ranker.seen)
          BY <4>1 DEF WorkInv, Money
        <5> QED BY <5>1, FS_Subset
      <4>3. (\A i \in DOMAIN list : list[i] \in S) /\ \A i, j \in DOMAIN list : i # j => list[i] # list[j]
        <5>1. list \in SetToSeqs(S)
          BY <3>4, <4>1
        <5> QED BY <4>2, <5>1, SomeOrder
      <4>4. \A i \in DOMAIN list : list[i] \in ranker.seen
        BY <4>1, <4>3
      <4> QED BY <4>3, <4>4 DEF Distinct, ReduceInv
    <3>5. Distinct(long) /\ Distinct(short)
      BY <3>3, <3>4
    <3> QED BY <3>2, <3>3, <3>5
  <2> QED BY <2>1, <2>2 DEF Ranking
<1>4. Distinct(mem["risk"].list)
  BY DEF ReduceInv
<1>5. step["risk"] \in {"gap", "adl", "adlpay"} => ~IsOpen(mem["risk"].user)'
  BY <1>0, <1>2 DEF ReduceInv, Frame, IsOpen, Labels
<1> QED BY <1>0, <1>2, <1>3, <1>4, <1>5, ReduceKept DEF Labels, IsOpen

LEMMA ElseReduce ==
  ASSUME WorkInv, ReduceInv, Frame,
         People \/ Worker \/ (\E u \in Unified : PlaceGate(u) \/ PlaceInsert(u) \/ UserCancels(u))
           \/ Crash \/ UNCHANGED riskVars
  PROVE  ReduceInv'
<1> USE DEF rowsAndMoney, liqVars, riskOnly
<1>1. Shapes /\ Task /\ "risk" \in Liquidators
  BY DEF WorkInv, RiskInv, OrderInv, Liquidators
<1>2. mem["risk"].list \in Seq(Ranked) /\ (step["risk"] # "idle" => mem["risk"].user \in Users)
      /\ step["risk"] \in Labels
  BY Zenon, <1>1, RateAssumption DEF WorkInv, Money, Task
<1>3. /\ \A s \in {"long", "short"} : Distinct(ranks[s])
      /\ \A e, f \in ranker.seen : e.user = f.user => e = f
      /\ Distinct(mem["risk"].list)
  BY DEF ReduceInv
<1>5. CASE UNCHANGED <<reduced, step, mem, ranks, ranker>>
  <2>1. step["risk"] \in {"gap", "adl", "adlpay"} => ~IsOpen(mem["risk"].user)'
    BY SMTT(30), <1>2, <1>5 DEF ReduceInv, Frame, IsOpen, Labels
  <2> QED BY <1>2, <1>3, <1>5, <2>1, ReduceKept DEF Labels, IsOpen
<1>6. CASE People \/ UNCHANGED riskVars
           \/ \E u \in Unified : PlaceGate(u) \/ PlaceInsert(u) \/ UserCancels(u)
  BY ZenonT(40), <1>5, <1>6 DEF People, MoveMark, ClosePart, PlaceGate, PlaceInsert, UserCancels, riskVars
<1>7. CASE Worker /\ ~Forced
  BY Zenon, <1>5, <1>7 DEF Worker, TickBalances, TickPositions, TickEnd, Visit, CancelList, CancelFlip,
                    CancelRefund, CancelErrs
<1>8. CASE Forced
  <2>1. UNCHANGED <<row, reduced, ranks, ranker>>
    BY <1>8 DEF Forced
  <2>2. CASE UNCHANGED <<step, mem>>
    BY <1>5, <2>1, <2>2
  <2>3. CASE IsOpen(tick.user) /\ LiquidateOne(tick.user)
    <3> DEFINE local == [Clear EXCEPT !.user = tick.user, !.seen = row[tick.user], !.price = mark]
    <3>1. mem' = [mem EXCEPT !["risk"] = local] /\ step' = [step EXCEPT !["risk"] = "lock"]
      BY <2>3 DEF LiquidateOne, Next1
    <3>2. local.user = tick.user /\ local.list = << >>
      BY ClearIs, ClearMoney
    <3> HIDE DEF local
    <3>3. step'["risk"] = "lock" /\ mem'["risk"] = local
      BY <1>1, <3>1, ChangeOf
    <3>4. \A i \in DOMAIN reduced : reduced[i].victim # tick.user
      BY <2>3 DEF ReduceInv
    <3>5. Distinct(mem'["risk"].list)
      BY <3>2, <3>3 DEF Distinct
    <3> QED BY <2>1, <3>2, <3>3, <3>4, <3>5 DEF ReduceInv, ReducedOncePerCase, IsOpen
  <2> QED BY <1>8, <2>2, <2>3 DEF Forced
<1>9. CASE Crash
  <2>1. /\ UNCHANGED <<row, reduced, ranks>> /\ step' = [w \in Liquidators |-> "idle"]
        /\ mem' = [w \in Liquidators |-> Clear] /\ ranker' = [ranker EXCEPT !.busy = FALSE, !.seen = {}]
    BY <1>9 DEF Crash, LiqCrash
  <2>2. ranker'.seen = {}
    BY <2>1 DEF WorkInv, Money
  <2>3. step'["risk"] = "idle" /\ mem'["risk"] = Clear
    BY <1>1, <2>1
  <2>4. Distinct(mem'["risk"].list) /\ mem'["risk"].list \in Seq(Ranked)
    BY <2>3, ClearMoney DEF Distinct
  <2> QED BY <1>2, <1>3, <2>1, <2>2, <2>3, <2>4, ReduceKept
<1> QED BY <1>6, <1>7, <1>8, <1>9

LEMMA ReduceStep ==
  ASSUME WorkInv, ReduceInv, [RiskNext]_riskVars
  PROVE  ReduceInv'
<1>1. Frame /\ Money'
  BY RiskStep, WorkStep DEF WorkInv
<1> QED BY <1>1, ClosingReduce, RankReduce, ElseReduce DEF RiskNext

LEMMA LimitsStep ==
  ASSUME WorkInv, Limits, [RiskNext]_riskVars, FundCapPct <= 50
  PROVE  Limits'
<1>1. Frame /\ FundTypes'
  BY RiskStep, WorkStep DEF WorkInv
<1>2. RiskInv /\ Money /\ FundTypes /\ Shapes
  BY DEF WorkInv, RiskInv
<1>3. CASE ~ \E w \in Liquidators : LockPosition(w) \/ CommitLiquidation(w)
  BY <1>1, <1>2, <1>3, KeptFund, LimitsKept
<1> QED BY <1>1, <1>2, <1>3, LimitsLock, LimitsCommit

LEMMA CoveredInit == RiskInit => ReduceInv /\ Limits
<1> SUFFICES ASSUME RiskInit PROVE ReduceInv /\ Limits
  OBVIOUS
<1>1. /\ fund = [balance |-> FundSeed, in |-> 0, out |-> 0] /\ cases = [u \in Users |-> NoCase]
      /\ mem = [w \in Liquidators |-> Clear] /\ step = [w \in Liquidators |-> "idle"]
      /\ reduced = << >> /\ ranks = [s \in {"long", "short"} |-> << >>]
      /\ ranker = [busy |-> FALSE, seen |-> {}, runs |-> 0]
  BY DEF RiskInit, LiqInit
<1>2. step["risk"] = "idle" /\ mem["risk"] = Clear
  BY <1>1 DEF Liquidators
<1>3. ReduceInv
  <2>1. Distinct(<< >>)
    BY DEF Distinct
  <2>2. Distinct(mem["risk"].list)
    BY <1>2, <2>1, ClearMoney
  <2> QED BY <1>1, <1>2, <2>1, <2>2 DEF ReduceInv, ReducedOncePerCase
<1>4. Limits
  <2>1. NoCase.paid = 0
    BY DEF NoCase
  <2>2. \A u \in Users : cases[u].paid = 0
    BY <1>1, <2>1
  <2> QED BY <1>1, <2>2, RateAssumption DEF Limits
<1> QED BY <1>3, <1>4

\* One case takes from the others once and no more than is there.  As long as the fund
\* pays at most half of what it has to one case (the configured rate is 50 %), two
\* payouts that both read the fund before either was written leave it covered; and ADL
\* reduces a user once for each liquidation, however old the ranking it follows.
THEOREM CasesCovered ==
  ASSUME FundCapPct <= 50
  PROVE  RiskSpec => []CoveredOnce
<1> DEFINE All == WorkInv /\ ReduceInv /\ Limits
<1>1. RiskInit => All
  BY WorkInit, CoveredInit
<1>2. All /\ [RiskNext]_riskVars => All'
  BY WorkStep, ReduceStep, LimitsStep
<1>3. All => CoveredOnce
  BY DEF WorkInv, FundTypes, ReduceInv, Limits, Payees, CoveredOnce, FundNotOverdrawn
<1> QED BY <1>1, <1>2, <1>3, PTL DEF RiskSpec

(***************************************************************************)
(* The connections and the lock of increase_position.                      *)
(***************************************************************************)

AtLabels == {"away", "begin", "lock", "work", "statement", "end", "done", "failed"}
Inside   == {"work", "statement", "end"}
InStatement == {c \in Callers : at[c] = "statement"}

\* A caller holds the lock of its key exactly while it is inside the critical
\* section.
HeldInside == \A k \in Keys, c \in Callers :
    holder[k] = c <=> KeyOf[c] = k /\ at[c] \in Inside

PoolTypes ==
    /\ at \in [Callers -> AtLabels]
    /\ holder \in [Keys -> Callers \cup {NoCaller}]

PoolInv == PoolTypes /\ HeldInside /\ Free >= 0

(***************************************************************************)
(* The lock.                                                               *)
(***************************************************************************)

LEMMA KeyIsKey == \A c \in Callers : KeyOf[c] \in Keys
BY DEF Keys

LEMMA PoolInitInv == PoolInit => PoolInv
<1> SUFFICES ASSUME PoolInit PROVE PoolInv
  OBVIOUS
<1>1. PoolTypes
  BY DEF PoolInit, PoolTypes, AtLabels
<1>2. HeldInside
  BY CallerAssumption DEF PoolInit, HeldInside, Inside
<1>3. Free >= 0
  <2>1. InTx = {} /\ {c \in Callers : at[c] = "statement"} = {}
    BY DEF PoolInit, InTx
  <2>2. Cardinality({}) = 0
    BY FS_EmptySet
  <2> QED BY <2>1, <2>2, PoolAssumption DEF Free
<1> QED BY <1>1, <1>2, <1>3 DEF PoolInv

LEMMA PoolNextTypes ==
  ASSUME PoolTypes, PoolNext
  PROVE  PoolTypes'
<1>1. PICK c \in Callers :
    \/ EnterIncrease(c) \/ BeginTx(c) \/ BeginTimeout(c) \/ TakeAdvisory(c) \/ LockTimeout(c)
    \/ StartStatement(c) \/ EndStatement(c) \/ GiveUp(c) \/ EndTx(c) \/ Leave(c)
  BY DEF PoolNext
<1>2. KeyOf[c] \in Keys
  BY KeyIsKey
<1> QED
  BY <1>1, <1>2 DEF PoolTypes, AtLabels, GoTo, LetGo, EnterIncrease, BeginTx, BeginTimeout,
     TakeAdvisory, LockTimeout, StartStatement, EndStatement, GiveUp, EndTx, Leave

LEMMA PoolNextHeld ==
  ASSUME PoolTypes, HeldInside, PoolNext
  PROVE  HeldInside'
<1> USE DEF PoolTypes, HeldInside, Inside, GoTo
<1>0. \A c \in Callers : c # NoCaller
  BY CallerAssumption
<1>1. PICK c \in Callers :
    \/ EnterIncrease(c) \/ BeginTx(c) \/ BeginTimeout(c) \/ TakeAdvisory(c) \/ LockTimeout(c)
    \/ StartStatement(c) \/ EndStatement(c) \/ GiveUp(c) \/ EndTx(c) \/ Leave(c)
  BY DEF PoolNext
<1>2. KeyOf[c] \in Keys
  BY KeyIsKey
<1>3. CASE EnterIncrease(c) \/ BeginTx(c) \/ BeginTimeout(c) \/ LockTimeout(c) \/ Leave(c)
  BY <1>3 DEF EnterIncrease, BeginTx, BeginTimeout, LockTimeout, Leave
<1>4. CASE StartStatement(c) \/ EndStatement(c)
  BY <1>4 DEF StartStatement, EndStatement
<1>5. CASE TakeAdvisory(c)
  BY <1>0, <1>2, <1>5 DEF TakeAdvisory
<1>6. CASE GiveUp(c) \/ EndTx(c)
  BY <1>0, <1>2, <1>6 DEF GiveUp, EndTx, LetGo
<1> QED BY <1>1, <1>3, <1>4, <1>5, <1>6

(***************************************************************************)
(* The connections.                                                        *)
(***************************************************************************)

LEMMA CountsFinite ==
  /\ IsFiniteSet(InTx) /\ Cardinality(InTx) \in Nat
  /\ IsFiniteSet(InStatement) /\ Cardinality(InStatement) \in Nat
<1>1. InTx \in SUBSET Callers /\ InStatement \in SUBSET Callers
  BY DEF InTx, InStatement
<1> QED BY <1>1, CallerAssumption, FS_Subset, FS_CardinalityType

\* A caller enters the transaction: one connection less.
LEMMA TxGrows ==
  ASSUME PoolTypes, NEW c \in Callers, at[c] = "begin", GoTo(c, "lock"), Free > 0
  PROVE  Free' >= 0
<1>1. InTx' = InTx \cup {c} /\ InStatement' = InStatement /\ c \notin InTx
  BY DEF PoolTypes, GoTo, InTx, InStatement
<1>2. Cardinality(InTx') = Cardinality(InTx) + 1
  BY <1>1, CountsFinite, FS_AddElement
<1>3. Cardinality(InStatement') = Cardinality(InStatement)
  BY <1>1
<1>4. Connections - Cardinality(InTx) - Cardinality(InStatement) > 0
  BY DEF Free, InStatement
<1>5. Free' = Connections - Cardinality(InTx') - Cardinality(InStatement')
  BY DEF Free, InStatement
<1> QED BY <1>2, <1>3, <1>4, <1>5, CountsFinite, PoolAssumption

\* A statement starts: one connection less.
LEMMA StatementGrows ==
  ASSUME PoolTypes, NEW c \in Callers, at[c] = "work", GoTo(c, "statement"), Free > 0
  PROVE  Free' >= 0
<1>1. InTx' = InTx /\ InStatement' = InStatement \cup {c} /\ c \notin InStatement
  BY DEF PoolTypes, GoTo, InTx, InStatement
<1>2. Cardinality(InStatement') = Cardinality(InStatement) + 1
  BY <1>1, CountsFinite, FS_AddElement
<1> QED BY <1>1, <1>2, CountsFinite, PoolAssumption DEF Free, InStatement

\* Every other step takes no connection.
LEMMA CountsShrink ==
  ASSUME PoolTypes, Free >= 0, InTx' \subseteq InTx, InStatement' \subseteq InStatement
  PROVE  Free' >= 0
<1>1. /\ Cardinality(InTx') \in Nat /\ Cardinality(InTx') <= Cardinality(InTx)
      /\ Cardinality(InStatement') \in Nat
      /\ Cardinality(InStatement') <= Cardinality(InStatement)
  BY CountsFinite, FS_Subset, FS_CardinalityType
<1> QED BY <1>1, CountsFinite, PoolAssumption DEF Free, InStatement

LEMMA PoolNextFree ==
  ASSUME PoolTypes, Free >= 0, PoolNext
  PROVE  Free' >= 0
<1>1. PICK c \in Callers :
    \/ EnterIncrease(c) \/ BeginTx(c) \/ BeginTimeout(c) \/ TakeAdvisory(c) \/ LockTimeout(c)
    \/ StartStatement(c) \/ EndStatement(c) \/ GiveUp(c) \/ EndTx(c) \/ Leave(c)
  BY DEF PoolNext
<1>2. CASE BeginTx(c)
  BY <1>2, TxGrows DEF BeginTx
<1>3. CASE StartStatement(c)
  BY <1>3, StatementGrows DEF StartStatement
<1>4. ASSUME ~BeginTx(c), ~StartStatement(c)
      PROVE  InTx' \subseteq InTx /\ InStatement' \subseteq InStatement
  BY <1>1, <1>4 DEF PoolTypes, InTx, InStatement, GoTo, EnterIncrease, BeginTimeout,
     TakeAdvisory, LockTimeout, EndStatement, GiveUp, EndTx, Leave
<1> QED BY <1>2, <1>3, <1>4, CountsShrink

-----------------------------------------------------------------------------
\* A call of increase_position that is over holds no lock and no connection,
\* whatever timer ended it, and the pool is never overdrawn: for every number of
\* callers, keys and connections.
THEOREM NobodyHolds == PoolSpec => []NothingHeld
<1>1. PoolInit => PoolInv
  BY PoolInitInv
<1>2. PoolInv /\ [PoolNext]_poolVars => PoolInv'
  <2> SUFFICES ASSUME PoolInv, [PoolNext]_poolVars PROVE PoolInv'
    OBVIOUS
  <2>1. CASE PoolNext
    BY <2>1, PoolNextTypes, PoolNextHeld, PoolNextFree DEF PoolInv
  <2>2. CASE UNCHANGED poolVars
    <3>1. InTx' = InTx /\ InStatement' = InStatement
      BY <2>2 DEF poolVars, InTx, InStatement
    <3>2. Free' >= 0
      BY <3>1, CountsShrink DEF PoolInv
    <3> QED BY <2>2, <3>2 DEF PoolInv, poolVars, PoolTypes, HeldInside
  <2> QED BY <2>1, <2>2
<1>3. PoolInv => NothingHeld
  BY DEF PoolInv, PoolTypes, HeldInside, NothingHeld, Inside
<1> QED BY <1>1, <1>2, <1>3, PTL DEF PoolSpec
=============================================================================
