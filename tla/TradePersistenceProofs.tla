----------------------- MODULE TradePersistenceProofs -----------------------
(***************************************************************************)
(* Theorems about TradePersistence for every number of trades, permits,    *)
(* retries, failures, panics and crashes: every variable keeps its type, a *)
(* trade's fill is booked exactly once with its row, a marker is only ever *)
(* set on a trade whose two legs took effect, and each leg takes effect at *)
(* most once unless an update of the trade was disturbed.  And, after the  *)
(* pipeline, about the orders whose fills it books: those of an API key    *)
(* (DeveloperTrade) stay gone once a cancel took them out, and their       *)
(* margin is covered and whole, for any number of handlers and requests.   *)
(***************************************************************************)
EXTENDS TradePersistence, DeveloperTrade, SumFacts, TLAPS

Safe == TypeOK /\ FilledOncePerTrade

(***************************************************************************)
(* Types and the single booking of a trade's fill.                         *)
(***************************************************************************)

LEMMA InitSafe == Init => Safe
<1> SUFFICES ASSUME Init PROVE Safe
  OBVIOUS
<1> USE UpdaterAssumption
<1>1. StoreOK
  BY DEF Init, StoreOK, Legs
<1>2. StepOK
  <2>1. pc = [u \in Updaters |-> IF u = Recovery THEN "idle" ELSE "unborn"]
    BY DEF Init
  <2>2. pc[Recovery] = "idle" /\ \A t \in Trades : pc[t] = "unborn"
    BY <2>1 DEF Updaters
  <2> QED BY <2>1, <2>2 DEF StepOK, TaskLabels, RecoveryLabels, Updaters
<1>3. /\ queue \in Seq(Trades) /\ batch \subseteq Trades /\ target \in Trades \cup {None}
      /\ attempts \in [Trades -> Nat] /\ tries \in [Trades -> Nat]
      /\ made \in [Updaters -> BOOLEAN]
  BY DEF Init
<1>4. pc[Recovery] \notin Updating
  BY DEF Init, Updating, Updaters
<1>5. FilledOncePerTrade
  BY DEF Init, FilledOncePerTrade
<1> QED BY <1>1, <1>2, <1>3, <1>4, <1>5 DEF Safe, TypeOK

\* A task moves to a label of a task, the recovery worker to one of its own.
LEMMA TaskMoves ==
  ASSUME StepOK, NEW t \in Trades, NEW l \in TaskLabels, Goto(t, l)
  PROVE  StepOK' /\ pc'[Recovery] = pc[Recovery]
BY UpdaterAssumption DEF StepOK, Goto, Updaters

LEMMA RecoveryMoves ==
  ASSUME StepOK, NEW l \in RecoveryLabels, Goto(Recovery, l)
  PROVE  StepOK' /\ pc'[Recovery] = l
BY UpdaterAssumption DEF StepOK, Goto, Updaters

\* Each step that moves a trade towards the database keeps the types.
LEMMA TaskSafe ==
  ASSUME Safe, NEW t \in Trades, Emit(t) \/ Send(t) \/ Acquire(t) \/ Persist(t) \/ DeadLetter(t)
  PROVE  Safe'
<1>1. \E l \in TaskLabels : Goto(t, l)
  BY DEF Emit, Send, Acquire, Persist, DeadLetter, TaskLabels, Waiting, Updating
<1>2. StepOK' /\ pc'[Recovery] = pc[Recovery]
  BY <1>1, TaskMoves DEF Safe, TypeOK
<1>3. /\ target' = target /\ batch' = batch /\ made' = made /\ tries' = tries
      /\ legs' = legs /\ synced' = synced /\ flagged' = flagged /\ disturbed' = disturbed
      /\ panics' = panics /\ crashes' = crashes
  BY DEF Emit, Send, Acquire, Persist, DeadLetter, Fails, Works, db, env
<1>4. queue' \in Seq(Trades)
  <2>1. queue \in Seq(Trades) /\ (queue' = queue \/ queue' = Append(queue, t))
    BY DEF Emit, Send, Acquire, Persist, DeadLetter, Safe, TypeOK
  <2> QED BY <2>1
<1>5. attempts' \in [Trades -> Nat] /\ faults' \in Nat /\ dlq' \subseteq Trades
  BY SMTT(30) DEF Emit, Send, Acquire, Persist, DeadLetter, Fails, Works, env, db, Safe, TypeOK, StoreOK
<1>6. /\ rows' \subseteq Trades /\ fills' \in [Trades -> Nat]
      /\ FilledOncePerTrade'
  <2>1. \/ UNCHANGED <<rows, fills>>
        \/ t \notin rows /\ Commit(t)
    BY DEF Emit, Send, Acquire, Persist, DeadLetter, db
  <2> QED BY <2>1 DEF Commit, FilledOncePerTrade, Safe, TypeOK, StoreOK
<1> QED
  BY <1>2, <1>3, <1>4, <1>5, <1>6 DEF Safe, TypeOK, StoreOK

LEMMA ReceiveSafe == ASSUME Safe, Receive PROVE Safe'
<1>1. queue \in Seq(Trades) /\ queue # <<>> /\ queue' = Tail(queue)
  BY DEF Safe, TypeOK, Receive
<1>2. Head(queue) \in Trades /\ queue' \in Seq(Trades)
  BY <1>1
<1>3. StepOK' /\ pc'[Recovery] = pc[Recovery]
  BY <1>2, TaskMoves DEF Receive, Safe, TypeOK, TaskLabels, Waiting
<1> QED
  BY <1>2, <1>3 DEF Receive, Safe, TypeOK, StoreOK, FilledOncePerTrade, env, db

\* An update is at work on a trade.
LEMMA UpdateTrade ==
  ASSUME TypeOK, NEW u \in Updaters, pc[u] \in Updating
  PROVE  TradeOf(u) \in Trades
BY DEF TypeOK, TradeOf, Updaters

\* Where the step of an update may lead.
LEMMA UpdateLabels ==
  ASSUME NEW u \in Updaters, Update(u)
  PROVE  /\ pc[u] \in Updating
         /\ \E l \in {"guard", "maker", "taker", "record", "flag", "pick", "done"} :
              Goto(u, l) /\ (u = Recovery => l # "done") /\ (u # Recovery => l # "pick")
<1>1. CASE Guard(u)
  BY <1>1 DEF Guard, Updating
<1>2. CASE MakerLeg(u)
  BY <1>2 DEF MakerLeg, Updating
<1>3. CASE TakerLeg(u)
  <2>1. pc[u] = "taker" /\ (Goto(u, "record") \/ GiveBack(u))
    BY <1>3 DEF TakerLeg
  <2> QED BY <2>1 DEF GiveBack, Updating
<1>4. CASE Record(u)
  BY <1>4 DEF Record, Updating
<1>5. CASE Flag(u)
  BY <1>5 DEF Flag, Updating
<1> QED BY <1>1, <1>2, <1>3, <1>4, <1>5 DEF Update

\* What the effect of one leg does to the counts.
LEMMA LegCount ==
  ASSUME legs \in [Trades -> [Legs -> Nat]], NEW t \in Trades, NEW l \in Legs, LegEffect(t, l)
  PROVE  /\ legs' \in [Trades -> [Legs -> Nat]]
         /\ \A a \in Trades, k \in Legs :
              legs'[a][k] = IF a = t /\ k = l THEN legs[a][k] + 1 ELSE legs[a][k]
<1> DEFINE row == [legs[t] EXCEPT ![l] = legs[t][l] + 1]
<1>1. row \in [Legs -> Nat] /\ row[l] = legs[t][l] + 1
      /\ \A k \in Legs \ {l} : row[k] = legs[t][k]
  OBVIOUS
<1>2. legs' = [legs EXCEPT ![t] = row]
  BY DEF LegEffect
<1> HIDE DEF row
<1> QED BY <1>1, <1>2

\* Each step of an update, whoever makes it, keeps the types.
LEMMA UpdateSafe ==
  ASSUME Safe, NEW u \in Updaters, Update(u)
  PROVE  Safe'
<1>1. TradeOf(u) \in Trades
  BY UpdateLabels, UpdateTrade DEF Safe
<1>2. StepOK' /\ (u # Recovery => pc'[Recovery] = pc[Recovery])
  <2>1. PICK l \in {"guard", "maker", "taker", "record", "flag", "pick", "done"} :
          Goto(u, l) /\ (u = Recovery => l # "done") /\ (u # Recovery => l # "pick")
    BY UpdateLabels
  <2>2. CASE u = Recovery
    BY <2>1, <2>2, RecoveryMoves DEF Safe, TypeOK, RecoveryLabels, Updating
  <2>3. CASE u # Recovery
    BY <2>1, <2>3, TaskMoves DEF Safe, TypeOK, TaskLabels, Updating, Updaters
  <2> QED BY <2>2, <2>3
<1>3. /\ rows' = rows /\ fills' = fills /\ dlq' = dlq
      /\ queue' = queue /\ attempts' = attempts /\ batch' = batch /\ target' = target
  BY DEF Update, Guard, MakerLeg, TakerLeg, Record, Flag, db
<1>4. legs' \in [Trades -> [Legs -> Nat]]
  <2>1. \/ legs' = legs
        \/ \E l \in Legs : LegEffect(TradeOf(u), l)
    BY DEF Update, Guard, MakerLeg, TakerLeg, Record, Flag, db, Legs
  <2>2. legs \in [Trades -> [Legs -> Nat]]
    BY DEF Safe, TypeOK, StoreOK
  <2> QED BY <1>1, <2>1, <2>2, LegCount
<1>5. disturbed' \subseteq Trades /\ synced' \subseteq Trades /\ flagged' \subseteq Trades
  BY <1>1 DEF Update, Guard, MakerLeg, TakerLeg, Record, Flag, db, Safe, TypeOK, StoreOK
<1>6. faults' \in Nat /\ panics' \in Nat /\ crashes' \in Nat
  BY DEF Update, Guard, MakerLeg, TakerLeg, Record, Flag, Fails, Works, env, Safe, TypeOK, StoreOK
<1>7. made' \in [Updaters -> BOOLEAN] /\ tries' \in [Trades -> Nat]
  <2>1. made' = made \/ \E b \in BOOLEAN : made' = [made EXCEPT ![u] = b]
    BY DEF Update, Guard, MakerLeg, TakerLeg, Record, Flag
  <2>2. \/ tries' = tries
        \/ u \in Trades /\ tries' = [tries EXCEPT ![u] = @ + 1]
    <3>1. CASE TakerLeg(u)
      <4>1. UNCHANGED tries \/ GiveBack(u)
        BY <3>1, Zenon DEF TakerLeg
      <4>2. u # Recovery => u \in Trades
        BY DEF Updaters
      <4>3. ASSUME GiveBack(u)
            PROVE  \/ UNCHANGED tries
                   \/ u # Recovery /\ tries' = [tries EXCEPT ![u] = @ + 1]
        <5>1. CASE u = Recovery
          BY <4>3, <5>1 DEF GiveBack
        <5>2. CASE u # Recovery
          BY <4>3, <5>2 DEF GiveBack
        <5> QED BY <5>1, <5>2
      <4> QED BY <4>1, <4>2, <4>3
    <3>2. CASE Guard(u) \/ MakerLeg(u) \/ Record(u) \/ Flag(u)
      BY <3>2 DEF Guard, MakerLeg, Record, Flag
    <3> QED BY <3>1, <3>2 DEF Update
  <2>3. made \in [Updaters -> BOOLEAN] /\ tries \in [Trades -> Nat]
    BY DEF Safe, TypeOK
  <2>4. made' \in [Updaters -> BOOLEAN]
    BY <2>1, <2>3, Zenon
  <2>5. tries' \in [Trades -> Nat]
    BY <2>2, <2>3
  <2> QED BY <2>4, <2>5
<1>8. pc'[Recovery] \in Updating => target' \in Trades
  BY <1>1, <1>2, <1>3 DEF Safe, TypeOK, TradeOf
<1> QED
  BY <1>2, <1>3, <1>4, <1>5, <1>6, <1>7, <1>8
  DEF Safe, TypeOK, StoreOK, FilledOncePerTrade

LEMMA PassSafe == ASSUME Safe, Fetch \/ Pick PROVE Safe'
<1>1. CASE Fetch
  <2>1. StepOK' /\ pc'[Recovery] = "pick"
    BY <1>1, RecoveryMoves DEF Fetch, Safe, TypeOK, RecoveryLabels
  <2> QED
    BY <1>1, <2>1 DEF Fetch, Unsynced, Updating, Safe, TypeOK, StoreOK, FilledOncePerTrade, env, db
<1>2. CASE Pick
  <2>1. \/ Goto(Recovery, "guard") /\ target' \in batch /\ batch' \subseteq batch
        \/ Goto(Recovery, "idle") /\ target' = None /\ batch' = batch
    BY <1>2 DEF Pick
  <2>2. StepOK' /\ (pc'[Recovery] = "idle" \/ target' \in Trades)
    BY <2>1, RecoveryMoves DEF Safe, TypeOK, RecoveryLabels, Updating
  <2> QED
    BY <1>2, <2>1, <2>2 DEF Pick, Updating, Safe, TypeOK, StoreOK, FilledOncePerTrade, env, db
<1> QED BY <1>1, <1>2

LEMMA PanicSafe == ASSUME Safe, NEW u \in Updaters, Panic(u) PROVE Safe'
<1>1. pc[u] \in Updating
  BY DEF Panic, Updating
<1>2. TradeOf(u) \in Trades
  BY <1>1, UpdateTrade DEF Safe
<1>3. StepOK' /\ (pc'[Recovery] = "dead" \/ pc'[Recovery] = pc[Recovery])
  BY RecoveryMoves, TaskMoves DEF Panic, Safe, TypeOK, TaskLabels, RecoveryLabels, Updaters
<1> QED
  BY <1>2, <1>3, BoundAssumption
  DEF Panic, Updating, Safe, TypeOK, StoreOK, FilledOncePerTrade, db

LEMMA CrashSafe == ASSUME Safe, Crash PROVE Safe'
<1>1. disturbed' \subseteq Trades
  <2>1. \A v \in Updaters : pc[v] \in {"maker", "taker", "record"} => TradeOf(v) \in Trades
    BY UpdateTrade DEF Updating, Safe
  <2> QED BY <2>1 DEF Crash, Safe, TypeOK, StoreOK
<1>2. StepOK' /\ pc'[Recovery] = "idle"
  BY UpdaterAssumption DEF Crash, StepOK, TaskLabels, RecoveryLabels, Updaters
<1>3. /\ attempts' \in [Trades -> Nat] /\ tries' \in [Trades -> Nat]
      /\ made' \in [Updaters -> BOOLEAN] /\ queue' \in Seq(Trades)
  BY DEF Crash
<1> QED
  BY <1>1, <1>2, <1>3, BoundAssumption
  DEF Crash, Updating, Safe, TypeOK, StoreOK, FilledOncePerTrade, db

LEMMA StepSafe == Safe /\ [Next]_vars => Safe'
<1> SUFFICES ASSUME Safe, [Next]_vars PROVE Safe'
  OBVIOUS
<1>1. CASE UNCHANGED vars
  BY <1>1 DEF vars, db, memory, env, Safe, TypeOK, StoreOK, StepOK, FilledOncePerTrade
<1>2. CASE Next
  BY <1>2, TaskSafe, ReceiveSafe, UpdateSafe, PassSafe, PanicSafe, CrashSafe
  DEF Next, Task, RecoveryPass, Updaters
<1> QED BY <1>1, <1>2

\* Every variable keeps its type in every reachable state.
THEOREM PersistenceTypeCorrect == Spec => []TypeOK
<1>1. Safe => TypeOK
  BY DEF Safe
<1> QED BY <1>1, InitSafe, StepSafe, PTL DEF Spec

\* However often an attempt fails, commits unseen or is repeated, a trade's
\* fill is booked to the maker's order once with the row and never without it.
THEOREM FillBookedOnce == Spec => []FilledOncePerTrade
<1>1. Safe => FilledOncePerTrade
  BY DEF Safe
<1> QED BY <1>1, InitSafe, StepSafe, PTL DEF Spec

(***************************************************************************)
(* Markers.  What an updater has done so far follows from where it is.     *)
(***************************************************************************)

Progress ==
    \A u \in Updaters :
        /\ pc[u] \in Updating => TradeOf(u) \in rows
        /\ pc[u] = "taker" /\ made[u] => legs[TradeOf(u)]["maker"] > 0
        /\ pc[u] \in {"record", "flag"} => Applied(TradeOf(u))

MarkInv == Safe /\ batch \subseteq rows /\ Progress /\ MarkedMeansApplied

\* Rows stay, and applied legs stay applied.
LEMMA Monotone ==
  ASSUME Safe, [Next]_vars
  PROVE  /\ rows \subseteq rows'
         /\ \A t \in Trades, l \in Legs : legs[t][l] > 0 => legs'[t][l] > 0
<1>1. rows \subseteq rows'
  BY DEF Next, vars, db, memory, env, Task, RecoveryPass, Update, Emit, Send, Acquire, Persist,
     Commit, DeadLetter, Receive, Guard, MakerLeg, TakerLeg, Record, Flag, Fetch, Pick, Panic, Crash
<1>2. \/ legs' = legs
      \/ \E t \in Trades, l \in Legs : LegEffect(t, l)
  <2>1. \A u \in Updaters : MakerLeg(u) \/ TakerLeg(u) => TradeOf(u) \in Trades
    BY UpdateTrade DEF MakerLeg, TakerLeg, Updating, Safe
  <2>2. \A u \in Updaters : MakerLeg(u) => legs' = legs \/ LegEffect(TradeOf(u), "maker")
    BY DEF MakerLeg
  <2>3. \A u \in Updaters : TakerLeg(u) => legs' = legs \/ LegEffect(TradeOf(u), "taker")
    BY DEF TakerLeg
  <2>4. \/ legs' = legs
        \/ \E u \in Updaters : MakerLeg(u) \/ TakerLeg(u)
    BY DEF Next, vars, db, memory, env, Task, RecoveryPass, Update, Emit, Send, Acquire, Persist,
       DeadLetter, Receive, Guard, Record, Flag, Fetch, Pick, Panic, Crash, Updaters
  <2> QED BY <2>1, <2>2, <2>3, <2>4 DEF Legs
<1>3. legs \in [Trades -> [Legs -> Nat]]
  BY DEF Safe, TypeOK, StoreOK
<1>4. ASSUME NEW a \in Trades, NEW k \in Legs, LegEffect(a, k)
      PROVE  \A t \in Trades, l \in Legs : legs[t][l] > 0 => legs'[t][l] > 0
  BY <1>3, <1>4, LegCount
<1> QED BY <1>1, <1>2, <1>4

LEMMA InitMarks == Init => MarkInv
<1> SUFFICES ASSUME Init PROVE MarkInv
  OBVIOUS
<1> QED BY InitSafe DEF MarkInv, Init, Progress, MarkedMeansApplied, Updating

\* What an updater that does not move knows stays true; batch and markers
\* that do not change stay right.
LEMMA OthersProgress ==
  ASSUME MarkInv, [Next]_vars, NEW v \in Updaters,
         pc'[v] = pc[v], made'[v] = made[v], v = Recovery => target' = target
  PROVE  /\ pc'[v] \in Updating => TradeOf(v)' \in rows'
         /\ pc'[v] = "taker" /\ made'[v] => legs'[TradeOf(v)']["maker"] > 0
         /\ pc'[v] \in {"record", "flag"} => Applied(TradeOf(v))'
<1>1. TradeOf(v)' = TradeOf(v)
  BY DEF TradeOf
<1>2. pc[v] \in Updating => TradeOf(v) \in Trades
  BY DEF MarkInv, Safe, TypeOK, StoreOK, StepOK, TradeOf, Updaters
<1>3. /\ rows \subseteq rows'
      /\ \A t \in Trades, l \in Legs : legs[t][l] > 0 => legs'[t][l] > 0
  BY Monotone DEF MarkInv
<1> QED BY <1>1, <1>2, <1>3 DEF MarkInv, Progress, Applied, Updating, Legs

\* One step of an updater.
LEMMA UpdateMarks ==
  ASSUME MarkInv, [Next]_vars, NEW u \in Updaters, Update(u)
  PROVE  MarkInv'
<1> DEFINE t == TradeOf(u)
<1>1. /\ pc[u] \in Updating /\ t \in Trades /\ t \in rows
      /\ u # Recovery => u \in Trades
  BY DEF Update, Guard, MakerLeg, TakerLeg, Record, Flag, Updating, MarkInv, Safe, TypeOK, StoreOK, StepOK,
     TradeOf, Updaters, Progress
<1>2. /\ rows' = rows /\ target' = target /\ batch' = batch
      /\ TradeOf(u)' = t
  BY DEF Update, Guard, MakerLeg, TakerLeg, Record, Flag, TradeOf, db
<1>3. \A v \in Updaters \ {u} : pc'[v] = pc[v] /\ made'[v] = made[v]
  BY DEF Update, Guard, MakerLeg, TakerLeg, GiveBack, Record, Flag, Goto, MarkInv, Safe, TypeOK, StoreOK, StepOK
<1>4. \A a \in Trades, l \in Legs : legs[a][l] > 0 => legs'[a][l] > 0
  BY Monotone DEF MarkInv
<1>5. /\ pc'[u] = "taker" /\ made'[u] => legs'[t]["maker"] > 0
      /\ pc'[u] \in {"record", "flag"} => \A l \in Legs : legs'[t][l] > 0
  <2> DEFINE G == \A l \in Legs : legs'[t][l] > 0
  <2>0. /\ Applied(t) => G
        /\ legs \in [Trades -> [Legs -> Nat]]
        /\ pc \in [Updaters -> TaskLabels \cup RecoveryLabels]
    BY <1>1, <1>4 DEF Applied, MarkInv, Safe, TypeOK, StoreOK, StepOK
  <2>1. CASE Guard(u)
    <3>1. t \in synced => Applied(t)
      BY DEF MarkInv, MarkedMeansApplied
    <3> QED BY <2>0, <2>1, <3>1 DEF Guard, Goto
  <2>2. CASE MakerLeg(u)
    <3>1. made'[u] => LegEffect(t, "maker")
      BY <2>2 DEF MakerLeg, MarkInv, Safe, TypeOK
    <3>2. pc'[u] = "taker"
      BY <2>0, <2>2 DEF MakerLeg, Goto
    <3> QED BY <1>1, <2>0, <3>1, <3>2, LegCount DEF Legs
  <2>3. CASE TakerLeg(u)
    <3>1. PICK ok \in BOOLEAN :
            /\ ok => LegEffect(t, "taker")
            /\ IF BothLegs(made[u], ok) THEN Goto(u, "record") ELSE GiveBack(u)
      BY <2>3 DEF TakerLeg
    <3>2. CASE ~BothLegs(made[u], ok)
      BY <3>1, <3>2 DEF GiveBack, Goto, MarkInv, Safe, TypeOK, StoreOK, StepOK
    <3>3. CASE made[u] /\ ok
      <4>1. legs[t]["maker"] > 0
        BY <2>3, <3>3 DEF TakerLeg, MarkInv, Progress
      <4>2. legs'[t]["taker"] > 0
        BY <1>1, <2>0, <3>1, <3>3, LegCount DEF Legs
      <4>3. pc'[u] = "record"
        BY <3>1, <3>3 DEF BothLegs, Goto, MarkInv, Safe, TypeOK, StoreOK, StepOK
      <4> QED BY <1>1, <1>4, <4>1, <4>2, <4>3 DEF Legs
    <3> QED BY <3>2, <3>3 DEF BothLegs
  <2>4. CASE Record(u)
    <3>1. Applied(t)
      BY <2>4 DEF Record, MarkInv, Progress
    <3> QED BY <2>0, <2>4, <3>1 DEF Record, Goto
  <2>5. CASE Flag(u)
    BY <2>0, <2>5 DEF Flag, Goto
  <2> QED BY <2>1, <2>2, <2>3, <2>4, <2>5 DEF Update
<1>6. Progress'
  <2> SUFFICES ASSUME NEW v \in Updaters
               PROVE  /\ pc'[v] \in Updating => TradeOf(v)' \in rows'
                      /\ pc'[v] = "taker" /\ made'[v] => legs'[TradeOf(v)']["maker"] > 0
                      /\ pc'[v] \in {"record", "flag"} => Applied(TradeOf(v))'
    BY DEF Progress
  <2>1. CASE v = u
    BY <1>1, <1>2, <1>5, <2>1 DEF Applied
  <2>2. CASE v # u
    BY <1>2, <1>3, <2>2, OthersProgress
  <2> QED BY <2>1, <2>2
<1>7. MarkedMeansApplied'
  <2>1. synced' \cup flagged' \subseteq synced \cup flagged \cup {t}
    BY DEF Update, Guard, MakerLeg, TakerLeg, Record, Flag, db
  <2>2. t \in synced' \cup flagged' => t \in synced \cup flagged \/ Applied(t)
    BY DEF Update, Guard, MakerLeg, TakerLeg, Record, Flag, db, MarkInv, Progress
  <2>3. \A a \in Trades : Applied(a) => Applied(a)'
    BY <1>4 DEF Applied
  <2> QED
    BY <1>1, <1>2, <2>1, <2>2, <2>3 DEF MarkedMeansApplied, MarkInv, Safe, TypeOK, StoreOK, StepOK
<1>8. Safe'
  BY UpdateSafe DEF MarkInv
<1> QED BY <1>2, <1>6, <1>7, <1>8 DEF MarkInv

\* Every other step.
LEMMA OtherMarks ==
  ASSUME MarkInv, [Next]_vars,
         \/ \E t \in Trades : Emit(t) \/ Send(t) \/ Acquire(t) \/ Persist(t) \/ DeadLetter(t)
         \/ Receive \/ Fetch \/ Pick \/ (\E u \in Updaters : Panic(u)) \/ Crash
         \/ UNCHANGED vars
  PROVE  MarkInv'
<1>1. /\ legs' = legs /\ synced' = synced /\ flagged' = flagged
      /\ rows \subseteq rows' /\ rows' \subseteq Trades
  BY StepSafe, Monotone DEF MarkInv, Safe, TypeOK, StoreOK, StepOK, Emit, Send, Acquire, Persist, DeadLetter,
     Receive, Fetch, Pick, Panic, Crash, vars, db
<1>2. batch' \subseteq rows'
  BY <1>1 DEF MarkInv, Safe, TypeOK, StoreOK, StepOK, Emit, Send, Acquire, Persist, DeadLetter, Receive, Fetch,
     Unsynced, Pick, Panic, Crash, vars, memory
<1>3. \A v \in Updaters :
        \/ pc'[v] \notin Updating
        \/ pc'[v] = pc[v] /\ made'[v] = made[v] /\ (v = Recovery => target' = target)
        \/ pc'[v] = "guard" /\ TradeOf(v)' \in rows'
  <2> SUFFICES ASSUME NEW v \in Updaters, pc'[v] \in Updating
               PROVE  \/ pc'[v] = pc[v] /\ made'[v] = made[v] /\ (v = Recovery => target' = target)
                      \/ pc'[v] = "guard" /\ TradeOf(v)' \in rows'
    OBVIOUS
  <2> USE DEF MarkInv, Safe, TypeOK, StoreOK, StepOK, Goto, Updating, Waiting, TaskLabels, RecoveryLabels, Updaters
  <2> USE UpdaterAssumption
  <2>1. ASSUME NEW t \in Trades, Emit(t) \/ Send(t) \/ Acquire(t) \/ DeadLetter(t)
        PROVE  pc'[v] = pc[v] /\ made'[v] = made[v] /\ target' = target
    BY <2>1 DEF Emit, Send, Acquire, DeadLetter
  <2>2. ASSUME NEW t \in Trades, Persist(t)
        PROVE  \/ pc'[v] = pc[v] /\ made'[v] = made[v] /\ target' = target
               \/ pc'[v] = "guard" /\ TradeOf(v)' \in rows'
    BY <2>2 DEF Persist, Commit, TradeOf
  <2>3. CASE Receive
    <3>1. Head(queue) \in Trades
      BY <2>3 DEF Receive
    <3> QED BY <2>3, <3>1 DEF Receive
  <2>4. CASE Fetch
    BY <2>4 DEF Fetch
  <2>5. CASE Pick
    BY <2>5, <1>1 DEF Pick, TradeOf
  <2>6. CASE \E u \in Updaters : Panic(u)
    BY <2>6 DEF Panic
  <2>7. CASE Crash
    BY <2>7 DEF Crash
  <2>8. CASE UNCHANGED vars
    BY <2>8 DEF vars, memory
  <2> QED BY <2>1, <2>2, <2>3, <2>4, <2>5, <2>6, <2>7, <2>8
<1>4. Progress'
  BY <1>3, OthersProgress DEF Progress, Updating
<1>5. MarkedMeansApplied'
  BY <1>1 DEF MarkedMeansApplied, MarkInv, Applied
<1>6. Safe'
  BY StepSafe DEF MarkInv
<1> QED BY <1>2, <1>4, <1>5, <1>6 DEF MarkInv

LEMMA StepMarks == MarkInv /\ [Next]_vars => MarkInv'
<1> SUFFICES ASSUME MarkInv, [Next]_vars PROVE MarkInv'
  OBVIOUS
<1>1. CASE \E u \in Updaters : Update(u)
  BY <1>1, UpdateMarks
<1>2. CASE ~\E u \in Updaters : Update(u)
  BY <1>2, OtherMarks DEF Next, Task, RecoveryPass, Updaters
<1> QED BY <1>1, <1>2

\* A trade is only marked as applied, in either table, after both of its legs
\* took effect: recovery never skips a trade that still needs it.
THEOREM MarkersAreSound == Spec => []MarkedMeansApplied
<1>1. MarkInv => MarkedMeansApplied
  BY DEF MarkInv
<1> QED BY <1>1, InitMarks, StepMarks, PTL DEF Spec

(***************************************************************************)
(* The idempotency guard.  For a trade whose updates were not disturbed    *)
(* the counts of its legs follow from the one updater that is past the     *)
(* guard with it, and from the marker once nobody is.                      *)
(***************************************************************************)

\* What waits in the queue waits there once, and is nowhere else.
QueuedOnce ==
    /\ \A i \in 1..Len(queue) : pc[queue[i]] = "queued"
    /\ \A i, j \in 1..Len(queue) : queue[i] = queue[j] => i = j

\* u is past the guard with trade t and has not written the marker.
At(u, t) == pc[u] \in {"maker", "taker", "record"} /\ TradeOf(u) = t

Untouched(t) == \A l \in Legs : legs[t][l] = 0

\* How far the legs are follows from the step their updater is at.
InStep(u, t) ==
    /\ t \notin synced
    /\ legs[t]["maker"] = IF pc[u] = "maker" THEN 0 ELSE 1
    /\ legs[t]["taker"] = IF pc[u] = "record" THEN 1 ELSE 0
    /\ pc[u] = "taker" => made[u] = TRUE

TradeOnce(t) ==
    t \notin disturbed =>
        /\ \A u, v \in Updaters : At(u, t) /\ At(v, t) => u = v
        /\ \A u \in Updaters : At(u, t) => InStep(u, t)
        /\ t \in synced \/ Untouched(t) \/ \E u \in Updaters : At(u, t)
        /\ \A l \in Legs : legs[t][l] <= 1

OnceInv == Safe /\ QueuedOnce /\ \A t \in Trades : TradeOnce(t)

LEMMA InitOnce == Init => OnceInv
<1> SUFFICES ASSUME Init PROVE OnceInv
  OBVIOUS
<1>1. QueuedOnce
  BY DEF Init, QueuedOnce
<1>2. \A t \in Trades, u \in Updaters : ~At(u, t)
  BY DEF Init, At
<1>3. \A t \in Trades : \A l \in Legs : legs[t][l] = 0
  BY DEF Init
<1>4. \A t \in Trades : TradeOnce(t)
  BY <1>2, <1>3 DEF TradeOnce, Untouched
<1> QED BY <1>1, <1>4, InitSafe DEF OnceInv

\* A task that is not waiting in the queue may move without harm to the queue.
LEMMA QueueKept ==
  ASSUME Safe, QueuedOnce, NEW u \in Updaters, NEW l, pc[u] # "queued",
         Goto(u, l), queue' = queue
  PROVE  QueuedOnce'
<1>1. queue \in Seq(Trades) /\ pc \in [Updaters -> TaskLabels \cup RecoveryLabels]
  BY DEF Safe, TypeOK, StepOK
<1>2. \A i \in 1..Len(queue) : queue[i] \in Updaters /\ queue[i] # u
  BY <1>1 DEF QueuedOnce, Updaters
<1> QED BY <1>1, <1>2 DEF QueuedOnce, Goto

\* A trade enters the queue from where it was not queued.
LEMMA QueueGrows ==
  ASSUME Safe, QueuedOnce, NEW t \in Trades, pc[t] # "queued",
         Goto(t, "queued"), queue' = Append(queue, t)
  PROVE  QueuedOnce'
<1>1. queue \in Seq(Trades) /\ pc \in [Updaters -> TaskLabels \cup RecoveryLabels]
  BY DEF Safe, TypeOK, StepOK
<1>2. \A i \in 1..Len(queue) : queue[i] \in Updaters /\ queue[i] # t
  BY <1>1 DEF QueuedOnce, Updaters
<1>3. /\ Len(queue') = Len(queue) + 1 /\ queue'[Len(queue) + 1] = t
      /\ \A i \in 1..Len(queue) : queue'[i] = queue[i]
  BY <1>1
<1>4. \A i \in 1..Len(queue') : i = Len(queue) + 1 \/ i \in 1..Len(queue)
  BY <1>1, <1>3
<1>5. pc'[t] = "queued" /\ \A i \in 1..Len(queue) : pc'[queue[i]] = pc[queue[i]]
  BY <1>1, <1>2 DEF Goto, Updaters
<1> QED BY <1>2, <1>3, <1>4, <1>5 DEF QueuedOnce

LEMMA QueueShrinks ==
  ASSUME Safe, QueuedOnce, Receive
  PROVE  QueuedOnce' /\ Head(queue) \in Trades /\ pc[Head(queue)] = "queued"
<1>1. queue \in Seq(Trades) /\ pc \in [Updaters -> TaskLabels \cup RecoveryLabels] /\ queue # <<>>
  BY DEF Safe, TypeOK, StepOK, Receive
<1>2. Head(queue) = queue[1] /\ 1 \in 1..Len(queue) /\ Head(queue) \in Trades
  BY <1>1
<1>3. /\ Len(queue') = Len(queue) - 1
      /\ \A i \in 1..Len(queue') : i + 1 \in 1..Len(queue) /\ queue'[i] = queue[i + 1]
  BY <1>1 DEF Receive
<1>4. ASSUME NEW i \in 1..Len(queue')
      PROVE  queue'[i] # queue[1] /\ pc[queue'[i]] = "queued" /\ queue'[i] \in Updaters
  <2>1. i + 1 \in 1..Len(queue) /\ i + 1 # 1 /\ queue'[i] = queue[i + 1]
    BY <1>1, <1>3
  <2>2. queue[i + 1] \in Trades
    BY <1>1, <2>1
  <2> QED BY <1>2, <2>1, <2>2 DEF QueuedOnce, Updaters
<1>5. \A i \in 1..Len(queue') : pc'[queue'[i]] = "queued"
  BY <1>1, <1>2, <1>4 DEF Receive, Goto
<1>6. \A i, j \in 1..Len(queue') : queue'[i] = queue'[j] => i = j
  BY <1>1, <1>3 DEF QueuedOnce
<1>7. pc[Head(queue)] = "queued"
  BY <1>2 DEF QueuedOnce
<1> QED BY <1>2, <1>5, <1>6, <1>7 DEF QueuedOnce

LEMMA StepQueue == ASSUME Safe, QueuedOnce, [Next]_vars PROVE QueuedOnce'
<1>1. ASSUME NEW t \in Trades, Emit(t) \/ Send(t)
      PROVE  QueuedOnce'
  <2>1. pc[t] # "queued" /\ t \in Updaters
    BY <1>1 DEF Emit, Send, Updaters
  <2>2. \/ Goto(t, "queued") /\ queue' = Append(queue, t)
        \/ Goto(t, "overflow") /\ queue' = queue
    BY <1>1 DEF Emit, Send
  <2> QED BY <2>1, <2>2, QueueGrows, QueueKept
<1>2. ASSUME NEW t \in Trades, Acquire(t) \/ Persist(t) \/ DeadLetter(t)
      PROVE  QueuedOnce'
  <2>1. pc[t] # "queued" /\ t \in Updaters /\ queue' = queue /\ \E l : Goto(t, l)
    BY <1>2 DEF Acquire, Persist, DeadLetter, Updaters
  <2> QED BY <2>1, QueueKept
<1>3. ASSUME NEW u \in Updaters, Update(u)
      PROVE  QueuedOnce'
  <2>1. pc[u] # "queued" /\ \E l : Goto(u, l)
    BY <1>3, UpdateLabels DEF Updating
  <2>2. queue' = queue
    BY <1>3 DEF Update, Guard, MakerLeg, TakerLeg, Record, Flag
  <2> QED BY <2>1, <2>2, QueueKept
<1>4. CASE Fetch \/ Pick
  <2>1. pc[Recovery] # "queued" /\ queue' = queue /\ \E l : Goto(Recovery, l)
    BY <1>4 DEF Fetch, Pick
  <2> QED BY <2>1, QueueKept DEF Updaters
<1>5. ASSUME NEW u \in Updaters, Panic(u)
      PROVE  QueuedOnce'
  <2>1. pc[u] # "queued" /\ queue' = queue /\ \E l : Goto(u, l)
    BY <1>5 DEF Panic
  <2> QED BY <2>1, QueueKept
<1>6. CASE Crash
  BY <1>6 DEF Crash, QueuedOnce
<1>7. CASE UNCHANGED vars
  BY <1>7 DEF vars, memory, QueuedOnce
<1> QED
  BY <1>1, <1>2, <1>3, <1>4, <1>5, <1>6, <1>7, QueueShrinks
  DEF Next, Task, RecoveryPass, Updaters

\* A trade keeps its invariant when nobody enters, leaves or moves behind its
\* guard and its legs and its marker stay.
LEMMA TradeKept ==
  ASSUME NEW t \in Trades, TradeOnce(t),
         legs'[t] = legs[t], t \in synced' <=> t \in synced, t \in disturbed => t \in disturbed',
         \A u \in Updaters : At(u, t) <=> At(u, t)',
         \A u \in Updaters : At(u, t) => pc'[u] = pc[u] /\ made'[u] = made[u]
  PROVE  TradeOnce(t)'
<1> SUFFICES ASSUME t \notin disturbed'
             PROVE  /\ \A u, v \in Updaters : At(u, t)' /\ At(v, t)' => u = v
                    /\ \A u \in Updaters : At(u, t)' => InStep(u, t)'
                    /\ t \in synced' \/ Untouched(t)' \/ \E u \in Updaters : At(u, t)'
                    /\ \A l \in Legs : legs'[t][l] <= 1
  BY DEF TradeOnce
<1>1. \A u \in Updaters : InStep(u, t) /\ At(u, t) => InStep(u, t)'
  BY DEF InStep
<1>2. Untouched(t) => Untouched(t)'
  BY DEF Untouched
<1> QED BY <1>1, <1>2 DEF TradeOnce

\* The step of an updater concerns its own trade.
LEMMA UpdateElsewhere ==
  ASSUME OnceInv, NEW u \in Updaters, Update(u), NEW t \in Trades, t # TradeOf(u)
  PROVE  TradeOnce(t)'
<1>1. /\ pc \in [Updaters -> TaskLabels \cup RecoveryLabels]
      /\ made \in [Updaters -> BOOLEAN]
      /\ legs \in [Trades -> [Legs -> Nat]]
      /\ TradeOf(u) \in Trades
  BY UpdateLabels, UpdateTrade DEF OnceInv, Safe, TypeOK, StepOK, StoreOK
<1>2. target' = target /\ \A v \in Updaters : TradeOf(v)' = TradeOf(v)
  BY DEF Update, Guard, MakerLeg, TakerLeg, Record, Flag, TradeOf
<1>3. \A v \in Updaters \ {u} : pc'[v] = pc[v] /\ made'[v] = made[v]
  BY <1>1 DEF Update, Guard, MakerLeg, TakerLeg, GiveBack, Record, Flag, Goto
<1>4. \A v \in Updaters : /\ At(v, t) <=> At(v, t)'
                          /\ At(v, t) => pc'[v] = pc[v] /\ made'[v] = made[v]
  BY <1>2, <1>3 DEF At
<1>5. legs'[t] = legs[t]
  <2>1. legs' = legs \/ \E l \in Legs : LegEffect(TradeOf(u), l)
    BY DEF Update, Guard, MakerLeg, TakerLeg, Record, Flag, db, Legs
  <2> QED BY <1>1, <2>1 DEF LegEffect
<1>6. (t \in synced' <=> t \in synced) /\ (t \in disturbed => t \in disturbed')
  BY DEF Update, Guard, MakerLeg, TakerLeg, Record, Flag, db
<1> QED BY <1>4, <1>5, <1>6, TradeKept DEF OnceInv

\* One step of an updater, seen from the trade it is at.
LEMMA UpdateOnce ==
  ASSUME OnceInv, NEW u \in Updaters, Update(u), NEW t \in Trades, t = TradeOf(u)
  PROVE  TradeOnce(t)'
<1>1. /\ pc \in [Updaters -> TaskLabels \cup RecoveryLabels]
      /\ made \in [Updaters -> BOOLEAN]
      /\ legs \in [Trades -> [Legs -> Nat]]
      /\ TradeOnce(t)
  BY DEF OnceInv, Safe, TypeOK, StepOK, StoreOK
<1>2. target' = target /\ \A v \in Updaters : TradeOf(v)' = TradeOf(v)
  BY DEF Update, Guard, MakerLeg, TakerLeg, Record, Flag, TradeOf
<1>3. \A v \in Updaters \ {u} : pc'[v] = pc[v] /\ made'[v] = made[v]
  BY <1>1 DEF Update, Guard, MakerLeg, TakerLeg, GiveBack, Record, Flag, Goto
<1>4. \A v \in Updaters \ {u} : At(v, t) <=> At(v, t)'
  BY <1>2, <1>3 DEF At
<1>5. TradeOf(u)' = t
  BY <1>2
<1> SUFFICES ASSUME t \notin disturbed'
             PROVE  /\ \A v, w \in Updaters : At(v, t)' /\ At(w, t)' => v = w
                    /\ \A v \in Updaters : At(v, t)' => InStep(v, t)'
                    /\ t \in synced' \/ Untouched(t)' \/ \E v \in Updaters : At(v, t)'
                    /\ \A l \in Legs : legs'[t][l] <= 1
  BY <1>5 DEF TradeOnce
<1>6. t \notin disturbed
  BY DEF Update, Guard, MakerLeg, TakerLeg, Record, Flag
<1>7. pc[u] \in {"maker", "taker", "record"} => At(u, t) /\ InStep(u, t)
                                                /\ \A v \in Updaters \ {u} : ~At(v, t)
  BY <1>1, <1>6 DEF TradeOnce, At
<1>8. CASE Guard(u)
  <2>1. CASE Goto(u, "flag")
    <3>1. legs' = legs /\ synced' = synced /\ made' = made /\ pc[u] = "guard" /\ pc'[u] = "flag"
      BY <1>1, <1>8, <2>1 DEF Guard, db, Goto
    <3>2. \A v \in Updaters : /\ At(v, t) <=> At(v, t)'
                              /\ At(v, t) => pc'[v] = pc[v] /\ made'[v] = made[v]
      BY <1>3, <1>4, <3>1 DEF At
    <3>3. TradeOnce(t)'
      BY <1>1, <1>6, <3>1, <3>2, TradeKept
    <3> QED BY <3>3 DEF TradeOnce
  <2>2. CASE ~Goto(u, "flag")
    <3>1. /\ pc[u] = "guard" /\ pc'[u] = "maker" /\ t \notin synced /\ ~Overlaps(u)
          /\ legs' = legs /\ synced' = synced
      BY <1>1, <1>8, <2>2 DEF Guard, db, Goto
    <3>2. \A v \in Updaters : ~At(v, t)
      BY <3>1 DEF Overlaps, At
    <3>3. Untouched(t)
      BY <1>1, <1>6, <3>1, <3>2 DEF TradeOnce
    <3>4. \A l \in Legs : legs'[t][l] = 0
      BY <3>1, <3>3 DEF Untouched
    <3>5. \A v \in Updaters : At(v, t)' => v = u
      BY <1>4, <3>2
    <3>6. At(u, t)' /\ InStep(u, t)'
      BY <3>1, <3>4, <1>5 DEF At, InStep, Legs
    <3> QED BY <3>4, <3>5, <3>6
  <2> QED BY <2>1, <2>2
<1>9. CASE MakerLeg(u)
  <2>1. /\ pc[u] = "maker" /\ pc'[u] = "taker" /\ made'[u] = TRUE /\ synced' = synced
        /\ LegEffect(t, "maker")
    BY <1>1, <1>9 DEF MakerLeg, Goto
  <2>2. legs'[t]["maker"] = 1 /\ legs'[t]["taker"] = 0
    BY <1>1, <1>7, <2>1, LegCount DEF InStep, Legs
  <2>3. At(u, t)' /\ InStep(u, t)'
    BY <1>5, <1>7, <2>1, <2>2 DEF At, InStep
  <2>4. \A v \in Updaters : At(v, t)' => v = u
    BY <1>4, <1>7, <2>1
  <2> QED BY <2>2, <2>3, <2>4 DEF Legs
<1>10. CASE TakerLeg(u)
  <2>1. pc[u] = "taker" /\ made[u] = TRUE /\ synced' = synced
    BY <1>7, <1>10 DEF TakerLeg, InStep
  <2>2. Goto(u, "record") /\ LegEffect(t, "taker")
    BY <1>10, <2>1 DEF TakerLeg, BothLegs
  <2>3. legs'[t]["maker"] = 1 /\ legs'[t]["taker"] = 1 /\ pc'[u] = "record"
    BY <1>1, <1>7, <2>1, <2>2, LegCount DEF InStep, Legs, Goto
  <2>4. At(u, t)' /\ InStep(u, t)'
    BY <1>5, <1>7, <2>1, <2>3 DEF At, InStep
  <2>5. \A v \in Updaters : At(v, t)' => v = u
    BY <1>4, <1>7, <2>1
  <2> QED BY <2>3, <2>4, <2>5 DEF Legs
<1>11. CASE Record(u)
  <2>1. pc[u] = "record" /\ pc'[u] = "flag" /\ t \in synced' /\ legs' = legs
    BY <1>1, <1>11 DEF Record, Goto
  <2>2. \A v \in Updaters : ~At(v, t)'
    BY <1>4, <1>7, <2>1 DEF At
  <2> QED BY <1>1, <1>6, <2>1, <2>2 DEF TradeOnce
<1>12. CASE Flag(u)
  <2>1. legs' = legs /\ synced' = synced /\ made' = made
        /\ pc[u] = "flag" /\ pc'[u] \notin {"maker", "taker", "record"}
    BY <1>1, <1>12 DEF Flag, Goto
  <2>2. \A v \in Updaters : /\ At(v, t) <=> At(v, t)'
                            /\ At(v, t) => pc'[v] = pc[v] /\ made'[v] = made[v]
    BY <1>3, <1>4, <2>1 DEF At
  <2>3. TradeOnce(t)'
    BY <1>1, <1>6, <2>1, <2>2, TradeKept
  <2> QED BY <2>3 DEF TradeOnce
<1> QED BY <1>8, <1>9, <1>10, <1>11, <1>12 DEF Update

\* Every other step but a crash leaves the legs, the marker and whoever is past
\* the guard alone, or disturbs the trade it cuts.
LEMMA OtherOnce ==
  ASSUME OnceInv, NEW t \in Trades,
         \/ \E a \in Trades : Emit(a) \/ Send(a) \/ Acquire(a) \/ Persist(a) \/ DeadLetter(a)
         \/ Receive \/ Fetch \/ Pick \/ (\E u \in Updaters : Panic(u)) \/ UNCHANGED vars
  PROVE  TradeOnce(t)'
<1>1. /\ pc \in [Updaters -> TaskLabels \cup RecoveryLabels]
      /\ TradeOnce(t) /\ QueuedOnce /\ Safe
  BY DEF OnceInv, Safe, TypeOK, StepOK
<1>2. legs' = legs /\ synced' = synced /\ made' = made /\ disturbed \subseteq disturbed'
  BY DEF Emit, Send, Acquire, Persist, DeadLetter, Receive, Fetch, Pick, Panic, vars, db, memory
<1>3. CASE \E u \in Updaters : Panic(u)
  <2>1. PICK u \in Updaters : Panic(u)
    BY <1>3
  <2>2. \A v \in Updaters : v # u => pc'[v] = pc[v] /\ TradeOf(v)' = TradeOf(v)
    BY <1>1, <2>1 DEF Panic, Goto, TradeOf
  <2>3. TradeOf(u) \in disturbed' /\ TradeOf(u)' = TradeOf(u)
        /\ pc'[u] \notin {"maker", "taker", "record"}
    BY <1>1, <2>1 DEF Panic, Goto, TradeOf
  <2>4. CASE TradeOf(u) = t
    BY <2>3, <2>4 DEF TradeOnce
  <2>5. CASE TradeOf(u) # t
    <3>1. \A v \in Updaters : /\ At(v, t) <=> At(v, t)'
                              /\ At(v, t) => pc'[v] = pc[v] /\ made'[v] = made[v]
      BY <1>2, <2>2, <2>3, <2>5 DEF At
    <3> QED BY <1>1, <1>2, <3>1, TradeKept
  <2> QED BY <2>4, <2>5
<1>4. CASE ~\E u \in Updaters : Panic(u)
  <2> DEFINE behind == {"maker", "taker", "record"}
  <2>1. ASSUME NEW v \in Updaters
        PROVE  \/ pc'[v] = pc[v] /\ (pc[v] \in behind => TradeOf(v)' = TradeOf(v))
               \/ pc[v] \notin behind /\ pc'[v] \notin behind
    <3>1. ASSUME NEW a \in Trades, Emit(a) \/ Send(a) \/ Acquire(a) \/ Persist(a) \/ DeadLetter(a)
          PROVE  /\ target' = target /\ pc[a] \notin behind
                 /\ \E l \in {"queued", "overflow", "persist", "guard", "dlq", "done"} : Goto(a, l)
      BY <3>1 DEF Emit, Send, Acquire, Persist, DeadLetter
    <3>2. CASE \E a \in Trades : Emit(a) \/ Send(a) \/ Acquire(a) \/ Persist(a) \/ DeadLetter(a)
      <4>1. PICK a \in Trades : /\ target' = target /\ pc[a] \notin behind
                 /\ \E l \in {"queued", "overflow", "persist", "guard", "dlq", "done"} : Goto(a, l)
        BY <3>1, <3>2
      <4> QED BY <1>1, <4>1 DEF Goto, TradeOf
    <3>3. CASE Receive
      <4>1. target' = target /\ Head(queue) \in Trades /\ pc[Head(queue)] = "queued"
            /\ Goto(Head(queue), "spawned")
        BY <1>1, <3>3, QueueShrinks DEF Receive
      <4> QED BY <1>1, <4>1 DEF Goto, TradeOf
    <3>4. CASE Fetch \/ Pick
      <4>1. pc[Recovery] \notin behind /\ \E l \in {"pick", "guard", "idle"} : Goto(Recovery, l)
        BY <3>4 DEF Fetch, Pick
      <4> QED BY <1>1, <4>1 DEF Goto, TradeOf
    <3>5. CASE UNCHANGED vars
      BY <3>5 DEF vars, memory, TradeOf
    <3> QED BY <1>4, <3>2, <3>3, <3>4, <3>5
  <2>2. \A v \in Updaters : /\ At(v, t) <=> At(v, t)'
                            /\ At(v, t) => pc'[v] = pc[v] /\ made'[v] = made[v]
    BY <1>2, <2>1 DEF At
  <2> QED BY <1>1, <1>2, <2>2, TradeKept
<1> QED BY <1>3, <1>4

\* A crash leaves nobody past the guard, and disturbs the trades of those it cut.
LEMMA CrashOnce ==
  ASSUME OnceInv, Crash, NEW t \in Trades
  PROVE  TradeOnce(t)'
<1>1. legs' = legs /\ synced' = synced /\ disturbed \subseteq disturbed'
  BY DEF Crash, db
<1>2. \A u \in Updaters : ~At(u, t)'
  BY DEF Crash, At
<1>3. \A u \in Updaters : At(u, t) => t \in disturbed'
  BY DEF Crash, At
<1> QED BY <1>1, <1>2, <1>3 DEF OnceInv, TradeOnce, Untouched

LEMMA StepOnce == OnceInv /\ [Next]_vars => OnceInv'
<1> SUFFICES ASSUME OnceInv, [Next]_vars PROVE OnceInv'
  OBVIOUS
<1>1. Safe' /\ QueuedOnce'
  BY StepSafe, StepQueue DEF OnceInv
<1>2. ASSUME NEW t \in Trades PROVE TradeOnce(t)'
  <2>1. ASSUME NEW u \in Updaters, Update(u)
        PROVE  TradeOnce(t)'
    BY <2>1, UpdateElsewhere, UpdateOnce
  <2>2. CASE Crash
    BY <2>2, CrashOnce
  <2>3. CASE ~Crash /\ ~\E u \in Updaters : Update(u)
    BY <2>3, OtherOnce DEF Next, Task, RecoveryPass, Updaters
  <2> QED BY <2>1, <2>2, <2>3
<1> QED BY <1>1, <1>2 DEF OnceInv

\* While no two updates of a trade overlap and none is cut or reported as
\* failed, the marker keeps every leg from taking effect twice, whatever else
\* fails, retries or restarts around it.
THEOREM LegsAppliedOnce == Spec => []AppliedOnceUnlessDisturbed
<1>1. OnceInv => AppliedOnceUnlessDisturbed
  BY DEF OnceInv, TradeOnce, AppliedOnceUnlessDisturbed
<1> QED BY <1>1, InitOnce, StepOnce, PTL DEF Spec

(***************************************************************************)
(* The orders of an API key.  Whatever fails, the engine keeps the calls   *)
(* apart: an order is carried to it by one call at a time (Placed).  Until *)
(* a refund does not fit, the wallet's frozen margin is what the book, the *)
(* triggers, the fills not yet saved and the calls between two statements  *)
(* hold (MarginFits).                                                      *)
(***************************************************************************)

CreatePcs == {"freeze", "insert", "trigger", "link", "submit", "record", "release", "shrink"}
CancelPcs == {"pull", "mark", "refund"}
SweepPcs  == {"pullall", "refundall"}
ModifyPcs == {"repull", "reshape", "resubmit", "record", "release", "shrink"}
ApiStatuses == {"none", "pending", "open", "partially_filled", "filled", "cancelled"}
AllKinds == {"limit", "market", "trigger"}
ApiRows == [status : ApiStatuses, kind : AllKinds, effect : Effects, price : Nat, amount : Nat, filled : Nat,
            margin : Nat, linked : BOOLEAN]
CreateCalls == [pc : CreatePcs, order : ApiOrders, kind : AllKinds, effect : Effects, n : Nat, p : ApiPrices,
                read : Nat, k : Nat, frozen : Nat]
CancelCalls == [pc : CancelPcs, order : ApiOrders, row : ApiRows, strict : BOOLEAN]
SweepCalls  == [pc : SweepPcs, rows : UNION {[S -> ApiRows] : S \in SUBSET ApiOrders}, todo : SUBSET ApiOrders]
ModifyCalls == [pc : ModifyPcs, order : ApiOrders, kind : {"limit"}, effect : {"open"}, n : Nat, p : ApiPrices, k : Nat,
                read : Nat, frozen : Nat, delta : Int, row : ApiRows]
ApiCalls == {Done} \cup CreateCalls \cup CancelCalls \cup SweepCalls \cup ModifyCalls

ApiTypes ==
    /\ orders \in [ApiOrders -> ApiRows]
    /\ wallet \in [free : Int, frozen : Nat]
    /\ inBook \in [ApiOrders -> Nat]
    /\ unsaved \in [ApiOrders -> [ApiPrices -> Nat]]
    /\ triggers \in [ApiOrders -> {"none", "active", "cancelled", "fired"}]
    /\ handler \in [Calls -> ApiCalls]
    /\ exchanged \in [ApiOrders -> Nat] /\ taken \in Nat
    /\ gone \in [ApiOrders -> Int] /\ revived \subseteq ApiOrders

\* Call c may yet put order o into the engine, or create its trigger.
Carrying(c, o) ==
    /\ handler[c].pc \in {"freeze", "insert", "trigger", "submit", "reshape", "resubmit"}
    /\ handler[c].order = o
\* What call c works on has a row.
AtRow(c) == handler[c].pc \in {"trigger", "link", "submit", "record", "release", "shrink", "pull", "mark",
                               "refund", "repull", "reshape", "resubmit"}
Sweeping(c) == handler[c].pc \in SweepPcs

\* One call at a time carries an order, and it does not rest meanwhile.
OneCarrier ==
    /\ \A c, d \in Calls, o \in ApiOrders : Carrying(c, o) /\ Carrying(d, o) => c = d
    /\ \A c \in Calls, o \in ApiOrders : Carrying(c, o) => inBook[o] = 0

\* A call's order has a row, unless it is about to write it; a trigger order never
\* enters the book, and no other has a trigger.
CallPlaced(c) ==
    LET q == handler[c] IN
    /\ q.pc \in {"freeze", "insert"} => orders[q.order].status = "none" /\ q.n > 0
    /\ q.pc \in {"submit", "record", "release"} => q.n > 0
    /\ q.pc \in {"repull", "reshape"} => q.read + q.n > 0
    /\ AtRow(c) => orders[q.order].status # "none"
    /\ q.pc = "trigger" => triggers[q.order] = "none"
    /\ q.pc \in {"trigger", "link"} => orders[q.order].kind = "trigger"
    /\ q.pc \in {"submit", "repull", "reshape", "resubmit"} => orders[q.order].kind # "trigger"
    /\ q.pc = "pull" /\ q.row.linked => orders[q.order].kind = "trigger"
    /\ Sweeping(c) => q.todo \subseteq DOMAIN q.rows
    /\ q.pc = "refundall" => q.todo = {}
    /\ Sweeping(c) => \A o \in DOMAIN q.rows :
          orders[o].status # "none" /\ (q.rows[o].linked => orders[o].kind = "trigger")
CallsPlaced == \A c \in Calls : CallPlaced(c)

OrderPlaced(o) ==
    /\ orders[o].status = "none" =>
          /\ inBook[o] = 0 /\ exchanged[o] = 0 /\ gone[o] = -1 /\ triggers[o] = "none"
          /\ \A p \in ApiPrices : unsaved[o][p] = 0
    /\ orders[o].status # "none" => orders[o].price \in ApiPrices /\ orders[o].amount > 0
    /\ orders[o].linked => orders[o].kind = "trigger"
    /\ triggers[o] # "none" => orders[o].kind = "trigger"
    /\ orders[o].kind = "trigger" => inBook[o] = 0 /\ exchanged[o] = 0
OrdersPlaced == \A o \in ApiOrders : OrderPlaced(o)

GoneFor(o) == inBook[o] = 0 /\ exchanged[o] = gone[o] /\ \A c \in Calls : ~Carrying(c, o)
StaysGone == \A o \in ApiOrders \ revived : gone[o] >= 0 => GoneFor(o)

\* Until a refund does not fit: what rows, book and calls say of an order.
OrderFits(o) ==
    /\ inBook[o] > 0 => inBook[o] + exchanged[o] = orders[o].amount
    /\ orders[o].status # "none" /\ orders[o].kind = "limit" /\ orders[o].effect = "open" /\ exchanged[o] = 0
          => orders[o].margin = Frozen(orders[o].amount, orders[o].price)
    /\ \A p \in ApiPrices : unsaved[o][p] > 0 => exchanged[o] > 0
OrdersFit == \A o \in ApiOrders : OrderFits(o)

CreateFits(q, r, x) ==
    /\ q.pc = "freeze" => q.effect = "open"
    /\ q.pc \in {"freeze", "insert", "trigger", "submit"} =>
          q.n > 0 /\ q.frozen = Frozen(q.n, q.p) /\ q.read = 0
    /\ q.pc \in {"trigger", "submit"} =>
          /\ r.amount = q.n /\ r.kind = q.kind /\ r.effect = q.effect /\ x = 0
          /\ q.kind # "market" /\ q.effect = "open" => r.price = q.p
    /\ q.pc \in {"record", "release", "shrink"} => r.kind = q.kind /\ r.effect = q.effect
    /\ q.pc \in {"record", "release"} =>
          q.n > 0 /\ q.k <= q.n /\ q.frozen = Frozen(q.n, q.p) /\ q.kind # "trigger" /\ (q.k > 0 => x > 0)
    /\ q.pc = "release" => q.effect = "open"
    /\ q.pc = "release" =>
          \/ q.kind = "limit" /\ q.k > 0
          \/ q.kind = "market" /\ q.k \in {0, q.n}
    /\ q.pc = "shrink" => q.kind = "market" \/ x > 0

ModifyFits(q, r, x) ==
    /\ q.pc = "repull" =>
          /\ q.n + q.read > 0 /\ q.read = q.row.filled /\ q.frozen = Frozen(q.n, q.p)
          /\ q.delta = q.frozen - OldFreeze(q.row) /\ q.row.kind = r.kind /\ q.row.effect = r.effect
          /\ r.kind = "limit"
          /\ x = 0 /\ r.effect = "open" => q.row.margin = Frozen(q.row.amount, q.row.price)
    /\ q.pc \in {"reshape", "resubmit"} =>
          q.n > 0 /\ q.read = 0 /\ x = 0 /\ r.kind = "limit" /\ r.effect = "open" /\ q.frozen = Frozen(q.n, q.p)
    /\ q.pc = "reshape" => q.frozen - q.delta \in Nat
    /\ q.pc = "resubmit" => r.amount = q.n /\ r.price = q.p

CallFits(c) ==
    LET q == handler[c] IN
    /\ q.pc \notin {"idle"} \cup SweepPcs =>
          /\ CreateFits(q, orders[q.order], exchanged[q.order])
          /\ ModifyFits(q, orders[q.order], exchanged[q.order])
    /\ q.pc = "pull" => q.row.kind = orders[q.order].kind /\ q.row.effect = orders[q.order].effect
    /\ Sweeping(c) => \A o \in DOMAIN q.rows : q.rows[o].kind = orders[o].kind /\ q.rows[o].effect = orders[o].effect
CallsFit == \A c \in Calls : CallFits(c)

\* Margin that a call has frozen for what is not in the book, or has to give back.
Owed(q) ==
    CASE q.pc \in {"insert", "trigger", "submit", "resubmit"} -> IF q.effect = "close" THEN 0 ELSE q.frozen
      [] q.pc \in {"record", "release"} -> IF q.effect = "close" THEN 0
                                           ELSE IF q.kind = "market" THEN q.frozen ELSE Frozen(q.k, q.p)
      [] q.pc \in {"mark", "refund"} -> RefundFor(q.row)
      [] q.pc \in SweepPcs -> RefundOfAll(q.rows, DOMAIN q.rows \ q.todo)
      [] q.pc = "reshape" -> q.frozen - q.delta
      [] OTHER -> 0
\* What went into positions before the call released it.
Spent(q) == IF q.pc \in {"record", "release"} /\ q.effect = "open" THEN Collateral(q.k, q.p) ELSE 0
\* ... and before the pipeline persisted the trade.
UnsavedOf(o) == [p \in ApiPrices |-> Collateral(unsaved[o][p], p)]
Traded(o) == IF orders[o].effect = "close" THEN 0 ELSE SumFunctionOnSet(UnsavedOf(o), ApiPrices)

OwedByAll == SumFunctionOnSet([c \in Calls |-> Owed(handler[c])], Calls)
SpentByAll == SumFunctionOnSet([c \in Calls |-> Spent(handler[c])], Calls)
TradedByAll == SumFunctionOnSet([o \in ApiOrders |-> Traded(o)], ApiOrders)

MarginFits ==
    /\ wallet.frozen = NeededByAll + UnfiredOfAll + 2 * TradedByAll + OwedByAll
    /\ wallet.free + wallet.frozen + taken = ApiDeposit + TradedByAll + SpentByAll

\* Calls keep out of each other's way, whatever fails.
Placed == OneCarrier /\ CallsPlaced /\ OrdersPlaced /\ StaysGone

ApiInv ==
    /\ ApiTypes /\ Placed
    /\ odd = {} => OrdersFit /\ CallsFit /\ MarginFits

LEMMA CallShape ==
  ASSUME NEW q \in ApiCalls
  PROVE  /\ q.pc = "idle" => q = Done
         /\ q.pc \in {"freeze", "insert", "trigger", "link", "submit"} => q \in CreateCalls
         /\ q.pc \in {"repull", "reshape", "resubmit"} => q \in ModifyCalls
         /\ q.pc \in {"record", "release", "shrink"} => q \in CreateCalls \cup ModifyCalls
         /\ q.pc \in CancelPcs => q \in CancelCalls
         /\ q.pc \in SweepPcs => q \in SweepCalls
         /\ q.pc \in {"idle"} \cup CreatePcs \cup CancelPcs \cup SweepPcs \cup ModifyPcs
BY DEF ApiCalls, CreateCalls, CancelCalls, SweepCalls, ModifyCalls, Done, CreatePcs, CancelPcs, SweepPcs, ModifyPcs

LEMMA SweepShape ==
  ASSUME NEW q \in SweepCalls
  PROVE  /\ DOMAIN q.rows \in SUBSET ApiOrders /\ q.rows \in [DOMAIN q.rows -> ApiRows]
         /\ q.todo \in SUBSET ApiOrders /\ q.pc \in SweepPcs
<1>1. PICK S \in SUBSET ApiOrders : q.rows \in [S -> ApiRows]
  BY DEF SweepCalls
<1> QED BY <1>1 DEF SweepCalls

\* What a call's next label, and a changed field, leave of it.
LEMMA CreateNext ==
  ASSUME NEW q \in CreateCalls, NEW l \in CreatePcs
  PROVE  /\ [q EXCEPT !.pc = l] \in CreateCalls /\ [q EXCEPT !.pc = l].pc = l
         /\ [q EXCEPT !.pc = l].order = q.order
         /\ [q EXCEPT !.pc = l].kind = q.kind /\ [q EXCEPT !.pc = l].effect = q.effect
         /\ [q EXCEPT !.pc = l].n = q.n
         /\ [q EXCEPT !.pc = l].p = q.p
         /\ [q EXCEPT !.pc = l].read = q.read
         /\ [q EXCEPT !.pc = l].k = q.k
         /\ [q EXCEPT !.pc = l].frozen = q.frozen
BY DEF CreateCalls

LEMMA ModifyNext ==
  ASSUME NEW q \in ModifyCalls, NEW l \in ModifyPcs
  PROVE  /\ [q EXCEPT !.pc = l] \in ModifyCalls /\ [q EXCEPT !.pc = l].pc = l
         /\ [q EXCEPT !.pc = l].order = q.order
         /\ [q EXCEPT !.pc = l].kind = q.kind /\ [q EXCEPT !.pc = l].effect = q.effect
         /\ [q EXCEPT !.pc = l].n = q.n
         /\ [q EXCEPT !.pc = l].p = q.p
         /\ [q EXCEPT !.pc = l].read = q.read
         /\ [q EXCEPT !.pc = l].k = q.k
         /\ [q EXCEPT !.pc = l].frozen = q.frozen
         /\ [q EXCEPT !.pc = l].delta = q.delta
         /\ [q EXCEPT !.pc = l].row = q.row
BY DEF ModifyCalls

LEMMA CancelNext ==
  ASSUME NEW q \in CancelCalls, NEW l \in CancelPcs
  PROVE  /\ [q EXCEPT !.pc = l] \in CancelCalls /\ [q EXCEPT !.pc = l].pc = l
         /\ [q EXCEPT !.pc = l].order = q.order /\ [q EXCEPT !.pc = l].row = q.row
BY DEF CancelCalls

LEMMA SweepNext ==
  ASSUME NEW q \in SweepCalls, NEW l \in SweepPcs, NEW x
  PROVE  /\ [q EXCEPT !.pc = l] \in SweepCalls /\ [q EXCEPT !.pc = l].pc = l
         /\ [q EXCEPT !.pc = l].rows = q.rows /\ [q EXCEPT !.pc = l].todo = q.todo
         /\ [q EXCEPT !.todo = @ \ {x}] \in SweepCalls /\ [q EXCEPT !.todo = @ \ {x}].pc = q.pc
         /\ [q EXCEPT !.todo = @ \ {x}].rows = q.rows /\ [q EXCEPT !.todo = @ \ {x}].todo = q.todo \ {x}
BY DEF SweepCalls

\* One call's next state, the others as they were.
LEMMA Stepped ==
  ASSUME handler \in [Calls -> ApiCalls], NEW c \in Calls, NEW r \in ApiCalls, Step(c, r)
  PROVE  /\ handler' \in [Calls -> ApiCalls] /\ handler'[c] = r
         /\ \A d \in Calls \ {c} : handler'[d] = handler[d]
BY DEF Step

-----------------------------------------------------------------------------
(* Frozen amounts *)

LEMMA FrozenNat ==
  ASSUME NEW n \in Nat, NEW p \in Nat
  PROVE  /\ Collateral(n, p) \in Nat /\ Frozen(n, p) \in Nat /\ Frozen(n, p) = 2 * Collateral(n, p)
         /\ Collateral(n, p) <= Frozen(n, p)
<1>1. PICK x \in Nat : x = n * p
  OBVIOUS
<1> QED BY <1>1 DEF Collateral, Frozen

LEMMA FrozenZero == ASSUME NEW p \in Nat PROVE Collateral(0, p) = 0 /\ Frozen(0, p) = 0
BY DEF Collateral, Frozen

LEMMA FrozenAdds ==
  ASSUME NEW m \in Nat, NEW n \in Nat, NEW p \in Nat
  PROVE  /\ Collateral(m + n, p) = Collateral(m, p) + Collateral(n, p)
         /\ Frozen(m + n, p) = Frozen(m, p) + Frozen(n, p)
<1>1. (m + n) * p = m * p + n * p
  OBVIOUS
<1>2. PICK x \in Nat, y \in Nat : x = m * p /\ y = n * p
  OBVIOUS
<1> QED BY <1>1, <1>2 DEF Collateral, Frozen

LEMMA DivideBack == ASSUME NEW a \in Int, NEW s \in Nat \ {0} PROVE (a * s) \div s = a
OBVIOUS

\* The engine's share of what was frozen is what its lots need.
LEMMA ShareIsExact ==
  ASSUME NEW k \in Nat, NEW n \in Nat \ {0}, NEW p \in Nat
  PROVE  (k * Frozen(n, p)) \div n = Frozen(k, p)
<1>1. PICK x \in Nat : x = Frozen(k, p)
  BY FrozenNat
<1>2. k * Frozen(n, p) = x * n
  BY <1>1 DEF Frozen, Collateral
<1> QED BY <1>1, <1>2, DivideBack

LEMMA QuotientIsNat == ASSUME NEW m \in Nat, NEW n \in Nat \ {0} PROVE m \div n \in Nat
OBVIOUS

LEMMA RefundNat ==
  ASSUME NEW r \in ApiRows
  PROVE  /\ RefundFor(r) \in Nat
         /\ r.filled <= r.amount => RefundFor(r) = Frozen(r.amount - r.filled, r.price)
         /\ r.amount # 0 \/ r.margin = 0 => OldFreeze(r) \in Nat
         /\ r.amount # 0 /\ r.filled = 0 /\ r.margin = Frozen(r.amount, r.price) => OldFreeze(r) = r.margin
<1>1. PICK a \in Nat, f \in Nat, m \in Nat, p \in Nat :
        a = r.amount /\ f = r.filled /\ m = r.margin /\ p = r.price
  BY DEF ApiRows
<1>2. NotNegative(a - f) \in Nat /\ (f <= a => NotNegative(a - f) = a - f)
  BY <1>1 DEF NotNegative
<1>3. RefundFor(r) = Frozen(NotNegative(a - f), p)
  BY <1>1 DEF RefundFor
<1>4. Frozen(NotNegative(a - f), p) \in Nat
  BY <1>2, FrozenNat
<1>5. PICK x \in Nat : x = NotNegative(a - f)
  BY <1>2
<1>6. OldFreeze(r) = IF m > 0 THEN (m * x) \div a ELSE Frozen(x, p)
  BY <1>1, <1>5 DEF OldFreeze
<1>7. a # 0 => (m * x) \div a \in Nat
  <2>1. m * x \in Nat
    OBVIOUS
  <2> QED BY <2>1, QuotientIsNat
<1>8. a # 0 /\ f = 0 => (m * x) \div a = m /\ x = a
  BY <1>2, <1>5, DivideBack
<1> QED BY <1>1, <1>2, <1>3, <1>4, <1>5, <1>6, <1>7, <1>8

-----------------------------------------------------------------------------
(* What the statements do, field by field *)

OthersSame(c) == \A d \in Calls \ {c} : handler'[d] = handler[d]
RowsSame(o) == \A x \in ApiOrders \ {o} : orders'[x] = orders[x]
\* The row of o keeps all but its status, filled amount and margin.
RowKept(o) ==
    /\ orders'[o].kind = orders[o].kind /\ orders'[o].effect = orders[o].effect
    /\ orders'[o].price = orders[o].price
    /\ orders'[o].amount = orders[o].amount

LEMMA RowWith ==
  ASSUME NEW r \in ApiRows, NEW s \in ApiStatuses, NEW f \in Nat, NEW m \in Nat
  PROVE  /\ [r EXCEPT !.status = s] \in ApiRows /\ [r EXCEPT !.margin = m] \in ApiRows
         /\ [r EXCEPT !.linked = TRUE] \in ApiRows
         /\ [r EXCEPT !.status = s, !.filled = f] \in ApiRows
         /\ [r EXCEPT !.filled = f, !.margin = m, !.status = s] \in ApiRows
BY DEF ApiRows

LEMMA MarkCancelledDoes ==
  ASSUME ApiTypes, NEW c \in Calls, MarkCancelled(c)
  PROVE  \E q \in CancelCalls, o \in ApiOrders :
           /\ q = handler[c] /\ o = q.order /\ q.pc = "mark" /\ ApiTypes'
           /\ handler'[c].pc = "refund" /\ handler'[c].order = o /\ handler'[c].row = q.row
           /\ OthersSame(c) /\ RowsSame(o) /\ RowKept(o)
           /\ orders'[o].status = "cancelled" /\ orders'[o].margin = orders[o].margin
           /\ orders'[o].linked = orders[o].linked /\ orders'[o].filled = orders[o].filled
<1>1. PICK q \in CancelCalls, o \in ApiOrders : q = handler[c] /\ o = q.order /\ q.pc = "mark"
  BY CallShape DEF MarkCancelled, ApiTypes, CancelPcs, CancelCalls
<1>2. PICK r \in CancelCalls : /\ r = [q EXCEPT !.pc = "refund"] /\ r.pc = "refund"
                               /\ r.order = q.order /\ r.row = q.row
  BY CancelNext DEF CancelPcs
<1>3. Step(c, r) /\ r \in ApiCalls
  BY <1>1, <1>2 DEF MarkCancelled, GoOn, ApiCalls
<1>4. /\ handler' \in [Calls -> ApiCalls] /\ handler'[c] = r
      /\ \A d \in Calls \ {c} : handler'[d] = handler[d]
  BY <1>3, Stepped DEF ApiTypes
<1>5. PICK w \in ApiRows : w = orders[o]
  BY DEF ApiTypes
<1>6. PICK v \in ApiRows : v = [w EXCEPT !.status = "cancelled"]
  BY RowWith DEF ApiStatuses
<1>7. orders' = [orders EXCEPT ![o] = v]
  BY <1>1, <1>5, <1>6 DEF MarkCancelled
<1>8. orders' \in [ApiOrders -> ApiRows] /\ orders'[o] = v /\ RowsSame(o)
  BY <1>7 DEF ApiTypes, RowsSame
<1>9. /\ v.status = "cancelled" /\ v.margin = w.margin /\ v.linked = w.linked /\ v.filled = w.filled
      /\ v.kind = w.kind /\ v.effect = w.effect /\ v.price = w.price /\ v.amount = w.amount
  BY <1>6 DEF ApiRows
<1>10. ApiTypes'
  BY <1>4, <1>8 DEF ApiTypes, MarkCancelled, engine, limits, apiHistory
<1> QED BY <1>1, <1>2, <1>4, <1>5, <1>8, <1>9, <1>10 DEF OthersSame, RowKept

LEMMA EndDoes ==
  ASSUME handler \in [Calls -> ApiCalls], NEW c \in Calls, End(c)
  PROVE  /\ handler' \in [Calls -> ApiCalls] /\ handler'[c] = Done /\ handler'[c].pc = "idle"
         /\ OthersSame(c)
<1>1. Done \in ApiCalls /\ Done.pc = "idle"
  BY DEF Done, ApiCalls
<1>2. Step(c, Done)
  BY DEF End
<1> QED BY <1>1, <1>2, Stepped DEF OthersSame

LEMMA CreateGoesOn ==
  ASSUME handler \in [Calls -> ApiCalls], NEW c \in Calls, handler[c] \in CreateCalls,
         NEW l \in CreatePcs, GoOn(c, l)
  PROVE  /\ handler' \in [Calls -> ApiCalls] /\ handler'[c] \in CreateCalls /\ handler'[c].pc = l
         /\ handler'[c].order = handler[c].order /\ handler'[c].kind = handler[c].kind
         /\ handler'[c].effect = handler[c].effect
         /\ handler'[c].n = handler[c].n /\ handler'[c].p = handler[c].p /\ handler'[c].read = handler[c].read
         /\ handler'[c].k = handler[c].k /\ handler'[c].frozen = handler[c].frozen
         /\ OthersSame(c)
<1>1. PICK q \in CreateCalls : q = handler[c]
  OBVIOUS
<1>2. PICK r \in CreateCalls : r = [q EXCEPT !.pc = l]
  BY CreateNext
<1>3. Step(c, r) /\ r \in ApiCalls
  BY <1>1, <1>2 DEF GoOn, ApiCalls
<1>4. handler' \in [Calls -> ApiCalls] /\ handler'[c] = r /\ OthersSame(c)
  BY <1>3, Stepped DEF OthersSame
<1>5. /\ r.pc = l /\ r.order = q.order /\ r.kind = q.kind /\ r.effect = q.effect /\ r.n = q.n /\ r.p = q.p
      /\ r.read = q.read
      /\ r.k = q.k /\ r.frozen = q.frozen
  BY <1>2 DEF CreateCalls
<1> QED BY <1>1, <1>4, <1>5

LEMMA ModifyGoesOn ==
  ASSUME handler \in [Calls -> ApiCalls], NEW c \in Calls, handler[c] \in ModifyCalls,
         NEW l \in ModifyPcs, GoOn(c, l)
  PROVE  /\ handler' \in [Calls -> ApiCalls] /\ handler'[c] \in ModifyCalls /\ handler'[c].pc = l
         /\ handler'[c].order = handler[c].order /\ handler'[c].kind = handler[c].kind
         /\ handler'[c].effect = handler[c].effect
         /\ handler'[c].n = handler[c].n /\ handler'[c].p = handler[c].p /\ handler'[c].read = handler[c].read
         /\ handler'[c].k = handler[c].k /\ handler'[c].frozen = handler[c].frozen
         /\ handler'[c].delta = handler[c].delta
         /\ OthersSame(c)
<1>1. PICK q \in ModifyCalls : q = handler[c]
  OBVIOUS
<1>2. PICK r \in ModifyCalls : r = [q EXCEPT !.pc = l]
  BY ModifyNext
<1>3. Step(c, r) /\ r \in ApiCalls
  BY <1>1, <1>2 DEF GoOn, ApiCalls
<1>4. handler' \in [Calls -> ApiCalls] /\ handler'[c] = r /\ OthersSame(c)
  BY <1>3, Stepped DEF OthersSame
<1>5. /\ r.pc = l /\ r.order = q.order /\ r.kind = q.kind /\ r.effect = q.effect /\ r.n = q.n /\ r.p = q.p
      /\ r.read = q.read
      /\ r.k = q.k /\ r.frozen = q.frozen /\ r.delta = q.delta
  BY <1>2 DEF ModifyCalls
<1> QED BY <1>1, <1>4, <1>5

LEMMA CancelGoesOn ==
  ASSUME handler \in [Calls -> ApiCalls], NEW c \in Calls, handler[c] \in CancelCalls,
         NEW l \in CancelPcs, GoOn(c, l)
  PROVE  /\ handler' \in [Calls -> ApiCalls] /\ handler'[c] \in CancelCalls /\ handler'[c].pc = l
         /\ handler'[c].order = handler[c].order /\ handler'[c].row = handler[c].row
         /\ OthersSame(c)
<1>1. PICK q \in CancelCalls : q = handler[c]
  OBVIOUS
<1>2. PICK r \in CancelCalls : r = [q EXCEPT !.pc = l]
  BY CancelNext
<1>3. Step(c, r) /\ r \in ApiCalls
  BY <1>1, <1>2 DEF GoOn, ApiCalls
<1>4. handler' \in [Calls -> ApiCalls] /\ handler'[c] = r /\ OthersSame(c)
  BY <1>3, Stepped DEF OthersSame
<1>5. r.pc = l /\ r.order = q.order /\ r.row = q.row
  BY <1>2 DEF CancelCalls
<1> QED BY <1>1, <1>4, <1>5

LEMMA RowChanged ==
  ASSUME orders \in [ApiOrders -> ApiRows], NEW o \in ApiOrders,
         NEW v \in ApiRows, orders' = [orders EXCEPT ![o] = v]
  PROVE  orders' \in [ApiOrders -> ApiRows] /\ orders'[o] = v /\ RowsSame(o)
BY DEF RowsSame

LEMMA MarginMoved ==
  ASSUME wallet \in [free : Int, frozen : Nat], NEW x \in Nat, NEW y \in Int, MoveMargin(x, y)
  PROVE  /\ wallet' \in [free : Int, frozen : Nat] /\ wallet'.free = wallet.free + y
         /\ x <= wallet.frozen => wallet'.frozen = wallet.frozen - x
<1>1. PICK f \in Int, z \in Nat : f = wallet.free /\ z = wallet.frozen
  OBVIOUS
<1>2. PICK g \in Int, w \in Nat : g = f + y /\ w = NotNegative(z - x) /\ (x <= z => w = z - x)
  BY DEF NotNegative
<1>3. wallet' = [free |-> g, frozen |-> w]
  BY <1>1, <1>2 DEF MoveMargin
<1> QED BY <1>1, <1>2, <1>3

LEMMA PlaceOrderDoes ==
  ASSUME ApiTypes, NEW c \in Calls, NEW o \in ApiOrders, NEW kind \in ApiKinds, NEW effect \in Effects,
         NEW n \in Lots, NEW p \in ApiPrices,
         PlaceOrder(c, o, kind, effect, n, p)
  PROVE  /\ ApiTypes' /\ OthersSame(c) /\ orders[o].status = "none" /\ ~AtWork(o)
         /\ handler'[c].pc = (IF effect = "close" THEN "insert" ELSE "freeze")
         /\ handler'[c].order = o /\ handler'[c].kind = kind /\ handler'[c].effect = effect
         /\ handler'[c].n = n /\ handler'[c].p = p
         /\ handler'[c].read = 0 /\ handler'[c].frozen = Frozen(n, p) /\ n > 0
         /\ UNCHANGED <<orders, wallet, inBook, unsaved, exchanged, taken, triggers, gone, revived, odd>>
<1>1. n \in Nat /\ n > 0 /\ p \in Nat /\ kind \in AllKinds
  BY ApiAssumption DEF AllKinds
<1>2. PICK x \in Nat : x = Frozen(n, p)
  BY <1>1, FrozenNat
<1>3. PICK r \in CreateCalls : r = [pc |-> IF effect = "close" THEN "insert" ELSE "freeze", order |-> o, kind |-> kind, effect |-> effect,
                n |-> n, p |-> p, read |-> 0, k |-> 0, frozen |-> x]
  <2>1. PICK l \in CreatePcs : l = IF effect = "close" THEN "insert" ELSE "freeze"
    BY DEF CreatePcs
  <2>2. [pc |-> l, order |-> o, kind |-> kind, effect |-> effect, n |-> n, p |-> p, read |-> 0, k |-> 0, frozen |-> x] \in CreateCalls
    BY <1>1, <1>2, <2>1 DEF CreateCalls
  <2> QED BY <2>1, <2>2
<1>4. Step(c, r) /\ r \in ApiCalls
  BY <1>2, <1>3 DEF PlaceOrder, ApiCalls
<1>5. handler' \in [Calls -> ApiCalls] /\ handler'[c] = r /\ OthersSame(c)
  BY <1>4, Stepped DEF OthersSame, ApiTypes
<1>6. ApiTypes'
  BY <1>5 DEF ApiTypes, PlaceOrder, engine, limits, apiHistory
<1> QED BY <1>1, <1>2, <1>3, <1>5, <1>6 DEF PlaceOrder, engine, limits, apiHistory

LEMMA FreezeMarginDoes ==
  ASSUME ApiTypes, NEW c \in Calls, FreezeMargin(c)
  PROVE  /\ ApiTypes' /\ OthersSame(c) /\ handler[c] \in CreateCalls /\ handler[c].pc = "freeze"
         /\ handler'[c].pc = "insert"
         /\ handler'[c].order = handler[c].order /\ handler'[c].kind = handler[c].kind
         /\ handler'[c].effect = handler[c].effect
         /\ handler'[c].n = handler[c].n /\ handler'[c].p = handler[c].p /\ handler'[c].read = handler[c].read
         /\ handler'[c].frozen = handler[c].frozen
         /\ wallet'.free = wallet.free - handler[c].frozen /\ wallet'.frozen = wallet.frozen + handler[c].frozen
         /\ UNCHANGED <<orders, inBook, unsaved, exchanged, taken, triggers, gone, revived, odd>>
<1>1. handler[c] \in CreateCalls /\ handler[c].pc = "freeze" /\ GoOn(c, "insert") /\ "insert" \in CreatePcs
  BY CallShape DEF FreezeMargin, ApiTypes, CreatePcs
<1>2. PICK x \in Nat, f \in Int, z \in Nat : x = handler[c].frozen /\ f = wallet.free /\ z = wallet.frozen
  BY <1>1 DEF CreateCalls, ApiTypes
<1>3. wallet' = [free |-> f - x, frozen |-> z + x]
  BY <1>2 DEF FreezeMargin
<1>4. wallet' \in [free : Int, frozen : Nat] /\ wallet'.free = f - x /\ wallet'.frozen = z + x
  BY <1>3
<1>5. handler \in [Calls -> ApiCalls]
  BY DEF ApiTypes
<1>6. ApiTypes'
  BY <1>1, <1>4, <1>5, CreateGoesOn DEF ApiTypes, FreezeMargin, engine, limits, apiHistory
<1> QED BY <1>1, <1>2, <1>4, <1>5, <1>6, CreateGoesOn DEF FreezeMargin, engine, limits, apiHistory

LEMMA InsertRowDoes ==
  ASSUME ApiTypes, NEW c \in Calls, InsertRow(c)
  PROVE  \E o \in ApiOrders, p \in ApiPrices :
         /\ ApiTypes' /\ OthersSame(c) /\ handler[c] \in CreateCalls /\ handler[c].pc = "insert"
         /\ o = handler[c].order
         /\ handler'[c].pc = (IF handler[c].kind = "trigger" THEN "trigger" ELSE "submit")
         /\ handler'[c].order = o /\ handler'[c].kind = handler[c].kind
         /\ handler'[c].effect = handler[c].effect
         /\ handler'[c].n = handler[c].n /\ handler'[c].p = handler[c].p /\ handler'[c].read = handler[c].read
         /\ handler'[c].frozen = handler[c].frozen
         /\ RowsSame(o) /\ orders'[o].status = "pending" /\ orders'[o].linked = FALSE
         /\ orders'[o].kind = handler[c].kind /\ orders'[o].effect = handler[c].effect
         /\ orders'[o].price = p /\ orders'[o].amount = handler[c].n
         /\ orders'[o].margin = (IF handler[c].effect = "close" THEN 0 ELSE handler[c].frozen)
         /\ handler[c].kind = "limit" => p = handler[c].p
         /\ odd' = {} => odd = {} /\ (handler[c].kind = "trigger" /\ handler[c].effect = "open" => p = handler[c].p)
         /\ UNCHANGED <<wallet, inBook, unsaved, exchanged, taken, triggers, gone, revived>>
<1>1. /\ handler[c] \in CreateCalls /\ handler[c].pc = "insert"
      /\ GoOn(c, IF handler[c].kind = "trigger" THEN "trigger" ELSE "submit")
      /\ (IF handler[c].kind = "trigger" THEN "trigger" ELSE "submit") \in CreatePcs
  BY CallShape DEF InsertRow, ApiTypes, CreatePcs
<1>2. PICK q \in CreateCalls, o \in ApiOrders : q = handler[c] /\ o = q.order
  BY <1>1 DEF CreateCalls
<1>3. q.p \in ApiPrices /\ q.kind \in AllKinds /\ q.effect \in Effects /\ q.n \in Nat /\ q.frozen \in Nat
  BY DEF CreateCalls
<1>4. PICK p \in ApiPrices :
         /\ orders' = [orders EXCEPT ![o] = NewRow(q, p)]
         /\ Note("repriced", q.kind = "trigger" /\ q.effect = "open" /\ p # q.p)
         /\ q.kind = "limit" => p = q.p
  BY <1>2, <1>3 DEF InsertRow, RowPrices
<1>5. PICK v \in ApiRows :
         /\ v = NewRow(q, p)
         /\ v.status = "pending" /\ v.linked = FALSE /\ v.kind = q.kind /\ v.effect = q.effect
         /\ v.price = p /\ v.amount = q.n /\ v.margin = (IF q.effect = "close" THEN 0 ELSE q.frozen)
  <2>1. PICK m \in Nat : m = IF q.effect = "close" THEN 0 ELSE q.frozen
    BY <1>3
  <2>2. PICK v : v = [status |-> "pending", kind |-> q.kind, effect |-> q.effect, price |-> p,
                      amount |-> q.n, filled |-> 0, margin |-> m, linked |-> FALSE]
    OBVIOUS
  <2>3. v = NewRow(q, p)
    BY <2>1, <2>2 DEF NewRow
  <2>4. p \in Nat
    BY ApiAssumption
  <2>5. v \in ApiRows
    BY <1>3, <2>1, <2>2, <2>4 DEF ApiRows, ApiStatuses
  <2>6. /\ v.status = "pending" /\ v.linked = FALSE /\ v.kind = q.kind /\ v.effect = q.effect
        /\ v.price = p /\ v.amount = q.n /\ v.margin = m
    BY <2>2
  <2> QED BY <2>1, <2>3, <2>5, <2>6
<1>6. orders' \in [ApiOrders -> ApiRows] /\ orders'[o] = v /\ RowsSame(o)
  BY <1>4, <1>5, RowChanged DEF ApiTypes
<1>7. handler \in [Calls -> ApiCalls]
  BY DEF ApiTypes
<1>8. UNCHANGED <<wallet, inBook, unsaved, exchanged, taken, triggers, gone, revived>>
  BY DEF InsertRow, engine, limits
<1>9. ApiTypes'
  BY <1>1, <1>6, <1>7, <1>8, CreateGoesOn DEF ApiTypes
<1>10. odd' = {} => odd = {} /\ (q.kind = "trigger" /\ q.effect = "open" => p = q.p)
  BY <1>4 DEF Note
<1> QED BY <1>1, <1>2, <1>4, <1>5, <1>6, <1>7, <1>8, <1>9, <1>10, CreateGoesOn

LEMMA AbandonDoes ==
  ASSUME ApiTypes, NEW c \in Calls, Abandon(c)
  PROVE  /\ ApiTypes' /\ OthersSame(c) /\ handler[c] \in CreateCalls
         /\ handler[c].pc \in {"insert", "trigger", "submit"} /\ handler'[c] = Done /\ handler'[c].pc = "idle"
         /\ odd' = {} => odd = {} /\ handler[c].effect = "close" /\ handler[c].pc = "insert"
         /\ UNCHANGED <<orders, wallet, inBook, unsaved, exchanged, taken, triggers, gone, revived>>
<1>1. handler[c] \in CreateCalls /\ handler[c].pc \in {"insert", "trigger", "submit"} /\ handler \in [Calls -> ApiCalls]
  BY CallShape DEF Abandon, ApiTypes
<1>2. handler' \in [Calls -> ApiCalls] /\ handler'[c] = Done /\ handler'[c].pc = "idle" /\ OthersSame(c)
  BY <1>1, EndDoes DEF Abandon
<1>3. ApiTypes'
  BY <1>2 DEF ApiTypes, Abandon, engine, limits
<1>4. handler[c].effect \in Effects
  BY <1>1 DEF CreateCalls
<1> QED BY <1>1, <1>2, <1>3, <1>4 DEF Abandon, Note, engine, limits, Effects

LEMMA CreateTriggerDoes ==
  ASSUME ApiTypes, NEW c \in Calls, CreateTrigger(c)
  PROVE  /\ ApiTypes' /\ OthersSame(c) /\ handler[c] \in CreateCalls /\ handler[c].pc = "trigger"
         /\ handler'[c].pc = "link" /\ handler'[c].order = handler[c].order
         /\ triggers'[handler[c].order] = "active"
         /\ \A x \in ApiOrders \ {handler[c].order} : triggers'[x] = triggers[x]
         /\ UNCHANGED <<orders, wallet, inBook, unsaved, exchanged, taken, gone, revived, odd>>
<1>1. /\ handler[c] \in CreateCalls /\ handler[c].pc = "trigger" /\ GoOn(c, "link") /\ "link" \in CreatePcs
      /\ handler[c].order \in ApiOrders /\ handler \in [Calls -> ApiCalls]
  BY CallShape DEF CreateTrigger, ApiTypes, CreatePcs, CreateCalls
<1>2. ApiTypes'
  BY <1>1, CreateGoesOn DEF ApiTypes, CreateTrigger, engine, limits, apiHistory
<1>3. /\ triggers'[handler[c].order] = "active"
      /\ \A x \in ApiOrders \ {handler[c].order} : triggers'[x] = triggers[x]
  BY <1>1 DEF CreateTrigger, ApiTypes
<1> QED BY <1>1, <1>2, <1>3, CreateGoesOn DEF CreateTrigger, engine, limits, apiHistory

LEMMA LinkTriggerDoes ==
  ASSUME ApiTypes, NEW c \in Calls, LinkTrigger(c)
  PROVE  \E o \in ApiOrders :
         /\ ApiTypes' /\ OthersSame(c) /\ handler[c].pc = "link" /\ o = handler[c].order
         /\ handler'[c] = Done /\ handler'[c].pc = "idle" /\ RowsSame(o) /\ RowKept(o)
         /\ orders'[o].status = orders[o].status /\ orders'[o].linked = TRUE
         /\ orders'[o].margin = orders[o].margin
         /\ UNCHANGED <<wallet, inBook, unsaved, exchanged, taken, triggers, gone, revived, odd>>
<1>1. PICK o \in ApiOrders : handler[c].pc = "link" /\ o = handler[c].order /\ handler \in [Calls -> ApiCalls]
  BY CallShape DEF LinkTrigger, ApiTypes, CreateCalls
<1>2. handler' \in [Calls -> ApiCalls] /\ handler'[c] = Done /\ handler'[c].pc = "idle" /\ OthersSame(c)
  BY <1>1, EndDoes DEF LinkTrigger
<1>3. PICK w \in ApiRows : w = orders[o]
  BY DEF ApiTypes
<1>4. PICK v \in ApiRows : v = [w EXCEPT !.linked = TRUE]
  BY DEF ApiRows
<1>5. orders' = [orders EXCEPT ![o] = v]
  BY <1>1, <1>3, <1>4 DEF LinkTrigger
<1>6. orders' \in [ApiOrders -> ApiRows] /\ orders'[o] = v /\ RowsSame(o)
  BY <1>5, RowChanged DEF ApiTypes
<1>7. /\ v.status = w.status /\ v.linked = TRUE /\ v.margin = w.margin /\ v.kind = w.kind
      /\ v.effect = w.effect /\ v.price = w.price
      /\ v.amount = w.amount
  BY <1>4 DEF ApiRows
<1>8. ApiTypes'
  BY <1>2, <1>6 DEF ApiTypes, LinkTrigger, engine, limits, apiHistory
<1> QED BY <1>1, <1>2, <1>3, <1>6, <1>7, <1>8 DEF RowKept, LinkTrigger, engine, limits, apiHistory

LEMMA MatchDoes ==
  ASSUME ApiTypes, NEW o \in ApiOrders, NEW kind \in AllKinds, NEW effect \in Effects, NEW n \in Nat,
         NEW k \in 0 .. n, NEW p \in ApiPrices,
         Match(o, kind, effect, n, k, p)
  PROVE  /\ inBook' \in [ApiOrders -> Nat] /\ exchanged' \in [ApiOrders -> Nat] /\ taken' \in Nat
         /\ inBook'[o] = (IF kind = "market" THEN inBook[o] ELSE inBook[o] + (n - k))
         /\ exchanged'[o] = exchanged[o] + k
         /\ \A x \in ApiOrders \ {o} : inBook'[x] = inBook[x] /\ exchanged'[x] = exchanged[x]
         /\ taken' = (IF effect = "close" THEN taken ELSE taken + Collateral(k, p))
         /\ UNCHANGED unsaved
<1>1. k \in Nat /\ n - k \in Nat /\ p \in Nat
  BY ApiAssumption
<1>2. PICK b \in Nat, e \in Nat, t \in Nat, m \in Nat :
        b = inBook[o] /\ e = exchanged[o] /\ t = taken /\ m = Collateral(k, p)
  BY <1>1, FrozenNat DEF ApiTypes
<1>3. PICK bb \in Nat, ee \in Nat, tt \in Nat :
        /\ bb = (IF kind = "market" THEN b ELSE b + (n - k)) /\ ee = e + k
        /\ tt = (IF effect = "close" THEN t ELSE t + m)
  BY <1>1
<1>4. inBook' = [inBook EXCEPT ![o] = bb] /\ exchanged' = [exchanged EXCEPT ![o] = ee] /\ taken' = tt
  BY <1>2, <1>3 DEF Match
<1> QED BY <1>2, <1>3, <1>4 DEF ApiTypes, Match

LEMMA SubmitOrderDoes ==
  ASSUME ApiTypes, NEW c \in Calls, SubmitOrder(c)
  PROVE  \E o \in ApiOrders, n \in Nat, p \in ApiPrices, kind \in AllKinds, effect \in Effects : \E k \in 0 .. n :
         /\ ApiTypes' /\ OthersSame(c) /\ handler[c] \in CreateCalls /\ handler[c].pc = "submit"
         /\ o = handler[c].order /\ n = handler[c].n /\ p = handler[c].p /\ kind = handler[c].kind
         /\ effect = handler[c].effect
         /\ handler'[c].pc = "record" /\ handler'[c].k = k
         /\ handler'[c].order = o /\ handler'[c].kind = kind /\ handler'[c].effect = effect
         /\ handler'[c].n = n /\ handler'[c].p = p
         /\ handler'[c].frozen = handler[c].frozen
         /\ Match(o, kind, effect, n, k, p)
         /\ UNCHANGED <<orders, wallet, triggers, gone, revived, odd>>
<1>1. /\ handler[c] \in CreateCalls /\ handler[c].pc = "submit" /\ handler \in [Calls -> ApiCalls]
  BY CallShape DEF SubmitOrder, ApiTypes
<1>2. PICK q \in CreateCalls : q = handler[c]
  BY <1>1
<1>3. PICK o \in ApiOrders, n \in Nat, p \in ApiPrices, kind \in AllKinds, effect \in Effects : o = q.order /\ n = q.n /\ p = q.p /\ kind = q.kind /\ effect = q.effect
  BY DEF CreateCalls
<1>4. PICK k \in 0 .. n : Match(o, kind, effect, n, k, p) /\ Step(c, [q EXCEPT !.pc = "record", !.k = k])
  BY <1>2, <1>3 DEF SubmitOrder
<1>5. PICK r \in CreateCalls :
        /\ r = [q EXCEPT !.pc = "record", !.k = k]
        /\ r.pc = "record" /\ r.k = k /\ r.order = o /\ r.kind = kind /\ r.effect = effect /\ r.n = n
        /\ r.p = p /\ r.frozen = q.frozen
  <2>1. k \in Nat /\ "record" \in CreatePcs
    BY DEF CreatePcs
  <2>2. PICK r : r = [q EXCEPT !.pc = "record", !.k = k]
    OBVIOUS
  <2>3. /\ r \in CreateCalls /\ r.pc = "record" /\ r.k = k /\ r.order = q.order /\ r.kind = q.kind
        /\ r.effect = q.effect /\ r.n = q.n
        /\ r.p = q.p /\ r.frozen = q.frozen
    BY <2>1, <2>2 DEF CreateCalls
  <2> QED BY <1>3, <2>2, <2>3
<1>6. handler' \in [Calls -> ApiCalls] /\ handler'[c] = r /\ OthersSame(c)
  BY <1>1, <1>4, <1>5, Stepped DEF OthersSame, ApiCalls
<1>7. ApiTypes'
  BY <1>4, <1>6, MatchDoes DEF ApiTypes, SubmitOrder, limits, apiHistory
<1> QED BY <1>1, <1>2, <1>3, <1>4, <1>5, <1>6, <1>7 DEF SubmitOrder, limits, apiHistory

LEMMA ResubmitOrderDoes ==
  ASSUME ApiTypes, NEW c \in Calls, ResubmitOrder(c)
  PROVE  \E o \in ApiOrders, n \in Nat, p \in ApiPrices :
         /\ ApiTypes' /\ OthersSame(c) /\ handler[c] \in ModifyCalls /\ handler[c].pc = "resubmit"
         /\ o = handler[c].order /\ n = handler[c].n /\ p = handler[c].p
         /\ UNCHANGED <<orders, wallet, triggers, gone, revived, odd>>
         /\ \/ /\ n = 0 /\ handler'[c].pc = "idle"
               /\ UNCHANGED <<inBook, unsaved, exchanged, taken>>
            \/ \E k \in 0 .. n :
               /\ n # 0 /\ handler'[c].pc = "record" /\ handler'[c].k = k
               /\ handler'[c].order = o /\ handler'[c].kind = "limit" /\ handler'[c].effect = "open"
               /\ handler'[c].n = n /\ handler'[c].p = p
               /\ handler'[c].frozen = handler[c].frozen
               /\ Match(o, "limit", "open", n, k, p)
<1>1. /\ handler[c] \in ModifyCalls /\ handler[c].pc = "resubmit" /\ handler \in [Calls -> ApiCalls]
  BY CallShape DEF ResubmitOrder, ApiTypes
<1>2. PICK q \in ModifyCalls : q = handler[c]
  BY <1>1
<1>3. PICK o \in ApiOrders, n \in Nat, p \in ApiPrices : o = q.order /\ n = q.n /\ p = q.p
                                                        /\ q.kind = "limit" /\ q.effect = "open"
  BY DEF ModifyCalls
<1>u. UNCHANGED <<orders, wallet, triggers, gone, revived, odd>>
  BY DEF ResubmitOrder, limits, apiHistory
<1>4. CASE n = 0
  <2>1. handler' \in [Calls -> ApiCalls] /\ handler'[c].pc = "idle" /\ OthersSame(c)
    BY <1>1, <1>2, <1>3, <1>4, EndDoes DEF ResubmitOrder
  <2>2. UNCHANGED <<inBook, unsaved, exchanged, taken>>
    BY <1>2, <1>3, <1>4 DEF ResubmitOrder, engine
  <2>3. ApiTypes'
    BY <1>u, <2>1, <2>2 DEF ApiTypes
  <2> QED BY <1>1, <1>2, <1>3, <1>4, <1>u, <2>1, <2>2, <2>3
<1>5. CASE n # 0
  <2>4. PICK k \in 0 .. n : Match(o, "limit", "open", n, k, p) /\ Step(c, [q EXCEPT !.pc = "record", !.k = k])
    BY <1>2, <1>3, <1>5 DEF ResubmitOrder
  <2>5. PICK r \in ModifyCalls :
          /\ r = [q EXCEPT !.pc = "record", !.k = k]
          /\ r.pc = "record" /\ r.k = k /\ r.order = o /\ r.kind = "limit" /\ r.effect = "open"
          /\ r.n = n /\ r.p = p
          /\ r.frozen = q.frozen
    <3>1. k \in Nat /\ "record" \in ModifyPcs
      BY DEF ModifyPcs
    <3>2. PICK r : r = [q EXCEPT !.pc = "record", !.k = k]
      OBVIOUS
    <3>3. /\ r \in ModifyCalls /\ r.pc = "record" /\ r.k = k /\ r.order = q.order /\ r.kind = q.kind
          /\ r.effect = q.effect /\ r.n = q.n
          /\ r.p = q.p /\ r.frozen = q.frozen
      BY <3>1, <3>2 DEF ModifyCalls
    <3> QED BY <1>3, <3>2, <3>3
  <2>6. handler' \in [Calls -> ApiCalls] /\ handler'[c] = r /\ OthersSame(c)
    BY <1>1, <2>4, <2>5, Stepped DEF OthersSame, ApiCalls
  <2>7. ApiTypes'
    <3>1. "limit" \in AllKinds /\ "open" \in Effects
      BY DEF AllKinds, Effects
    <3> QED BY <1>u, <2>4, <2>6, <3>1, MatchDoes DEF ApiTypes
  <2> QED BY <1>1, <1>2, <1>3, <1>5, <1>u, <2>4, <2>5, <2>6, <2>7
<1> QED BY <1>4, <1>5

\* A call that entered its order in the engine: what it reads, and where it goes.
Answered(c, l) ==
    /\ handler'[c].pc = l /\ handler'[c].order = handler[c].order /\ handler'[c].kind = handler[c].kind
    /\ handler'[c].effect = handler[c].effect
    /\ handler'[c].n = handler[c].n /\ handler'[c].p = handler[c].p /\ handler'[c].k = handler[c].k
    /\ handler'[c].frozen = handler[c].frozen

LEMMA AnswerGoesOn ==
  ASSUME ApiTypes, NEW c \in Calls, handler[c].pc \in {"record", "release", "shrink"},
         NEW l \in {"record", "release", "shrink"}, GoOn(c, l)
  PROVE  handler' \in [Calls -> ApiCalls] /\ OthersSame(c) /\ Answered(c, l)
<1>1. handler \in [Calls -> ApiCalls] /\ handler[c] \in CreateCalls \cup ModifyCalls
  BY CallShape DEF ApiTypes
<1>2. l \in CreatePcs /\ l \in ModifyPcs
  BY DEF CreatePcs, ModifyPcs
<1>3. CASE handler[c] \in CreateCalls
  BY <1>1, <1>2, <1>3, CreateGoesOn DEF Answered
<1>4. CASE handler[c] \in ModifyCalls
  BY <1>1, <1>2, <1>4, ModifyGoesOn DEF Answered
<1> QED BY <1>1, <1>3, <1>4

LEMMA AnswerShape ==
  ASSUME ApiTypes, NEW c \in Calls, handler[c].pc \in {"record", "release", "shrink"}
  PROVE  /\ handler[c].order \in ApiOrders /\ handler[c].kind \in AllKinds /\ handler[c].effect \in Effects
         /\ handler[c].n \in Nat
         /\ handler[c].p \in ApiPrices /\ handler[c].k \in Nat /\ handler[c].frozen \in Nat
         /\ handler[c].read \in Nat
<1>1. handler[c] \in CreateCalls \cup ModifyCalls
  BY CallShape DEF ApiTypes
<1>2. CASE handler[c] \in CreateCalls
  BY <1>2 DEF CreateCalls
<1>3. CASE handler[c] \in ModifyCalls
  BY <1>3 DEF ModifyCalls, AllKinds, Effects
<1> QED BY <1>1, <1>2, <1>3

LEMMA RecordAnswerDoes ==
  ASSUME ApiTypes, NEW c \in Calls, RecordAnswer(c)
  PROVE  \E o \in ApiOrders :
         /\ ApiTypes' /\ OthersSame(c) /\ handler[c].pc = "record" /\ o = handler[c].order
         /\ RowsSame(o) /\ RowKept(o) /\ orders'[o].margin = orders[o].margin
         /\ orders'[o].linked = orders[o].linked
         /\ orders'[o].status # "none"
         /\ revived \subseteq revived'
         /\ IF handler[c].effect = "open" /\ Status(handler[c].kind, handler[c].n, handler[c].k) # "open"
            THEN Answered(c, "release") ELSE handler'[c].pc = "idle"
         /\ odd' = {} => odd = {} /\ ~(/\ handler[c].kind = "market" /\ handler[c].effect = "open"
                                       /\ Status(handler[c].kind, handler[c].n, handler[c].k) = "partially_filled")
         /\ UNCHANGED <<wallet, inBook, unsaved, exchanged, taken, triggers, gone>>
<1>1. handler[c].pc = "record" /\ handler \in [Calls -> ApiCalls]
  BY DEF RecordAnswer, ApiTypes
<1>2. PICK o \in ApiOrders, f \in Nat, s \in ApiStatuses :
        /\ o = handler[c].order /\ f = handler[c].read + handler[c].k
        /\ s = Status(handler[c].kind, handler[c].n, handler[c].k) /\ s # "none"
  <2>1. Status(handler[c].kind, handler[c].n, handler[c].k) \in ApiStatuses \ {"none"}
    BY DEF Status, ApiStatuses
  <2>2. handler[c].order \in ApiOrders /\ handler[c].read + handler[c].k \in Nat
    BY <1>1, AnswerShape
  <2> QED BY <2>1, <2>2
<1>3. PICK w \in ApiRows : w = orders[o]
  BY DEF ApiTypes
<1>4. PICK v \in ApiRows : v = [w EXCEPT !.status = s, !.filled = f]
  BY <1>2, RowWith
<1>5. orders' = [orders EXCEPT ![o] = v]
  BY <1>2, <1>3, <1>4 DEF RecordAnswer
<1>6. orders' \in [ApiOrders -> ApiRows] /\ orders'[o] = v /\ RowsSame(o)
  BY <1>5, RowChanged DEF ApiTypes
<1>7. /\ v.status = s /\ v.linked = w.linked /\ v.margin = w.margin /\ v.kind = w.kind /\ v.effect = w.effect
      /\ v.price = w.price
      /\ v.amount = w.amount
  BY <1>4 DEF ApiRows
<1>8. /\ handler' \in [Calls -> ApiCalls] /\ OthersSame(c)
      /\ IF handler[c].effect = "open" /\ s # "open" THEN Answered(c, "release") ELSE handler'[c].pc = "idle"
  <2>1. CASE handler[c].effect = "open" /\ s # "open"
    <3>1. GoOn(c, "release")
      BY <1>2, <2>1 DEF RecordAnswer
    <3> QED BY <1>1, <2>1, <3>1, AnswerGoesOn
  <2>2. CASE ~(handler[c].effect = "open" /\ s # "open")
    <3>1. End(c)
      BY <1>2, <2>2 DEF RecordAnswer
    <3> QED BY <1>1, <2>2, <3>1, EndDoes
  <2> QED BY <2>1, <2>2
<1>9. revived \subseteq revived' /\ revived' \subseteq ApiOrders
  BY <1>2 DEF RecordAnswer, ApiTypes
<1>10. UNCHANGED <<wallet, inBook, unsaved, exchanged, taken, triggers, gone>>
  BY DEF RecordAnswer, engine, limits
<1>11. odd' = {} => odd = {} /\ ~(handler[c].kind = "market" /\ handler[c].effect = "open" /\ s = "partially_filled")
  BY <1>2 DEF RecordAnswer, Note
<1>12. ApiTypes'
  BY <1>6, <1>8, <1>9, <1>10 DEF ApiTypes
<1> QED BY <1>1, <1>2, <1>3, <1>6, <1>7, <1>8, <1>9, <1>10, <1>11, <1>12 DEF RowKept

LEMMA ShrinkMarginDoes ==
  ASSUME ApiTypes, NEW c \in Calls, ShrinkMargin(c)
  PROVE  \E o \in ApiOrders :
         /\ ApiTypes' /\ OthersSame(c) /\ handler[c].pc = "shrink" /\ o = handler[c].order
         /\ RowsSame(o) /\ RowKept(o) /\ orders'[o].linked = orders[o].linked
         /\ orders'[o].status = orders[o].status /\ handler'[c].pc = "idle"
         /\ UNCHANGED <<wallet, inBook, unsaved, exchanged, taken, triggers, gone, revived, odd>>
<1>1. handler[c].pc = "shrink" /\ handler \in [Calls -> ApiCalls]
  BY DEF ShrinkMargin, ApiTypes
<1>2. PICK o \in ApiOrders, f \in Nat : o = handler[c].order /\ f = handler[c].frozen
  BY <1>1, AnswerShape
<1>3. PICK w \in ApiRows : w = orders[o]
  BY DEF ApiTypes
<1>4. PICK m \in Nat : m = NotNegative(w.margin - f)
  BY <1>2, <1>3 DEF NotNegative, ApiRows
<1>5. PICK v \in ApiRows : v = [w EXCEPT !.margin = m]
  BY <1>4 DEF ApiRows
<1>6. orders' = [orders EXCEPT ![o] = v]
  BY <1>2, <1>3, <1>4, <1>5 DEF ShrinkMargin
<1>7. orders' \in [ApiOrders -> ApiRows] /\ orders'[o] = v /\ RowsSame(o)
  BY <1>6, RowChanged DEF ApiTypes
<1>8. /\ v.status = w.status /\ v.linked = w.linked /\ v.kind = w.kind /\ v.effect = w.effect
      /\ v.price = w.price /\ v.amount = w.amount
  BY <1>5 DEF ApiRows
<1>9. handler' \in [Calls -> ApiCalls] /\ handler'[c].pc = "idle" /\ OthersSame(c)
  BY <1>1, EndDoes DEF ShrinkMargin
<1>10. UNCHANGED <<wallet, inBook, unsaved, exchanged, taken, triggers, gone, revived, odd>>
  BY DEF ShrinkMargin, engine, limits, apiHistory
<1>11. ApiTypes'
  BY <1>7, <1>9, <1>10 DEF ApiTypes
<1> QED BY <1>1, <1>2, <1>3, <1>7, <1>8, <1>9, <1>10, <1>11 DEF RowKept

LEMMA ReleaseUnusedDoes ==
  ASSUME ApiTypes, NEW c \in Calls, ReleaseUnused(c), handler[c].n # 0
  PROVE  \E p \in ApiPrices, x \in Nat :
         /\ ApiTypes' /\ OthersSame(c) /\ handler[c].pc = "release"
         /\ x = ReleasedBy(handler[c], IF handler[c].kind = "market" THEN Frozen(handler[c].n, p) ELSE handler[c].frozen)
         /\ handler'[c].pc = "shrink" /\ handler'[c].order = handler[c].order
         /\ handler'[c].kind = handler[c].kind /\ handler'[c].effect = handler[c].effect
         /\ MoveMargin(x, NotNegative(x - Collateral(handler[c].k, handler[c].p)))
         /\ odd' = {} => odd = {} /\ p = handler[c].p
         /\ handler[c].kind # "market" => p = handler[c].p
         /\ UNCHANGED <<orders, inBook, unsaved, exchanged, taken, triggers, gone, revived>>
<1>1. handler[c].pc = "release" /\ handler \in [Calls -> ApiCalls]
  BY DEF ReleaseUnused, ApiTypes
<1>2. PICK q : q = handler[c]
  OBVIOUS
<1>3. /\ q.order \in ApiOrders /\ q.kind \in AllKinds /\ q.effect \in Effects /\ q.n \in Nat
      /\ q.p \in ApiPrices /\ q.k \in Nat
      /\ q.frozen \in Nat /\ q.n # 0
  BY SMTT(30), <1>1, <1>2, AnswerShape
<1>4. PICK p \in (IF q.kind = "market" THEN ApiPrices ELSE {q.p}) :
        LET x == ReleasedBy(q, IF q.kind = "market" THEN Frozen(q.n, p) ELSE q.frozen) IN
        /\ MoveMargin(x, NotNegative(x - Collateral(q.k, q.p)))
        /\ Step(c, [q EXCEPT !.pc = "shrink", !.frozen = x])
        /\ Note("moved", p # q.p)
  BY <1>2 DEF ReleaseUnused
<1>5. p \in ApiPrices /\ p \in Nat /\ q.p \in Nat /\ (q.kind # "market" => p = q.p)
  BY <1>3, <1>4, ApiAssumption
<1>6. PICK f \in Nat : f = IF q.kind = "market" THEN Frozen(q.n, p) ELSE q.frozen
  BY <1>3, <1>5, FrozenNat
<1>7. PICK x \in Nat : x = ReleasedBy(q, f)
  <2>1. q.k * f \in Nat
    BY <1>3
  <2>2. (q.k * f) \div q.n \in Nat
    BY <1>3, <2>1, QuotientIsNat
  <2> QED BY <2>2 DEF ReleasedBy
<1>8. /\ MoveMargin(x, NotNegative(x - Collateral(q.k, q.p)))
      /\ Step(c, [q EXCEPT !.pc = "shrink", !.frozen = x])
      /\ Note("moved", p # q.p)
  BY <1>4, <1>6, <1>7
<1>9. PICK r \in ApiCalls : r = [q EXCEPT !.pc = "shrink", !.frozen = x] /\ r.pc = "shrink" /\ r.order = q.order /\ r.kind = q.kind /\ r.effect = q.effect
  <2>1. q \in CreateCalls \cup ModifyCalls
    BY <1>1, <1>2, CallShape
  <2>4. PICK r : r = [q EXCEPT !.pc = "shrink", !.frozen = x]
    OBVIOUS
  <2>5. x \in Nat /\ "shrink" \in CreatePcs /\ "shrink" \in ModifyPcs
    BY <1>7 DEF CreatePcs, ModifyPcs
  <2>2. CASE q \in CreateCalls
    <3>1. r \in CreateCalls /\ r.pc = "shrink" /\ r.order = q.order /\ r.kind = q.kind /\ r.effect = q.effect
      BY <2>2, <2>4, <2>5 DEF CreateCalls
    <3> QED BY <2>4, <3>1 DEF ApiCalls
  <2>3. CASE q \in ModifyCalls
    <3>1. r \in ModifyCalls /\ r.pc = "shrink" /\ r.order = q.order /\ r.kind = q.kind /\ r.effect = q.effect
      BY <2>3, <2>4, <2>5 DEF ModifyCalls
    <3> QED BY <2>4, <3>1 DEF ApiCalls
  <2> QED BY <2>1, <2>2, <2>3
<1>10. handler' \in [Calls -> ApiCalls] /\ handler'[c] = r /\ OthersSame(c)
  BY <1>1, <1>8, <1>9, Stepped DEF OthersSame
<1>11. UNCHANGED <<orders, inBook, unsaved, exchanged, taken, triggers, gone, revived>>
  BY DEF ReleaseUnused, engine, limits
<1>12. wallet' \in [free : Int, frozen : Nat]
  <2>1. NotNegative(x - Collateral(q.k, q.p)) \in Int
    <3>1. PICK m \in Nat : m = Collateral(q.k, q.p)
      BY <1>3, <1>5, FrozenNat
    <3> QED BY <3>1 DEF NotNegative
  <2> QED BY <1>8, <2>1, MarginMoved DEF ApiTypes
<1>13. ApiTypes'
  BY <1>10, <1>11, <1>12 DEF ApiTypes
<1>14. odd' = {} => odd = {} /\ p = q.p
  BY <1>8 DEF Note
<1> QED BY <1>1, <1>2, <1>5, <1>6, <1>7, <1>8, <1>9, <1>10, <1>11, <1>13, <1>14

LEMMA CancelOneDoes ==
  ASSUME ApiTypes, NEW c \in Calls, NEW o \in ApiOrders, NEW strict \in BOOLEAN, CancelOne(c, o, strict)
  PROVE  /\ ApiTypes' /\ OthersSame(c) /\ orders[o].status \in LiveStatuses
         /\ handler'[c].pc = "pull" /\ handler'[c].order = o /\ handler'[c].row = orders[o]
         /\ UNCHANGED <<orders, wallet, inBook, unsaved, exchanged, taken, triggers, gone, revived, odd>>
<1>1. PICK w \in ApiRows : w = orders[o]
  BY DEF ApiTypes
<1>2. PICK r \in CancelCalls : r = [pc |-> "pull", order |-> o, row |-> w, strict |-> strict]
  BY DEF CancelCalls, CancelPcs
<1>3. Step(c, r) /\ r \in ApiCalls
  BY <1>1, <1>2 DEF CancelOne, ApiCalls
<1>4. handler' \in [Calls -> ApiCalls] /\ handler'[c] = r /\ OthersSame(c)
  BY <1>3, Stepped DEF OthersSame, ApiTypes
<1>5. UNCHANGED <<orders, wallet, inBook, unsaved, exchanged, taken, triggers, gone, revived, odd>>
  BY DEF CancelOne, engine, apiHistory
<1>6. ApiTypes'
  BY <1>4, <1>5 DEF ApiTypes
<1> QED BY <1>1, <1>2, <1>4, <1>5, <1>6 DEF CancelOne

LEMMA TakeOutDoes ==
  ASSUME ApiTypes, NEW o \in ApiOrders, NEW linked \in BOOLEAN, TakeOut(o, linked)
  PROVE  /\ inBook' \in [ApiOrders -> Nat]
         /\ triggers' \in [ApiOrders -> {"none", "active", "cancelled", "fired"}]
         /\ inBook'[o] = (IF linked THEN inBook[o] ELSE 0)
         /\ triggers'[o] = (IF linked /\ triggers[o] = "active" THEN "cancelled" ELSE triggers[o])
         /\ \A x \in ApiOrders \ {o} : inBook'[x] = inBook[x] /\ triggers'[x] = triggers[x]
         /\ UNCHANGED <<unsaved, exchanged, taken>>
BY DEF TakeOut, ApiTypes

LEMMA GoneSet ==
  ASSUME ApiTypes, NEW o \in ApiOrders, NEW found \in BOOLEAN,
         gone' = IF found THEN [gone EXCEPT ![o] = exchanged[o]] ELSE gone
  PROVE  /\ gone' \in [ApiOrders -> Int]
         /\ gone'[o] = (IF found THEN exchanged[o] ELSE gone[o])
         /\ \A x \in ApiOrders \ {o} : gone'[x] = gone[x]
<1>1. PICK e \in Int : e = exchanged[o]
  BY DEF ApiTypes
<1> QED BY <1>1 DEF ApiTypes

LEMMA FoundIsBoolean == ASSUME NEW o, NEW linked PROVE WasFound(o, linked) \in BOOLEAN
<1>1. CASE linked
  <2>1. WasFound(o, linked) = (triggers[o] = "active")
    BY <1>1 DEF WasFound
  <2> QED BY <2>1
<1>2. CASE ~linked
  <2>1. WasFound(o, linked) = (inBook[o] > 0)
    BY <1>2 DEF WasFound
  <2> QED BY <2>1
<1> QED BY <1>1, <1>2

LEMMA PullOneDoes ==
  ASSUME ApiTypes, NEW c \in Calls, PullOne(c)
  PROVE  \E o \in ApiOrders, r \in ApiRows, found \in BOOLEAN :
         /\ ApiTypes' /\ OthersSame(c) /\ handler[c].pc = "pull" /\ o = handler[c].order /\ r = handler[c].row
         /\ found = WasFound(o, r.linked) /\ TakeOut(o, r.linked)
         /\ gone'[o] = (IF found THEN exchanged[o] ELSE gone[o])
         /\ \A x \in ApiOrders \ {o} : gone'[x] = gone[x]
         /\ \/ found /\ handler'[c].pc = "mark" /\ handler'[c].order = o /\ handler'[c].row = r
            \/ ~found /\ handler'[c].pc = "mark" /\ handler'[c].order = o /\ handler'[c].row = r
            \/ ~found /\ handler'[c].pc = "idle"
         /\ odd' = {} => /\ odd = {}
                         /\ handler'[c].pc = "mark" => found /\ ~Outdated(o, r)
         /\ UNCHANGED <<orders, wallet, revived>>
<1>1. handler[c].pc = "pull" /\ handler \in [Calls -> ApiCalls] /\ handler[c] \in CancelCalls
  BY CallShape DEF PullOne, ApiTypes, CancelPcs
<1>2. PICK o \in ApiOrders, r \in ApiRows, found \in BOOLEAN :
        o = handler[c].order /\ r = handler[c].row /\ found = WasFound(o, r.linked)
  <2>1. handler[c].order \in ApiOrders /\ handler[c].row \in ApiRows
    BY <1>1 DEF CancelCalls
  <2> QED BY <2>1, FoundIsBoolean
<1>3. /\ TakeOut(o, r.linked) /\ gone' = (IF found THEN [gone EXCEPT ![o] = exchanged[o]] ELSE gone)
      /\ IF found \/ ~handler[c].strict THEN GoOn(c, "mark") ELSE End(c)
      /\ Note("refunded", (found \/ ~handler[c].strict) /\ (~found \/ Outdated(o, r)))
      /\ UNCHANGED <<orders, wallet, revived>>
  BY <1>2 DEF PullOne
<1>4. gone' \in [ApiOrders -> Int] /\ gone'[o] = (IF found THEN exchanged[o] ELSE gone[o])
      /\ \A x \in ApiOrders \ {o} : gone'[x] = gone[x]
  BY <1>3, GoneSet
<1>5. CASE found \/ ~handler[c].strict
  <2>1. GoOn(c, "mark") /\ "mark" \in CancelPcs
    BY <1>3, <1>5 DEF CancelPcs
  <2>2. /\ handler' \in [Calls -> ApiCalls] /\ handler'[c].pc = "mark" /\ handler'[c].order = o
        /\ handler'[c].row = r /\ OthersSame(c)
    BY <1>1, <1>2, <2>1, CancelGoesOn
  <2>3. r.linked \in BOOLEAN
    BY DEF ApiRows
  <2>4. ApiTypes'
    BY <1>3, <1>4, <2>2, <2>3, TakeOutDoes DEF ApiTypes
  <2>5. odd' = {} => odd = {} /\ found /\ ~Outdated(o, r)
    BY <1>3, <1>5 DEF Note
  <2> QED BY <1>1, <1>2, <1>3, <1>4, <2>2, <2>4, <2>5
<1>6. CASE ~found /\ handler[c].strict
  <2>1. End(c)
    BY <1>3, <1>6
  <2>2. handler' \in [Calls -> ApiCalls] /\ handler'[c].pc = "idle" /\ OthersSame(c)
    BY <1>1, <2>1, EndDoes
  <2>3. r.linked \in BOOLEAN
    BY DEF ApiRows
  <2>4. ApiTypes'
    BY <1>3, <1>4, <2>2, <2>3, TakeOutDoes DEF ApiTypes
  <2>5. odd' = {} => odd = {}
    BY <1>3 DEF Note
  <2> QED BY <1>1, <1>2, <1>3, <1>4, <1>6, <2>2, <2>4, <2>5
<1> QED BY <1>1, <1>5, <1>6 DEF CancelCalls

LEMMA RefundOneDoes ==
  ASSUME ApiTypes, NEW c \in Calls, RefundOne(c)
  PROVE  \E x \in Nat :
         /\ ApiTypes' /\ OthersSame(c) /\ handler[c].pc = "refund" /\ handler'[c].pc = "idle"
         /\ x = RefundFor(handler[c].row) /\ MoveMargin(x, x)
         /\ UNCHANGED <<orders, inBook, unsaved, exchanged, taken, triggers, gone, revived, odd>>
<1>1. handler[c].pc = "refund" /\ handler \in [Calls -> ApiCalls] /\ handler[c] \in CancelCalls
  BY CallShape DEF RefundOne, ApiTypes, CancelPcs
<1>2. PICK x \in Nat : x = RefundFor(handler[c].row)
  BY <1>1, RefundNat DEF CancelCalls
<1>3. handler' \in [Calls -> ApiCalls] /\ handler'[c].pc = "idle" /\ OthersSame(c)
  BY <1>1, EndDoes DEF RefundOne
<1>4. UNCHANGED <<orders, inBook, unsaved, exchanged, taken, triggers, gone, revived, odd>> /\ MoveMargin(x, x)
  BY <1>2 DEF RefundOne, engine, limits, apiHistory
<1>5. ApiTypes'
  BY <1>2, <1>3, <1>4, MarginMoved DEF ApiTypes
<1> QED BY <1>1, <1>2, <1>3, <1>4, <1>5

LEMMA CancelAllOrdersDoes ==
  ASSUME ApiTypes, NEW c \in Calls, CancelAllOrders(c)
  PROVE  \E S \in SUBSET ApiOrders :
         /\ ApiTypes' /\ OthersSame(c) /\ \A o \in S : orders[o].status \in LiveStatuses
         /\ handler'[c].pc = "pullall" /\ DOMAIN handler'[c].rows = S /\ handler'[c].todo = S
         /\ \A o \in S : handler'[c].rows[o] = orders[o]
         /\ UNCHANGED <<orders, wallet, inBook, unsaved, exchanged, taken, triggers, gone, revived, odd>>
<1>1. PICK S \in SUBSET ApiOrders : S = {o \in ApiOrders : orders[o].status \in LiveStatuses}
  OBVIOUS
<1>2. PICK g : g = [o \in S |-> orders[o]]
  OBVIOUS
<1>3. g \in UNION {[D -> ApiRows] : D \in SUBSET ApiOrders} /\ DOMAIN g = S /\ \A o \in S : g[o] = orders[o]
  <2>1. g \in [S -> ApiRows]
    BY <1>2 DEF ApiTypes
  <2> QED BY <1>2, <2>1
<1>4. PICK r \in SweepCalls : r = [pc |-> "pullall", rows |-> g, todo |-> S]
  BY <1>3 DEF SweepCalls, SweepPcs
<1>5. Step(c, r) /\ r \in ApiCalls
  BY <1>1, <1>2, <1>4 DEF CancelAllOrders, ApiCalls
<1>6. handler' \in [Calls -> ApiCalls] /\ handler'[c] = r /\ OthersSame(c)
  BY <1>5, Stepped DEF OthersSame, ApiTypes
<1>7. UNCHANGED <<orders, wallet, inBook, unsaved, exchanged, taken, triggers, gone, revived, odd>>
  BY DEF CancelAllOrders, engine, apiHistory
<1>8. ApiTypes'
  BY <1>6, <1>7 DEF ApiTypes
<1> QED BY <1>1, <1>3, <1>4, <1>6, <1>7, <1>8

LEMMA PullNextDoes ==
  ASSUME ApiTypes, NEW c \in Calls, PullNext(c), handler[c].todo \subseteq DOMAIN handler[c].rows
  PROVE  \E o \in ApiOrders, r \in ApiRows, found \in BOOLEAN :
         /\ ApiTypes' /\ OthersSame(c) /\ handler[c].pc = "pullall" /\ o \in handler[c].todo
         /\ r = handler[c].rows[o]
         /\ o \in DOMAIN handler[c].rows
         /\ found = WasFound(o, r.linked) /\ TakeOut(o, r.linked)
         /\ gone'[o] = (IF found THEN exchanged[o] ELSE gone[o])
         /\ \A x \in ApiOrders \ {o} : gone'[x] = gone[x]
         /\ handler'[c].pc = "pullall" /\ handler'[c].rows = handler[c].rows
         /\ handler'[c].todo = handler[c].todo \ {o}
         /\ odd' = {} => odd = {} /\ found /\ ~Outdated(o, r)
         /\ UNCHANGED <<orders, wallet, revived>>
<1>1. handler[c].pc = "pullall" /\ handler \in [Calls -> ApiCalls] /\ handler[c].todo # {}
  BY DEF PullNext, ApiTypes
<1>2. PICK q \in SweepCalls : q = handler[c]
  BY <1>1, CallShape DEF SweepPcs
<1>3. DOMAIN q.rows \in SUBSET ApiOrders /\ q.rows \in [DOMAIN q.rows -> ApiRows] /\ q.todo \in SUBSET ApiOrders
  BY SweepShape
<1>4. PICK o : o = (CHOOSE x \in q.todo : TRUE)
  OBVIOUS
<1>5. o \in q.todo /\ o \in ApiOrders /\ o \in DOMAIN q.rows
  BY <1>1, <1>2, <1>3, <1>4
<1>6. PICK r \in ApiRows, found \in BOOLEAN : r = q.rows[o] /\ found = WasFound(o, r.linked) /\ r.linked \in BOOLEAN
  <2>1. q.rows[o] \in ApiRows
    BY <1>3, <1>5
  <2>2. q.rows[o].linked \in BOOLEAN
    BY SMTT(30), <2>1 DEF ApiRows
  <2> QED BY <2>1, <2>2, FoundIsBoolean
<1>7. /\ TakeOut(o, r.linked) /\ gone' = (IF found THEN [gone EXCEPT ![o] = exchanged[o]] ELSE gone)
      /\ Note("refunded", ~found \/ Outdated(o, r))
      /\ Step(c, [q EXCEPT !.todo = @ \ {o}])
      /\ UNCHANGED <<orders, wallet, revived>>
  BY <1>2, <1>4, <1>6 DEF PullNext
<1>8. gone' \in [ApiOrders -> Int] /\ gone'[o] = (IF found THEN exchanged[o] ELSE gone[o])
      /\ \A x \in ApiOrders \ {o} : gone'[x] = gone[x]
  BY <1>5, <1>7, GoneSet
<1>9. PICK s : s = [q EXCEPT !.todo = @ \ {o}]
  OBVIOUS
<1>10. s \in SweepCalls /\ s.pc = q.pc /\ s.rows = q.rows /\ s.todo = q.todo \ {o}
  BY <1>9 DEF SweepCalls
<1>11. handler' \in [Calls -> ApiCalls] /\ handler'[c] = s /\ OthersSame(c)
  BY <1>1, <1>7, <1>9, <1>10, Stepped DEF OthersSame, ApiCalls
<1>12. ApiTypes'
  BY <1>5, <1>6, <1>7, <1>8, <1>11, TakeOutDoes DEF ApiTypes
<1>13. odd' = {} => odd = {} /\ found /\ ~Outdated(o, r)
  BY <1>7 DEF Note
<1> QED BY <1>1, <1>2, <1>5, <1>6, <1>7, <1>8, <1>10, <1>11, <1>12, <1>13

LEMMA MarkAllDoes ==
  ASSUME ApiTypes, NEW c \in Calls, MarkAll(c)
  PROVE  /\ ApiTypes' /\ OthersSame(c) /\ handler[c].pc = "pullall" /\ handler[c].todo = {}
         /\ handler'[c].pc = "refundall" /\ handler'[c].rows = handler[c].rows /\ handler'[c].todo = {}
         /\ \A o \in ApiOrders : /\ RowKept(o) /\ orders'[o].margin = orders[o].margin
                                 /\ orders'[o].linked = orders[o].linked
                                 /\ orders'[o].status = "none" <=> orders[o].status = "none"
         /\ odd' = {} => odd = {}
         /\ UNCHANGED <<wallet, inBook, unsaved, exchanged, taken, triggers, gone, revived>>
<1>1. handler[c].pc = "pullall" /\ handler \in [Calls -> ApiCalls] /\ handler[c].todo = {} /\ GoOn(c, "refundall")
  BY DEF MarkAll, ApiTypes
<1>2. PICK q \in SweepCalls : q = handler[c]
  BY <1>1, CallShape DEF SweepPcs
<1>3. PICK s \in SweepCalls : s = [q EXCEPT !.pc = "refundall"] /\ s.pc = "refundall" /\ s.rows = q.rows /\ s.todo = q.todo
  BY SweepNext DEF SweepPcs
<1>4. handler' \in [Calls -> ApiCalls] /\ handler'[c] = s /\ OthersSame(c)
  BY <1>1, <1>2, <1>3, Stepped DEF OthersSame, ApiCalls, GoOn
<1>5. PICK live \in SUBSET ApiOrders : live = {o \in ApiOrders : orders[o].status \in LiveStatuses}
  OBVIOUS
<1>6. orders' = [o \in ApiOrders |-> IF o \in live THEN [orders[o] EXCEPT !.status = "cancelled"] ELSE orders[o]]
  BY <1>5 DEF MarkAll
<1>7. ASSUME NEW o \in ApiOrders
      PROVE  /\ orders'[o] \in ApiRows /\ RowKept(o) /\ orders'[o].margin = orders[o].margin
             /\ orders'[o].linked = orders[o].linked
             /\ orders'[o].status = "none" <=> orders[o].status = "none"
  <2>1. PICK w \in ApiRows : w = orders[o]
    BY DEF ApiTypes
  <2>2. PICK v : v = [w EXCEPT !.status = "cancelled"]
    OBVIOUS
  <2>3. /\ v \in ApiRows /\ v.status = "cancelled" /\ v.kind = w.kind /\ v.effect = w.effect
        /\ v.price = w.price /\ v.amount = w.amount
        /\ v.margin = w.margin /\ v.linked = w.linked
    BY <2>2 DEF ApiRows, ApiStatuses
  <2>4. o \in live => orders[o].status # "none"
    BY <1>5 DEF LiveStatuses
  <2>5. orders'[o] = IF o \in live THEN v ELSE w
    BY <1>6, <2>1, <2>2
  <2> QED BY <2>1, <2>3, <2>4, <2>5 DEF RowKept
<1>8. orders' \in [ApiOrders -> ApiRows]
  BY <1>6, <1>7
<1>9. UNCHANGED <<wallet, inBook, unsaved, exchanged, taken, triggers, gone, revived>> /\ (odd' = {} => odd = {})
  BY DEF MarkAll, Note, engine, limits
<1>10. ApiTypes'
  BY <1>4, <1>8, <1>9 DEF ApiTypes
<1> QED BY <1>1, <1>2, <1>3, <1>4, <1>7, <1>9, <1>10

\* What the rows of a sweep are refunded is a natural number.
LEMMA RefundOfAllNat ==
  ASSUME NEW q \in SweepCalls, NEW S \in SUBSET DOMAIN q.rows
  PROVE  RefundOfAll(q.rows, S) \in Nat /\ IsFiniteSet(S)
<1>1. DOMAIN q.rows \in SUBSET ApiOrders /\ q.rows \in [DOMAIN q.rows -> ApiRows]
  BY SweepShape
<1>2. IsFiniteSet(S)
  <2>1. S \in SUBSET ApiOrders
    BY <1>1
  <2> QED BY <2>1, ApiAssumption, FS_Subset
<1>3. PICK g : g = [o \in S |-> RefundFor(q.rows[o])]
  OBVIOUS
<1>4. \A o \in S : g[o] \in Nat
  <2>1. \A o \in S : q.rows[o] \in ApiRows /\ g[o] = RefundFor(q.rows[o])
    BY <1>1, <1>3
  <2> QED BY <2>1, RefundNat
<1> QED BY <1>2, <1>3, <1>4, SumNat DEF RefundOfAll

LEMMA RefundAllOrdersDoes ==
  ASSUME ApiTypes, NEW c \in Calls, RefundAllOrders(c)
  PROVE  \E x \in Nat :
         /\ ApiTypes' /\ OthersSame(c) /\ handler[c].pc = "refundall" /\ handler'[c].pc = "idle"
         /\ x = RefundOfAll(handler[c].rows, DOMAIN handler[c].rows) /\ MoveMargin(x, x)
         /\ UNCHANGED <<orders, inBook, unsaved, exchanged, taken, triggers, gone, revived, odd>>
<1>1. handler[c].pc = "refundall" /\ handler \in [Calls -> ApiCalls] /\ handler[c] \in SweepCalls
  BY CallShape DEF RefundAllOrders, ApiTypes, SweepPcs
<1>2. PICK x \in Nat : x = RefundOfAll(handler[c].rows, DOMAIN handler[c].rows)
  BY <1>1, RefundOfAllNat
<1>3. handler' \in [Calls -> ApiCalls] /\ handler'[c].pc = "idle" /\ OthersSame(c)
  BY <1>1, EndDoes DEF RefundAllOrders
<1>4. UNCHANGED <<orders, inBook, unsaved, exchanged, taken, triggers, gone, revived, odd>> /\ MoveMargin(x, x)
  BY <1>2 DEF RefundAllOrders, engine, limits, apiHistory
<1>5. ApiTypes'
  BY <1>2, <1>3, <1>4, MarginMoved DEF ApiTypes
<1> QED BY <1>1, <1>2, <1>3, <1>4, <1>5

LEMMA ModifyOrderDoes ==
  ASSUME ApiTypes, OrdersPlaced, NEW c \in Calls, NEW o \in ApiOrders, NEW n \in Lots, NEW p \in ApiPrices,
         ModifyOrder(c, o, n, p)
  PROVE  \E left \in Nat, delta \in Int :
         /\ ApiTypes' /\ OthersSame(c) /\ orders[o].status \in {"open", "partially_filled"}
         /\ orders[o].kind = "limit"
         /\ left + orders[o].filled = n /\ n > 0 /\ delta = Frozen(left, p) - OldFreeze(orders[o])
         /\ handler'[c].pc = "repull" /\ handler'[c].order = o /\ handler'[c].n = left
         /\ handler'[c].p = p /\ handler'[c].read = orders[o].filled /\ handler'[c].frozen = Frozen(left, p)
         /\ handler'[c].delta = delta /\ handler'[c].row = orders[o]
         /\ UNCHANGED <<orders, wallet, inBook, unsaved, exchanged, taken, triggers, gone, revived, odd>>
<1>1. PICK w \in ApiRows : w = orders[o]
  BY DEF ApiTypes
<1>2. n \in Nat /\ n > 0 /\ p \in Nat
  BY ApiAssumption
<1>3. /\ w.status \in {"open", "partially_filled"} /\ w.kind = "limit" /\ n - w.filled >= 0
      /\ w.filled \in Nat
  BY <1>1 DEF ModifyOrder, ApiRows
<1>4. PICK left \in Nat : left = n - w.filled /\ left + w.filled = n
  BY <1>2, <1>3
<1>5. w.amount # 0
  BY <1>1, <1>3 DEF OrdersPlaced, OrderPlaced
<1>6. PICK z \in Nat : z = OldFreeze(w)
  BY <1>5, RefundNat
<1>7. PICK x \in Nat : x = Frozen(left, p)
  BY <1>2, FrozenNat
<1>8. PICK delta \in Int : delta = x - z
  OBVIOUS
<1>9. PICK r \in ModifyCalls : r = [pc |-> "repull", order |-> o, kind |-> "limit", effect |-> "open", n |-> left, p |-> p, k |-> 0,
                                    read |-> w.filled, frozen |-> x, delta |-> delta, row |-> w]
  BY <1>3, <1>7, <1>8, <1>4 DEF ModifyCalls, ModifyPcs
<1>10. Step(c, r) /\ r \in ApiCalls
  BY <1>1, <1>4, <1>6, <1>7, <1>8, <1>9 DEF ModifyOrder, ApiCalls
<1>11. handler' \in [Calls -> ApiCalls] /\ handler'[c] = r /\ OthersSame(c)
  BY <1>10, Stepped DEF OthersSame, ApiTypes
<1>12. UNCHANGED <<orders, wallet, inBook, unsaved, exchanged, taken, triggers, gone, revived, odd>>
  BY DEF ModifyOrder, engine, apiHistory
<1>13. ApiTypes'
  BY <1>11, <1>12 DEF ApiTypes
<1> QED BY <1>1, <1>2, <1>3, <1>4, <1>6, <1>7, <1>8, <1>9, <1>11, <1>12, <1>13

LEMMA RepullDoes ==
  ASSUME ApiTypes, NEW c \in Calls, Repull(c)
  PROVE  \E o \in ApiOrders :
         /\ ApiTypes' /\ OthersSame(c) /\ handler[c].pc = "repull" /\ o = handler[c].order
         /\ handler[c] \in ModifyCalls /\ TakeOut(o, FALSE)
         /\ IF inBook[o] > 0
            THEN /\ handler'[c].pc = "reshape" /\ handler'[c].order = o /\ handler'[c].kind = handler[c].kind
                 /\ handler'[c].effect = handler[c].effect
                 /\ handler'[c].n = handler[c].n /\ handler'[c].p = handler[c].p
                 /\ handler'[c].read = handler[c].read
                 /\ handler'[c].frozen = handler[c].frozen /\ handler'[c].delta = handler[c].delta
            ELSE handler'[c].pc = "idle"
         /\ odd' = {} => odd = {} /\ ~(inBook[o] > 0 /\ (Outdated(o, handler[c].row) \/ handler[c].read > 0))
         /\ UNCHANGED <<orders, wallet, gone, revived>>
<1>1. handler[c].pc = "repull" /\ handler \in [Calls -> ApiCalls] /\ handler[c] \in ModifyCalls
  BY CallShape DEF Repull, ApiTypes
<1>2. PICK o \in ApiOrders : o = handler[c].order
  BY <1>1 DEF ModifyCalls
<1>3. /\ TakeOut(o, FALSE) /\ UNCHANGED <<orders, wallet, gone, revived>>
      /\ IF inBook[o] > 0 THEN GoOn(c, "reshape") ELSE End(c)
  BY <1>2 DEF Repull, WasFound
<1>4. odd' = {} => odd = {} /\ ~(inBook[o] > 0 /\ (Outdated(o, handler[c].row) \/ handler[c].read > 0))
  BY <1>2 DEF Repull, WasFound, Note
<1>5. CASE inBook[o] > 0
  <2>1. GoOn(c, "reshape") /\ "reshape" \in ModifyPcs
    BY <1>3, <1>5 DEF ModifyPcs
  <2>2. ApiTypes'
    BY <1>1, <1>3, <2>1, ModifyGoesOn, TakeOutDoes DEF ApiTypes
  <2> QED BY <1>1, <1>2, <1>3, <1>4, <1>5, <2>1, <2>2, ModifyGoesOn
<1>6. CASE ~(inBook[o] > 0)
  <2>1. End(c)
    BY <1>3, <1>6
  <2>2. ApiTypes'
    BY <1>1, <1>3, <2>1, EndDoes, TakeOutDoes DEF ApiTypes
  <2> QED BY <1>1, <1>2, <1>3, <1>4, <1>6, <2>1, <2>2, EndDoes
<1> QED BY <1>5, <1>6

LEMMA ReshapeDoes ==
  ASSUME ApiTypes, NEW c \in Calls, Reshape(c)
  PROVE  \E o \in ApiOrders, amount \in Nat, delta \in Int :
         /\ ApiTypes' /\ OthersSame(c) /\ handler[c] \in ModifyCalls /\ handler[c].pc = "reshape"
         /\ o = handler[c].order /\ amount = handler[c].read + handler[c].n /\ delta = handler[c].delta
         /\ handler'[c].pc = "resubmit" /\ handler'[c].order = o /\ handler'[c].kind = handler[c].kind
         /\ handler'[c].effect = handler[c].effect
         /\ handler'[c].n = handler[c].n /\ handler'[c].p = handler[c].p /\ handler'[c].read = handler[c].read
         /\ handler'[c].frozen = handler[c].frozen
         /\ RowsSame(o) /\ orders'[o].amount = amount /\ orders'[o].price = handler[c].p
         /\ orders'[o].margin = handler[c].frozen /\ orders'[o].status = orders[o].status
         /\ orders'[o].kind = orders[o].kind /\ orders'[o].effect = orders[o].effect
         /\ orders'[o].linked = orders[o].linked
         /\ wallet'.free = wallet.free - delta
         /\ wallet.frozen + delta >= 0 => wallet'.frozen = wallet.frozen + delta
         /\ UNCHANGED <<inBook, unsaved, exchanged, taken, triggers, gone, revived, odd>>
<1>1. /\ handler[c].pc = "reshape" /\ handler \in [Calls -> ApiCalls] /\ handler[c] \in ModifyCalls
      /\ GoOn(c, "resubmit") /\ "resubmit" \in ModifyPcs
  BY CallShape DEF Reshape, ApiTypes, ModifyPcs
<1>2. PICK o \in ApiOrders, amount \in Nat, delta \in Int, x \in Nat, p \in ApiPrices :
        /\ o = handler[c].order /\ amount = handler[c].read + handler[c].n /\ delta = handler[c].delta
        /\ x = handler[c].frozen /\ p = handler[c].p
  BY <1>1 DEF ModifyCalls
<1>3. PICK w \in ApiRows, f \in Int, z \in Nat : w = orders[o] /\ f = wallet.free /\ z = wallet.frozen
  BY DEF ApiTypes
<1>4. PICK v : v = [w EXCEPT !.amount = amount, !.price = p, !.margin = x]
  OBVIOUS
<1>5. /\ v \in ApiRows /\ v.amount = amount /\ v.price = p /\ v.margin = x /\ v.status = w.status
      /\ v.kind = w.kind /\ v.effect = w.effect /\ v.linked = w.linked
  BY <1>2, <1>4, ApiAssumption DEF ApiRows
<1>6. orders' = [orders EXCEPT ![o] = v]
  BY <1>2, <1>3, <1>4 DEF Reshape
<1>7. orders' \in [ApiOrders -> ApiRows] /\ orders'[o] = v /\ RowsSame(o)
  BY <1>5, <1>6, RowChanged DEF ApiTypes
<1>8. PICK g \in Int, h \in Nat : g = f - delta /\ h = NotNegative(z + delta) /\ (z + delta >= 0 => h = z + delta)
  BY DEF NotNegative
<1>9. wallet' = [free |-> g, frozen |-> h]
  BY <1>2, <1>3, <1>8 DEF Reshape
<1>10. wallet' \in [free : Int, frozen : Nat] /\ wallet'.free = g /\ wallet'.frozen = h
  BY <1>8, <1>9
<1>11. UNCHANGED <<inBook, unsaved, exchanged, taken, triggers, gone, revived, odd>>
  BY DEF Reshape, engine, limits, apiHistory
<1>12. ApiTypes'
  BY <1>1, <1>7, <1>10, <1>11, ModifyGoesOn DEF ApiTypes
<1> QED BY <1>1, <1>2, <1>3, <1>5, <1>7, <1>8, <1>10, <1>11, <1>12, ModifyGoesOn

LEMMA CutCallDoes ==
  ASSUME ApiTypes, NEW c \in Calls, CutCall(c)
  PROVE  /\ ApiTypes' /\ OthersSame(c) /\ handler'[c] = Done /\ handler'[c].pc = "idle" /\ odd' # {}
         /\ revived \subseteq revived'
         /\ UNCHANGED <<orders, wallet, inBook, unsaved, exchanged, taken, triggers, gone>>
<1>1. handler \in [Calls -> ApiCalls] /\ End(c)
  BY DEF CutCall, ApiTypes
<1>2. handler' \in [Calls -> ApiCalls] /\ handler'[c] = Done /\ handler'[c].pc = "idle" /\ OthersSame(c)
  BY <1>1, EndDoes
<1>3. UNCHANGED <<orders, wallet, inBook, unsaved, exchanged, taken, triggers, gone>> /\ odd' # {}
  BY DEF CutCall, Note, engine
<1>4. revived \subseteq revived' /\ revived' \subseteq ApiOrders
  <2>1. CASE handler[c].pc = "mark"
    <3>1. handler[c].order \in ApiOrders
      BY <1>1, <2>1, CallShape DEF CancelPcs, CancelCalls
    <3>2. revived' = revived \cup {handler[c].order}
      BY <2>1 DEF CutCall
    <3> QED BY <3>1, <3>2 DEF ApiTypes
  <2>2. CASE handler[c].pc = "pullall"
    <3>1. handler[c] \in SweepCalls
      BY <1>1, <2>2, CallShape DEF SweepPcs
    <3>2. DOMAIN handler[c].rows \in SUBSET ApiOrders
      BY <3>1, SweepShape
    <3>3. revived' = revived \cup DOMAIN handler[c].rows
      BY <2>2 DEF CutCall
    <3> QED BY <3>2, <3>3 DEF ApiTypes
  <2>3. CASE handler[c].pc # "mark" /\ handler[c].pc # "pullall"
    <3>1. revived' = revived
      BY <2>3 DEF CutCall
    <3> QED BY <3>1 DEF ApiTypes
  <2> QED BY <2>1, <2>2, <2>3
<1>5. ApiTypes'
  BY <1>2, <1>3, <1>4 DEF ApiTypes
<1> QED BY <1>2, <1>3, <1>4, <1>5

LEMMA SkipStatementDoes ==
  ASSUME ApiTypes, NEW c \in Calls, SkipStatement(c)
  PROVE  /\ ApiTypes' /\ OthersSame(c) /\ odd' # {} /\ revived \subseteq revived'
         /\ \/ handler'[c].pc = "idle"
            \/ /\ handler[c].pc = "mark" /\ handler'[c].pc = "refund" /\ handler'[c].order = handler[c].order
            \/ /\ handler[c].pc = "record" /\ handler'[c].pc = "release" /\ handler'[c].order = handler[c].order
               /\ handler'[c].n = handler[c].n
         /\ UNCHANGED <<orders, wallet, inBook, unsaved, exchanged, taken, triggers, gone>>
<1>1. handler \in [Calls -> ApiCalls] /\ handler[c].pc \in {"mark", "record", "link"}
  BY DEF SkipStatement, ApiTypes
<1>2. UNCHANGED <<orders, wallet, inBook, unsaved, exchanged, taken, triggers, gone>> /\ odd' # {}
  BY DEF SkipStatement, Note, engine
<1>3. revived \subseteq revived' /\ revived' \subseteq ApiOrders
  <2>1. CASE handler[c].pc = "mark"
    <3>1. handler[c].order \in ApiOrders
      BY <1>1, <2>1, CallShape DEF CancelPcs, CancelCalls
    <3>2. revived' = revived \cup {handler[c].order}
      BY <2>1 DEF SkipStatement
    <3> QED BY <3>1, <3>2 DEF ApiTypes
  <2>2. CASE handler[c].pc # "mark"
    <3>1. revived' = revived
      BY <2>2 DEF SkipStatement
    <3> QED BY <3>1 DEF ApiTypes
  <2> QED BY <2>1, <2>2
<1>4. /\ handler' \in [Calls -> ApiCalls] /\ OthersSame(c)
      /\ \/ handler'[c].pc = "idle"
         \/ /\ handler[c].pc = "mark" /\ handler'[c].pc = "refund" /\ handler'[c].order = handler[c].order
         \/ /\ handler[c].pc = "record" /\ handler'[c].pc = "release" /\ handler'[c].order = handler[c].order
            /\ handler'[c].n = handler[c].n
  <2>1. CASE handler[c].pc = "mark"
    <3>1. GoOn(c, "refund") /\ "refund" \in CancelPcs /\ handler[c] \in CancelCalls
      BY <1>1, <2>1, CallShape DEF SkipStatement, CancelPcs
    <3> QED BY <1>1, <2>1, <3>1, CancelGoesOn
  <2> DEFINE Releases == /\ handler[c].pc = "record" /\ handler[c].effect = "open"
                         /\ Status(handler[c].kind, handler[c].n, handler[c].k) # "open"
  <2>2. CASE Releases
    <3>1. GoOn(c, "release")
      BY <2>2 DEF SkipStatement
    <3> QED BY <1>1, <2>2, <3>1, AnswerGoesOn DEF Answered
  <2>3. CASE handler[c].pc # "mark" /\ ~Releases
    <3>1. End(c)
      BY <2>3 DEF SkipStatement
    <3> QED BY <1>1, <3>1, EndDoes
  <2> QED BY <2>1, <2>2, <2>3
<1>5. ApiTypes'
  BY <1>2, <1>3, <1>4 DEF ApiTypes
<1> QED BY <1>2, <1>3, <1>4, <1>5

LEMMA ApiRestartDoes ==
  ASSUME ApiTypes, ApiRestart
  PROVE  /\ ApiTypes' /\ odd' # {} /\ \A c \in Calls : handler'[c].pc = "idle"
         /\ \A o \in ApiOrders : /\ inBook'[o] # 0 => Restarted(o)
                                 /\ \A p \in ApiPrices : unsaved'[o][p] = 0
                                 /\ gone[o] >= 0 /\ orders[o].status \in LiveStatuses => o \in revived'
         /\ revived \subseteq revived'
         /\ UNCHANGED <<orders, wallet, exchanged, taken, triggers, gone>>
<1>1. \A o \in ApiOrders : NotNegative(orders[o].amount - orders[o].filled) \in Nat
  <2>1. \A o \in ApiOrders : orders[o].amount \in Nat /\ orders[o].filled \in Nat
    BY DEF ApiTypes, ApiRows
  <2> QED BY <2>1 DEF NotNegative
<1>2. inBook' \in [ApiOrders -> Nat] /\ \A o \in ApiOrders : inBook'[o] # 0 => Restarted(o)
  BY <1>1 DEF ApiRestart
<1>3. unsaved' \in [ApiOrders -> [ApiPrices -> Nat]] /\ \A o \in ApiOrders, p \in ApiPrices : unsaved'[o][p] = 0
  BY DEF ApiRestart
<1>4. handler' \in [Calls -> ApiCalls] /\ \A c \in Calls : handler'[c].pc = "idle"
  BY DEF ApiRestart, ApiCalls, Done
<1>5. /\ revived \subseteq revived' /\ revived' \subseteq ApiOrders
      /\ \A o \in ApiOrders : gone[o] >= 0 /\ orders[o].status \in LiveStatuses => o \in revived'
  BY DEF ApiRestart, ApiTypes
<1>6. UNCHANGED <<orders, wallet, exchanged, taken, triggers, gone>> /\ odd' # {}
  BY DEF ApiRestart, Note
<1>7. ApiTypes'
  BY <1>2, <1>3, <1>4, <1>5, <1>6 DEF ApiTypes
<1> QED BY <1>2, <1>3, <1>4, <1>5, <1>6, <1>7

LEMMA HitDoes ==
  ASSUME ApiTypes, NEW o \in ApiOrders, Hit(o), orders[o].price \in ApiPrices
  PROVE  \E p \in ApiPrices :
         /\ ApiTypes' /\ inBook[o] > 0 /\ p = orders[o].price
         /\ inBook'[o] = inBook[o] - 1 /\ exchanged'[o] = exchanged[o] + 1
         /\ unsaved'[o][p] = unsaved[o][p] + 1
         /\ \A x \in ApiPrices \ {p} : unsaved'[o][x] = unsaved[o][x]
         /\ \A x \in ApiOrders \ {o} : inBook'[x] = inBook[x] /\ exchanged'[x] = exchanged[x] /\ unsaved'[x] = unsaved[x]
         /\ taken' = (IF orders[o].effect = "close" THEN taken ELSE taken + Collateral(1, p))
         /\ UNCHANGED <<orders, wallet, handler, triggers, gone, revived, odd>>
<1>1. PICK p \in ApiPrices, b \in Nat, e \in Nat, u \in Nat :
        p = orders[o].price /\ b = inBook[o] /\ e = exchanged[o] /\ u = unsaved[o][p] /\ b > 0
  BY DEF ApiTypes, Hit
<1>2. PICK bb \in Nat, ee \in Nat, uu \in Nat : bb = b - 1 /\ ee = e + 1 /\ uu = u + 1
  BY <1>1
<1>3. /\ inBook' = [inBook EXCEPT ![o] = bb] /\ exchanged' = [exchanged EXCEPT ![o] = ee]
      /\ unsaved' = [unsaved EXCEPT ![o][p] = uu]
      /\ taken' = (IF orders[o].effect = "close" THEN taken ELSE taken + Collateral(1, p))
  BY <1>1, <1>2 DEF Hit
<1>4. /\ inBook' \in [ApiOrders -> Nat] /\ exchanged' \in [ApiOrders -> Nat]
      /\ unsaved' \in [ApiOrders -> [ApiPrices -> Nat]]
      /\ inBook'[o] = bb /\ exchanged'[o] = ee /\ unsaved'[o][p] = uu
      /\ \A x \in ApiPrices \ {p} : unsaved'[o][x] = unsaved[o][x]
      /\ \A x \in ApiOrders \ {o} : inBook'[x] = inBook[x] /\ exchanged'[x] = exchanged[x] /\ unsaved'[x] = unsaved[x]
  BY <1>2, <1>3 DEF ApiTypes
<1>5. taken' \in Nat
  <2>1. p \in Nat
    BY ApiAssumption
  <2>2. PICK m \in Nat, t \in Nat : m = Collateral(1, p) /\ t = taken
    BY <2>1, FrozenNat DEF ApiTypes
  <2> QED BY <1>3, <2>2
<1>6. UNCHANGED <<orders, wallet, handler, triggers, gone, revived, odd>>
  BY DEF Hit, limits, apiHistory
<1>7. ApiTypes'
  BY <1>4, <1>5, <1>6 DEF ApiTypes
<1> QED BY <1>1, <1>2, <1>3, <1>4, <1>6, <1>7

LEMMA LeastOfTwo == ASSUME NEW a \in Nat, NEW b \in Nat PROVE Min({a, b}) \in Nat
<1>1. CASE a <= b
  <2>1. a \in {a, b} /\ \A y \in {a, b} : a <= y
    BY <1>1
  <2> QED BY <2>1 DEF Min
<1>2. CASE ~(a <= b)
  <2>1. b \in {a, b} /\ \A y \in {a, b} : b <= y
    BY <1>2
  <2> QED BY <2>1 DEF Min
<1> QED BY <1>1, <1>2

LEMMA SaveFillDoes ==
  ASSUME ApiTypes, NEW o \in ApiOrders, NEW p \in ApiPrices, SaveFill(o, p)
  PROVE  /\ ApiTypes' /\ unsaved[o][p] > 0 /\ unsaved'[o][p] = unsaved[o][p] - 1
         /\ \A x \in ApiPrices \ {p} : unsaved'[o][x] = unsaved[o][x]
         /\ \A x \in ApiOrders \ {o} : unsaved'[x] = unsaved[x]
         /\ RowsSame(o) /\ RowKept(o) /\ orders'[o].linked = orders[o].linked /\ orders'[o].status # "none"
         /\ MoveMargin(Frozen(1, p), Frozen(1, p) - Collateral(1, p))
         /\ odd' = {} => odd = {} /\ orders[o].effect = "open"
         /\ UNCHANGED <<inBook, triggers, handler, exchanged, taken, gone, revived>>
<1>1. PICK w \in ApiRows, u \in Nat : w = orders[o] /\ u = unsaved[o][p] /\ u > 0
  BY DEF ApiTypes, SaveFill
<1>2. PICK x \in Nat, y \in Nat : x = Frozen(1, p) /\ y = Collateral(1, p)
  <2>1. p \in Nat /\ 1 \in Nat
    BY ApiAssumption
  <2> QED BY <2>1, FrozenNat
<1>3. PICK f \in Nat, m \in Nat, s \in ApiStatuses \ {"none"} :
        /\ f = Min({w.filled + 1, w.amount}) /\ m = NotNegative(w.margin - x)
        /\ s = IF w.filled + 1 >= w.amount THEN "filled" ELSE "partially_filled"
  <2>1. w.filled + 1 \in Nat /\ w.amount \in Nat /\ w.margin \in Nat
    BY DEF ApiRows
  <2>2. PICK f \in Nat : f = Min({w.filled + 1, w.amount})
    BY <2>1, LeastOfTwo
  <2>3. PICK m \in Nat : m = NotNegative(w.margin - x)
    BY <1>2, <2>1 DEF NotNegative
  <2> QED BY <2>2, <2>3 DEF ApiStatuses
<1>4. PICK v : v = [w EXCEPT !.filled = f, !.margin = m, !.status = s]
  OBVIOUS
<1>5. /\ v \in ApiRows /\ v.status = s /\ v.kind = w.kind /\ v.effect = w.effect /\ v.linked = w.linked
      /\ v.amount = w.amount
      /\ v.price = w.price
  BY <1>3, <1>4 DEF ApiRows
<1>6. orders' = [orders EXCEPT ![o] = v]
  BY <1>1, <1>2, <1>3, <1>4 DEF SaveFill
<1>7. orders' \in [ApiOrders -> ApiRows] /\ orders'[o] = v /\ RowsSame(o)
  BY <1>5, <1>6, RowChanged DEF ApiTypes
<1>8. PICK uu \in Nat : uu = u - 1
  BY <1>1
<1>9. unsaved' = [unsaved EXCEPT ![o][p] = uu]
  BY <1>1, <1>8 DEF SaveFill
<1>10. /\ unsaved' \in [ApiOrders -> [ApiPrices -> Nat]] /\ unsaved'[o][p] = uu
       /\ \A z \in ApiPrices \ {p} : unsaved'[o][z] = unsaved[o][z]
       /\ \A z \in ApiOrders \ {o} : unsaved'[z] = unsaved[z]
  BY <1>8, <1>9 DEF ApiTypes
<1>11. wallet' \in [free : Int, frozen : Nat] /\ MoveMargin(Frozen(1, p), Frozen(1, p) - Collateral(1, p))
  <2>1. MoveMargin(x, x - y) /\ x - y \in Int
    BY <1>2 DEF SaveFill
  <2> QED BY <1>2, <2>1, MarginMoved DEF ApiTypes
<1>12. UNCHANGED <<inBook, triggers, handler, exchanged, taken, gone, revived>>
  BY DEF SaveFill, limits
<1>13. odd' = {} => odd = {} /\ orders[o].effect = "open"
  <2>1. orders[o].effect \in Effects
    BY DEF ApiTypes, ApiRows
  <2> QED BY <2>1 DEF SaveFill, Note, Effects
<1>14. ApiTypes'
  BY <1>7, <1>10, <1>11, <1>12 DEF ApiTypes
<1> QED BY <1>1, <1>3, <1>5, <1>7, <1>8, <1>10, <1>11, <1>12, <1>13, <1>14 DEF RowKept

LEMMA FireDoes ==
  ASSUME ApiTypes, NEW o \in ApiOrders, Fire(o)
  PROVE  /\ ApiTypes' /\ triggers[o] = "active" /\ triggers'[o] = "fired"
         /\ odd' = {} => odd = {} /\ orders[o].effect = "close"
         /\ \A x \in ApiOrders \ {o} : triggers'[x] = triggers[x]
         /\ UNCHANGED <<orders, wallet, inBook, unsaved, exchanged, taken, handler, gone, revived>>
<1>1. /\ triggers[o] = "active" /\ triggers' = [triggers EXCEPT ![o] = "fired"]
      /\ UNCHANGED <<orders, wallet, inBook, unsaved, exchanged, taken, handler, gone, revived>>
  BY DEF Fire, engine, limits
<1>2. orders[o].effect \in Effects
  BY DEF ApiTypes, ApiRows
<1>3. odd' = {} => odd = {} /\ orders[o].effect = "close"
  BY <1>2 DEF Fire, Note, Effects
<1> QED BY <1>1, <1>3 DEF ApiTypes

-----------------------------------------------------------------------------
(* Calls keep out of each other's way *)

\* The row of o has kept its kind, or one of the calls M has just written it.
RowStands(o, M) ==
    \/ orders'[o].kind = orders[o].kind /\ orders'[o].effect = orders[o].effect /\ (orders'[o].status = "none" <=> orders[o].status = "none")
    \/ orders[o].status = "none" /\ \E d \in M : Carrying(d, o)

LEMMA CarryingSame ==
  ASSUME NEW d, handler'[d] = handler[d], NEW o
  PROVE  Carrying(d, o)' <=> Carrying(d, o)
BY DEF Carrying

\* What the calls that do not move see stays as they need it.
LEMMA OthersPlaced ==
  ASSUME ApiTypes, Placed, NEW M \in SUBSET Calls, NEW d \in Calls \ M, handler'[d] = handler[d],
         \A o \in ApiOrders : RowStands(o, M),
         \A o \in ApiOrders : triggers'[o] = triggers[o] \/ triggers[o] # "none" \/ \E e \in M : Carrying(e, o)
  PROVE  CallPlaced(d)'
<1>1. PICK q \in ApiCalls : q = handler[d] /\ q = handler'[d]
  BY DEF ApiTypes
<1>2. \A o \in ApiOrders : Carrying(d, o) => ~ \E e \in M : Carrying(e, o)
  BY DEF Placed, OneCarrier
<1>3. CallPlaced(d)
  BY DEF Placed, CallsPlaced
<1>4. q.pc \in {"freeze", "insert"} => orders'[q.order].status = "none" /\ q.n > 0
  <2> SUFFICES ASSUME q.pc \in {"freeze", "insert"} PROVE orders'[q.order].status = "none" /\ q.n > 0
    OBVIOUS
  <2>1. q.order \in ApiOrders /\ Carrying(d, q.order)
    BY <1>1, CallShape DEF CreateCalls, Carrying
  <2> QED BY <1>1, <1>2, <1>3, <2>1 DEF CallPlaced, RowStands
<1>5. /\ q.pc \in {"repull", "reshape"} => q.read + q.n > 0
      /\ q.pc \in {"submit", "record", "release"} => q.n > 0
      /\ Sweeping(d) => q.todo \subseteq DOMAIN q.rows
      /\ q.pc = "refundall" => q.todo = {}
  BY <1>1, <1>3 DEF CallPlaced
<1>6. AtRow(d) => /\ q.order \in ApiOrders /\ orders[q.order].status # "none"
                  /\ orders'[q.order].status # "none" /\ orders'[q.order].kind = orders[q.order].kind
                  /\ orders'[q.order].effect = orders[q.order].effect
  <2> SUFFICES ASSUME AtRow(d)
               PROVE  /\ q.order \in ApiOrders /\ orders[q.order].status # "none"
                      /\ orders'[q.order].status # "none" /\ orders'[q.order].kind = orders[q.order].kind
                      /\ orders'[q.order].effect = orders[q.order].effect
    OBVIOUS
  <2>1. q.order \in ApiOrders
    BY <1>1, CallShape DEF AtRow, CreateCalls, ModifyCalls, CancelCalls, CancelPcs
  <2> QED BY <1>1, <1>3, <2>1 DEF CallPlaced, RowStands
<1>7. q.pc = "trigger" => triggers'[q.order] = "none"
  <2> SUFFICES ASSUME q.pc = "trigger" PROVE triggers'[q.order] = "none"
    OBVIOUS
  <2>1. q.order \in ApiOrders /\ Carrying(d, q.order)
    BY <1>1, CallShape DEF CreateCalls, Carrying
  <2> QED BY <1>1, <1>2, <1>3, <2>1 DEF CallPlaced
<1>8. AtRow(d)' <=> AtRow(d)
  BY <1>1 DEF AtRow
<1>9. Sweeping(d) => \A o \in DOMAIN q.rows :
          orders'[o].status # "none" /\ (q.rows[o].linked => orders'[o].kind = "trigger")
  <2> SUFFICES ASSUME Sweeping(d), NEW o \in DOMAIN q.rows
               PROVE  orders'[o].status # "none" /\ (q.rows[o].linked => orders'[o].kind = "trigger")
    OBVIOUS
  <2>1. o \in ApiOrders
    BY <1>1, CallShape, SweepShape DEF Sweeping
  <2> QED BY <1>1, <1>3, <2>1 DEF CallPlaced, RowStands
<1>10. Sweeping(d)' <=> Sweeping(d)
  BY <1>1 DEF Sweeping
<1>11. q.pc \in {"trigger", "link"} => orders'[q.order].kind = "trigger"
  BY <1>1, <1>3, <1>6 DEF CallPlaced, AtRow
<1>12. q.pc \in {"submit", "repull", "reshape", "resubmit"} => orders'[q.order].kind # "trigger"
  BY <1>1, <1>3, <1>6 DEF CallPlaced, AtRow
<1>13. q.pc = "pull" /\ q.row.linked => orders'[q.order].kind = "trigger"
  BY <1>1, <1>3, <1>6 DEF CallPlaced, AtRow
<1> QED BY <1>1, <1>4, <1>5, <1>6, <1>7, <1>8, <1>9, <1>10, <1>11, <1>12, <1>13 DEF CallPlaced

\* A step of the calls M (one, or none) keeps the calls apart.
LEMMA PlacedKept ==
  ASSUME ApiTypes, Placed, NEW M \in SUBSET Calls, \A d, e \in M : d = e,
         \A d \in Calls \ M : handler'[d] = handler[d],
         \A d \in M : CallPlaced(d)',
         \A o \in ApiOrders : OrderPlaced(o)',
         \A o \in ApiOrders : RowStands(o, M),
         \A o \in ApiOrders : triggers'[o] = triggers[o] \/ triggers[o] # "none" \/ \E e \in M : Carrying(e, o),
         \A d \in M, o \in ApiOrders : Carrying(d, o)' =>
            /\ inBook'[o] = 0
            /\ \/ Carrying(d, o)
               \/ (inBook[o] > 0 \/ orders[o].status = "none") /\ \A e \in Calls : ~Carrying(e, o),
         \A o \in ApiOrders : inBook[o] = 0 => inBook'[o] = 0 \/ \E d \in M : Carrying(d, o) /\ ~Carrying(d, o)',
         revived \subseteq revived',
         \A o \in ApiOrders :
            \/ gone'[o] = gone[o] /\ (exchanged'[o] = exchanged[o] \/ inBook[o] > 0 \/ \E d \in M : Carrying(d, o))
            \/ /\ inBook'[o] = 0 /\ gone'[o] = exchanged'[o] /\ \A d \in Calls : ~Carrying(d, o)
               /\ \A d \in M : ~Carrying(d, o)'
  PROVE  Placed'
<1>1. CallsPlaced'
  BY OthersPlaced DEF CallsPlaced
<1>2. OrdersPlaced'
  BY DEF OrdersPlaced
<1>3. \A d \in Calls \ M, o \in ApiOrders : Carrying(d, o)' <=> Carrying(d, o)
  BY CarryingSame
<1>4. OneCarrier'
  <2>1. ASSUME NEW c \in Calls, NEW d \in Calls, NEW o \in ApiOrders, Carrying(c, o)', Carrying(d, o)'
        PROVE  c = d
    BY <1>3, <2>1 DEF Placed, OneCarrier
  <2>2. ASSUME NEW c \in Calls, NEW o \in ApiOrders, Carrying(c, o)'
        PROVE  inBook'[o] = 0
    <3>1. CASE c \in M
      BY <2>2, <3>1
    <3>2. CASE c \notin M
      <4>1. Carrying(c, o) /\ inBook[o] = 0
        BY <1>3, <2>2, <3>2 DEF Placed, OneCarrier
      <4>2. ~ \E d \in M : Carrying(d, o)
        BY <3>2, <4>1 DEF Placed, OneCarrier
      <4> QED BY <4>1, <4>2
    <3> QED BY <3>1, <3>2
  <2> QED BY <2>1, <2>2 DEF OneCarrier
<1>5. StaysGone'
  <2> SUFFICES ASSUME NEW o \in ApiOrders, o \notin revived', gone'[o] >= 0 PROVE GoneFor(o)'
    BY DEF StaysGone
  <2>1. CASE gone'[o] = gone[o] /\ (exchanged'[o] = exchanged[o] \/ inBook[o] > 0 \/ \E d \in M : Carrying(d, o))
    <3>1. GoneFor(o) /\ o \notin revived
      BY <2>1 DEF Placed, StaysGone
    <3>2. inBook[o] = 0 /\ exchanged[o] = gone[o] /\ \A d \in Calls : ~Carrying(d, o)
      BY <3>1 DEF GoneFor
    <3>3. exchanged'[o] = gone'[o] /\ inBook'[o] = 0
      BY <2>1, <3>2
    <3>4. orders[o].status # "none"
      <4>1. gone[o] # -1
        BY <2>1
      <4> QED BY <4>1 DEF Placed, OrdersPlaced, OrderPlaced
    <3>5. ASSUME NEW d \in Calls PROVE ~Carrying(d, o)'
      BY <1>3, <3>2, <3>4
    <3> QED BY <3>3, <3>5 DEF GoneFor
  <2>2. CASE /\ inBook'[o] = 0 /\ gone'[o] = exchanged'[o] /\ \A d \in Calls : ~Carrying(d, o)
             /\ \A d \in M : ~Carrying(d, o)'
    BY <1>3, <2>2 DEF GoneFor
  <2> QED BY <2>1, <2>2
<1> QED BY <1>1, <1>2, <1>4, <1>5 DEF Placed

\* A row that kept kind, price and amount, and was neither written first nor linked.
RowCalm(o) ==
    /\ RowKept(o) /\ (orders'[o].status = "none" <=> orders[o].status = "none")
    /\ orders'[o].linked => orders[o].linked \/ orders[o].kind = "trigger"

\* Steps that leave book and triggers alone.
LEMMA BookAlone ==
  ASSUME ApiTypes, Placed, NEW M \in SUBSET Calls, \A d, e \in M : d = e,
         \A d \in Calls \ M : handler'[d] = handler[d],
         \A d \in M : CallPlaced(d)',
         \A o \in ApiOrders : RowCalm(o),
         \A o \in ApiOrders, p \in ApiPrices : unsaved'[o][p] = unsaved[o][p] \/ orders[o].status # "none",
         UNCHANGED <<inBook, exchanged, triggers, gone>>, revived \subseteq revived',
         \A d \in M, o \in ApiOrders : Carrying(d, o)' =>
            Carrying(d, o) \/ (orders[o].status = "none" /\ \A e \in Calls : ~Carrying(e, o))
  PROVE  Placed'
<1>1. ASSUME NEW o \in ApiOrders PROVE OrderPlaced(o)'
  <2>1. OrderPlaced(o) /\ RowCalm(o)
    BY DEF Placed, OrdersPlaced
  <2>2. \A p \in ApiPrices : unsaved'[o][p] = unsaved[o][p] \/ orders[o].status # "none"
    OBVIOUS
  <2>3. orders'[o].status = "none" =>
          /\ inBook'[o] = 0 /\ exchanged'[o] = 0 /\ gone'[o] = -1 /\ triggers'[o] = "none"
          /\ \A p \in ApiPrices : unsaved'[o][p] = 0
    BY <2>1, <2>2 DEF OrderPlaced, RowCalm
  <2>4. /\ orders'[o].status # "none" => orders'[o].price \in ApiPrices /\ orders'[o].amount > 0
        /\ orders'[o].linked => orders'[o].kind = "trigger"
        /\ triggers'[o] # "none" => orders'[o].kind = "trigger"
        /\ orders'[o].kind = "trigger" => inBook'[o] = 0 /\ exchanged'[o] = 0
    BY <2>1 DEF OrderPlaced, RowCalm, RowKept
  <2> QED BY <2>3, <2>4 DEF OrderPlaced
<1>2. \A o \in ApiOrders : RowStands(o, M)
  BY DEF RowCalm, RowKept, RowStands
<1>3. ASSUME NEW d \in M, NEW o \in ApiOrders, Carrying(d, o)'
      PROVE  /\ inBook'[o] = 0
             /\ \/ Carrying(d, o)
                \/ (inBook[o] > 0 \/ orders[o].status = "none") /\ \A e \in Calls : ~Carrying(e, o)
  BY <1>3 DEF Placed, OneCarrier, OrdersPlaced, OrderPlaced
<1>4. \A o \in ApiOrders : inBook[o] = 0 => inBook'[o] = 0 \/ \E d \in M : Carrying(d, o) /\ ~Carrying(d, o)'
  OBVIOUS
<1>5. \A o \in ApiOrders : triggers'[o] = triggers[o] \/ triggers[o] # "none" \/ \E e \in M : Carrying(e, o)
  OBVIOUS
<1>6. \A o \in ApiOrders :
            \/ gone'[o] = gone[o] /\ (exchanged'[o] = exchanged[o] \/ inBook[o] > 0 \/ \E d \in M : Carrying(d, o))
            \/ /\ inBook'[o] = 0 /\ gone'[o] = exchanged'[o] /\ \A d \in Calls : ~Carrying(d, o)
               /\ \A d \in M : ~Carrying(d, o)'
  OBVIOUS
<1> QED BY <1>1, <1>2, <1>3, <1>4, <1>5, <1>6, PlacedKept

\* ... and change nothing but one call.
LEMMA CallAlone ==
  ASSUME ApiTypes, Placed, NEW c \in Calls, OthersSame(c), CallPlaced(c)',
         \A o \in ApiOrders : RowCalm(o),
         UNCHANGED <<inBook, unsaved, exchanged, triggers, gone>>, revived \subseteq revived',
         \A o \in ApiOrders : Carrying(c, o)' =>
            Carrying(c, o) \/ (orders[o].status = "none" /\ \A e \in Calls : ~Carrying(e, o))
  PROVE  Placed'
<1> DEFINE M == {c}
<1>1. /\ M \in SUBSET Calls
      /\ \A d, e \in M : d = e
      /\ \A d \in M : CallPlaced(d)'
      /\ \A d \in Calls \ M : handler'[d] = handler[d]
      /\ \A d \in M, o \in ApiOrders : Carrying(d, o)' =>
            Carrying(d, o) \/ (orders[o].status = "none" /\ \A e \in Calls : ~Carrying(e, o))
  <2>1. \A d \in M : d = c
    OBVIOUS
  <2>2. \A d \in Calls \ M : handler'[d] = handler[d]
    BY DEF OthersSame
  <2>3. \A d \in M : CallPlaced(d)'
    BY <2>1
  <2> QED BY <2>1, <2>2, <2>3
<1>2. \A o \in ApiOrders, p \in ApiPrices : unsaved'[o][p] = unsaved[o][p] \/ orders[o].status # "none"
  OBVIOUS
<1> HIDE DEF M
<1> QED BY <1>1, <1>2, BookAlone

LEMMA RowsCalm == ASSUME UNCHANGED orders PROVE \A o \in ApiOrders : RowCalm(o)
BY DEF RowCalm, RowKept

LEMMA IdlePlaced ==
  ASSUME NEW c \in Calls, handler'[c].pc = "idle"
  PROVE  CallPlaced(c)' /\ \A o : ~Carrying(c, o)'
BY DEF CallPlaced, AtRow, Sweeping, SweepPcs, Carrying

LEMMA PlaceOrderPlaced ==
  ASSUME ApiTypes, Placed, NEW c \in Calls, handler[c].pc = "idle", NEW o \in ApiOrders, NEW kind \in ApiKinds,
         NEW effect \in Effects,
         NEW n \in Lots, NEW p \in ApiPrices, PlaceOrder(c, o, kind, effect, n, p)
  PROVE  ApiTypes' /\ Placed'
<1>1. /\ ApiTypes' /\ OthersSame(c) /\ orders[o].status = "none" /\ ~AtWork(o)
      /\ handler'[c].pc \in {"insert", "freeze"} /\ handler'[c].order = o /\ handler'[c].n = n /\ n > 0
      /\ UNCHANGED <<orders, inBook, unsaved, exchanged, triggers, gone, revived>>
  BY PlaceOrderDoes
<1>2. CallPlaced(c)'
  BY <1>1 DEF CallPlaced, AtRow, Sweeping, SweepPcs
<1>3. ASSUME NEW x \in ApiOrders, Carrying(c, x)'
      PROVE  orders[x].status = "none" /\ \A e \in Calls : ~Carrying(e, x)
  <2>1. x = o
    BY <1>1, <1>3 DEF Carrying
  <2>2. ASSUME NEW e \in Calls, Carrying(e, o) PROVE FALSE
    <3>1. handler[e].pc \notin {"freeze", "insert"}
      BY <1>1, <2>2 DEF AtWork, Carrying
    <3>2. AtRow(e) /\ handler[e].order = o
      BY <2>2, <3>1 DEF Carrying, AtRow
    <3> QED BY <1>1, <3>2 DEF Placed, CallsPlaced, CallPlaced
  <2> QED BY <1>1, <2>1, <2>2
<1>4. \A x \in ApiOrders : RowCalm(x)
  BY <1>1, RowsCalm
<1> QED BY <1>1, <1>2, <1>3, <1>4, CallAlone

LEMMA FreezeMarginPlaced ==
  ASSUME ApiTypes, Placed, NEW c \in Calls, FreezeMargin(c)
  PROVE  ApiTypes' /\ Placed'
<1>1. /\ ApiTypes' /\ OthersSame(c) /\ handler[c].pc = "freeze" /\ handler'[c].pc = "insert"
      /\ handler'[c].order = handler[c].order /\ handler'[c].n = handler[c].n
      /\ UNCHANGED <<orders, inBook, unsaved, exchanged, triggers, gone, revived>>
  BY FreezeMarginDoes
<1>2. CallPlaced(c)'
  BY <1>1 DEF CallPlaced, AtRow, Sweeping, SweepPcs, Placed, CallsPlaced
<1>3. \A x \in ApiOrders : Carrying(c, x)' => Carrying(c, x)
  BY <1>1 DEF Carrying
<1>4. \A x \in ApiOrders : RowCalm(x)
  BY <1>1, RowsCalm
<1> QED BY <1>1, <1>2, <1>3, <1>4, CallAlone

LEMMA AbandonPlaced ==
  ASSUME ApiTypes, Placed, NEW c \in Calls, Abandon(c)
  PROVE  ApiTypes' /\ Placed'
<1>1. /\ ApiTypes' /\ OthersSame(c) /\ handler'[c].pc = "idle"
      /\ UNCHANGED <<orders, inBook, unsaved, exchanged, triggers, gone, revived>>
  BY AbandonDoes
<1> QED BY <1>1, RowsCalm, IdlePlaced, CallAlone

LEMMA CutCallPlaced ==
  ASSUME ApiTypes, Placed, NEW c \in Calls, CutCall(c)
  PROVE  ApiTypes' /\ Placed'
<1>1. /\ ApiTypes' /\ OthersSame(c) /\ handler'[c].pc = "idle" /\ revived \subseteq revived'
      /\ UNCHANGED <<orders, inBook, unsaved, exchanged, triggers, gone>>
  BY CutCallDoes
<1> QED BY <1>1, RowsCalm, IdlePlaced, CallAlone

LEMMA SkipStatementPlaced ==
  ASSUME ApiTypes, Placed, NEW c \in Calls, SkipStatement(c)
  PROVE  ApiTypes' /\ Placed'
<1>1. /\ ApiTypes' /\ OthersSame(c) /\ revived \subseteq revived'
      /\ \/ handler'[c].pc = "idle"
         \/ /\ handler[c].pc = "mark" /\ handler'[c].pc = "refund" /\ handler'[c].order = handler[c].order
         \/ /\ handler[c].pc = "record" /\ handler'[c].pc = "release" /\ handler'[c].order = handler[c].order
            /\ handler'[c].n = handler[c].n
      /\ UNCHANGED <<orders, inBook, unsaved, exchanged, triggers, gone>>
  BY SkipStatementDoes
<1>2. CallPlaced(c)' /\ \A o \in ApiOrders : ~Carrying(c, o)'
  <2>1. CASE handler'[c].pc = "idle"
    BY <2>1, IdlePlaced
  <2>2. CASE handler'[c].pc # "idle"
    <3>1. AtRow(c) /\ orders'[handler'[c].order].status # "none"
      BY <1>1, <2>2 DEF AtRow, Placed, CallsPlaced, CallPlaced
    <3>2. /\ handler'[c].pc \in {"refund", "release"}
          /\ handler'[c].pc = "release" => handler'[c].n > 0
      BY <1>1, <2>2 DEF Placed, CallsPlaced, CallPlaced
    <3> QED BY <3>1, <3>2 DEF CallPlaced, Sweeping, SweepPcs, Carrying
  <2> QED BY <2>1, <2>2
<1> QED BY <1>1, <1>2, RowsCalm, CallAlone

LEMMA CancelOnePlaced ==
  ASSUME ApiTypes, Placed, NEW c \in Calls, NEW o \in ApiOrders, NEW strict \in BOOLEAN, CancelOne(c, o, strict)
  PROVE  ApiTypes' /\ Placed'
<1>1. /\ ApiTypes' /\ OthersSame(c) /\ orders[o].status \in LiveStatuses
      /\ handler'[c].pc = "pull" /\ handler'[c].order = o /\ handler'[c].row = orders[o]
      /\ UNCHANGED <<orders, inBook, unsaved, exchanged, triggers, gone, revived>>
  BY CancelOneDoes
<1>2. CallPlaced(c)'
  BY <1>1 DEF CallPlaced, AtRow, Sweeping, SweepPcs, Placed, OrdersPlaced, OrderPlaced, LiveStatuses
<1>3. \A x \in ApiOrders : ~Carrying(c, x)'
  BY <1>1 DEF Carrying
<1> QED BY <1>1, <1>2, <1>3, RowsCalm, CallAlone

LEMMA CancelAllOrdersPlaced ==
  ASSUME ApiTypes, Placed, NEW c \in Calls, CancelAllOrders(c)
  PROVE  ApiTypes' /\ Placed'
<1>1. PICK S \in SUBSET ApiOrders :
         /\ ApiTypes' /\ OthersSame(c) /\ \A o \in S : orders[o].status \in LiveStatuses
         /\ handler'[c].pc = "pullall" /\ DOMAIN handler'[c].rows = S /\ handler'[c].todo = S
         /\ \A o \in S : handler'[c].rows[o] = orders[o]
         /\ UNCHANGED <<orders, inBook, unsaved, exchanged, triggers, gone, revived>>
  BY CancelAllOrdersDoes
<1>2. CallPlaced(c)'
  BY <1>1 DEF CallPlaced, AtRow, Sweeping, SweepPcs, Placed, OrdersPlaced, OrderPlaced, LiveStatuses
<1>3. \A x \in ApiOrders : ~Carrying(c, x)'
  BY <1>1 DEF Carrying
<1> QED BY <1>1, <1>2, <1>3, RowsCalm, CallAlone

LEMMA ModifyOrderPlaced ==
  ASSUME ApiTypes, Placed, NEW c \in Calls, NEW o \in ApiOrders, NEW n \in Lots, NEW p \in ApiPrices,
         ModifyOrder(c, o, n, p)
  PROVE  ApiTypes' /\ Placed'
<1>0. OrdersPlaced
  BY DEF Placed
<1>1. PICK left \in Nat, delta \in Int :
         /\ ApiTypes' /\ OthersSame(c) /\ orders[o].status \in {"open", "partially_filled"}
         /\ orders[o].kind = "limit" /\ left + orders[o].filled = n /\ n > 0
         /\ handler'[c].pc = "repull" /\ handler'[c].order = o /\ handler'[c].n = left
         /\ handler'[c].read = orders[o].filled
         /\ UNCHANGED <<orders, inBook, unsaved, exchanged, triggers, gone, revived>>
  BY <1>0, ModifyOrderDoes
<1>2. CallPlaced(c)'
  <2>1. orders[o].filled \in Nat
    BY DEF ApiTypes, ApiRows
  <2>2. handler'[c].read + handler'[c].n > 0
    BY <1>1, <2>1
  <2> QED BY <1>1, <2>2 DEF CallPlaced, AtRow, Sweeping, SweepPcs
<1>3. \A x \in ApiOrders : ~Carrying(c, x)'
  BY <1>1 DEF Carrying
<1> QED BY <1>1, <1>2, <1>3, RowsCalm, CallAlone

LEMMA RefundOnePlaced ==
  ASSUME ApiTypes, Placed, NEW c \in Calls, RefundOne(c)
  PROVE  ApiTypes' /\ Placed'
<1>1. /\ ApiTypes' /\ OthersSame(c) /\ handler'[c].pc = "idle"
      /\ UNCHANGED <<orders, inBook, unsaved, exchanged, triggers, gone, revived>>
  BY RefundOneDoes
<1> QED BY <1>1, RowsCalm, IdlePlaced, CallAlone

LEMMA RefundAllOrdersPlaced ==
  ASSUME ApiTypes, Placed, NEW c \in Calls, RefundAllOrders(c)
  PROVE  ApiTypes' /\ Placed'
<1>1. /\ ApiTypes' /\ OthersSame(c) /\ handler'[c].pc = "idle"
      /\ UNCHANGED <<orders, inBook, unsaved, exchanged, triggers, gone, revived>>
  BY RefundAllOrdersDoes
<1> QED BY <1>1, RowsCalm, IdlePlaced, CallAlone

\* A step of one call keeps the calls apart.
LEMMA PlacedByCall ==
  ASSUME ApiTypes, Placed, NEW c \in Calls, OthersSame(c), CallPlaced(c)',
         \A o \in ApiOrders : OrderPlaced(o)',
         \A o \in ApiOrders : RowStands(o, {c}),
         \A o \in ApiOrders : triggers'[o] = triggers[o] \/ triggers[o] # "none" \/ Carrying(c, o),
         \A o \in ApiOrders : Carrying(c, o)' =>
            /\ inBook'[o] = 0
            /\ \/ Carrying(c, o)
               \/ (inBook[o] > 0 \/ orders[o].status = "none") /\ \A e \in Calls : ~Carrying(e, o),
         \A o \in ApiOrders : inBook[o] = 0 => inBook'[o] = 0 \/ (Carrying(c, o) /\ ~Carrying(c, o)'),
         revived \subseteq revived',
         \A o \in ApiOrders :
            \/ gone'[o] = gone[o] /\ (exchanged'[o] = exchanged[o] \/ inBook[o] > 0 \/ Carrying(c, o))
            \/ /\ inBook'[o] = 0 /\ gone'[o] = exchanged'[o] /\ \A d \in Calls : ~Carrying(d, o)
               /\ ~Carrying(c, o)'
  PROVE  Placed'
<1> DEFINE M == {c}
<1>1. /\ M \in SUBSET Calls /\ c \in M /\ \A d \in M : d = c
      /\ \A o \in ApiOrders : RowStands(o, M)
  OBVIOUS
<1> HIDE DEF M
<1>2. \A d, e \in M : d = e
  BY <1>1
<1>3. \A d \in Calls \ M : handler'[d] = handler[d]
  BY <1>1 DEF OthersSame
<1>4. \A d \in M : CallPlaced(d)'
  <2>1. TAKE d \in M
  <2>2. d = c
    BY <1>1
  <2> QED BY <2>2
<1>5. \A o \in ApiOrders : triggers'[o] = triggers[o] \/ triggers[o] # "none" \/ \E e \in M : Carrying(e, o)
  BY <1>1
<1>6. ASSUME NEW d \in M, NEW o \in ApiOrders, Carrying(d, o)'
      PROVE  /\ inBook'[o] = 0
             /\ \/ Carrying(d, o)
                \/ (inBook[o] > 0 \/ orders[o].status = "none") /\ \A e \in Calls : ~Carrying(e, o)
  <2>1. d = c
    BY <1>1
  <2> QED BY <1>6, <2>1
<1>7. \A o \in ApiOrders : inBook[o] = 0 => inBook'[o] = 0 \/ \E d \in M : Carrying(d, o) /\ ~Carrying(d, o)'
  BY <1>1
<1>8. ASSUME NEW o \in ApiOrders
      PROVE  \/ gone'[o] = gone[o] /\ (exchanged'[o] = exchanged[o] \/ inBook[o] > 0 \/ \E d \in M : Carrying(d, o))
             \/ /\ inBook'[o] = 0 /\ gone'[o] = exchanged'[o] /\ \A d \in Calls : ~Carrying(d, o)
                /\ \A d \in M : ~Carrying(d, o)'
  <2>1. CASE gone'[o] = gone[o] /\ (exchanged'[o] = exchanged[o] \/ inBook[o] > 0 \/ Carrying(c, o))
    BY <1>1, <2>1
  <2>2. CASE /\ inBook'[o] = 0 /\ gone'[o] = exchanged'[o] /\ \A d \in Calls : ~Carrying(d, o)
             /\ ~Carrying(c, o)'
    <3>1. ASSUME NEW d \in M PROVE ~Carrying(d, o)'
      <4>1. d = c
        BY <1>1
      <4> QED BY <2>2, <4>1
    <3> QED BY <2>2, <3>1
  <2> QED BY <2>1, <2>2
<1> QED BY <1>1, <1>2, <1>3, <1>4, <1>5, <1>6, <1>7, <1>8, PlacedKept

LEMMA InsertRowPlaced ==
  ASSUME ApiTypes, Placed, NEW c \in Calls, InsertRow(c)
  PROVE  ApiTypes' /\ Placed'
<1>2. PICK o \in ApiOrders, p \in ApiPrices :
      /\ ApiTypes' /\ OthersSame(c) /\ handler[c] \in CreateCalls /\ handler[c].pc = "insert"
      /\ o = handler[c].order
      /\ handler'[c].pc = (IF handler[c].kind = "trigger" THEN "trigger" ELSE "submit")
      /\ handler'[c].order = o /\ handler'[c].n = handler[c].n /\ RowsSame(o)
      /\ orders'[o].status = "pending" /\ orders'[o].kind = handler[c].kind /\ orders'[o].price = p
      /\ orders'[o].amount = handler[c].n /\ orders'[o].linked = FALSE
      /\ UNCHANGED <<inBook, unsaved, exchanged, triggers, gone, revived>>
  BY InsertRowDoes
<1>1. o = handler[c].order
  BY <1>2
<1>3. orders[o].status = "none" /\ handler[c].n > 0
  BY <1>1, <1>2 DEF Placed, CallsPlaced, CallPlaced
<1>4. /\ inBook[o] = 0 /\ exchanged[o] = 0 /\ triggers[o] = "none"
      /\ \A x \in ApiOrders : OrderPlaced(x)
  BY <1>3 DEF Placed, OrdersPlaced, OrderPlaced
<1>5. OrderPlaced(o)'
  BY <1>2, <1>3, <1>4 DEF OrderPlaced
<1>6. ASSUME NEW x \in ApiOrders PROVE OrderPlaced(x)' /\ RowStands(x, {c})
  <2>1. CASE x = o
    <3>1. Carrying(c, o)
      BY <1>1, <1>2 DEF Carrying
    <3> QED BY <1>3, <1>5, <2>1, <3>1 DEF RowStands
  <2>2. CASE x # o
    <3>1. orders'[x] = orders[x]
      BY <1>2, <2>2 DEF RowsSame
    <3> QED BY <1>2, <1>4, <3>1 DEF OrderPlaced, RowStands
  <2> QED BY <2>1, <2>2
<1>7. CallPlaced(c)'
  BY <1>2, <1>3, <1>4 DEF CallPlaced, AtRow, Sweeping, SweepPcs
<1>8. \A x \in ApiOrders : Carrying(c, x)' => Carrying(c, x) /\ inBook'[x] = 0
  BY <1>1, <1>2, <1>4 DEF Carrying
<1>9. /\ \A x \in ApiOrders : triggers'[x] = triggers[x] /\ (inBook[x] = 0 => inBook'[x] = 0)
      /\ \A x \in ApiOrders : gone'[x] = gone[x] /\ exchanged'[x] = exchanged[x]
      /\ revived \subseteq revived'
  BY <1>2
<1>10. /\ \A x \in ApiOrders : OrderPlaced(x)'
       /\ \A x \in ApiOrders : RowStands(x, {c})
  BY <1>6
<1>11. OthersSame(c) /\ ApiTypes'
  BY <1>2
<1>12. \A x \in ApiOrders : Carrying(c, x)' =>
            /\ inBook'[x] = 0
            /\ \/ Carrying(c, x)
               \/ (inBook[x] > 0 \/ orders[x].status = "none") /\ \A e \in Calls : ~Carrying(e, x)
  BY <1>8
<1>13. /\ \A x \in ApiOrders : triggers'[x] = triggers[x] \/ triggers[x] # "none" \/ Carrying(c, x)
       /\ \A x \in ApiOrders : inBook[x] = 0 => inBook'[x] = 0 \/ (Carrying(c, x) /\ ~Carrying(c, x)')
       /\ revived \subseteq revived'
  BY <1>9
<1>14. \A x \in ApiOrders :
            \/ gone'[x] = gone[x] /\ (exchanged'[x] = exchanged[x] \/ inBook[x] > 0 \/ Carrying(c, x))
            \/ /\ inBook'[x] = 0 /\ gone'[x] = exchanged'[x] /\ \A d \in Calls : ~Carrying(d, x)
               /\ ~Carrying(c, x)'
  BY <1>9
<1> QED BY <1>7, <1>10, <1>11, <1>12, <1>13, <1>14, PlacedByCall

LEMMA CreateTriggerPlaced ==
  ASSUME ApiTypes, Placed, NEW c \in Calls, CreateTrigger(c)
  PROVE  ApiTypes' /\ Placed'
<1>1. PICK o \in ApiOrders : o = handler[c].order
  BY CreateTriggerDoes DEF CreateCalls
<1>2. /\ ApiTypes' /\ OthersSame(c) /\ handler[c].pc = "trigger" /\ handler'[c].pc = "link"
      /\ handler'[c].order = o
      /\ \A x \in ApiOrders \ {o} : triggers'[x] = triggers[x]
      /\ UNCHANGED <<orders, inBook, unsaved, exchanged, gone, revived>>
  BY <1>1, CreateTriggerDoes
<1>3. /\ orders[o].status # "none" /\ orders[o].kind = "trigger" /\ \A x \in ApiOrders : OrderPlaced(x)
      /\ Carrying(c, o)
  BY <1>1, <1>2 DEF Placed, CallsPlaced, CallPlaced, AtRow, OrdersPlaced, Carrying
<1>4. ASSUME NEW x \in ApiOrders PROVE OrderPlaced(x)'
  BY <1>2, <1>3 DEF OrderPlaced
<1>5. \A x \in ApiOrders : RowStands(x, {c})
  BY <1>2 DEF RowStands
<1>6. CallPlaced(c)'
  BY <1>2, <1>3 DEF CallPlaced, AtRow, Sweeping, SweepPcs
<1>7. \A x \in ApiOrders : ~Carrying(c, x)'
  BY <1>2 DEF Carrying
<1> QED BY <1>2, <1>3, <1>4, <1>5, <1>6, <1>7, PlacedByCall

LEMMA LinkTriggerPlaced ==
  ASSUME ApiTypes, Placed, NEW c \in Calls, LinkTrigger(c)
  PROVE  ApiTypes' /\ Placed'
<1>1. PICK o \in ApiOrders :
         /\ ApiTypes' /\ OthersSame(c) /\ handler[c].pc = "link" /\ o = handler[c].order
         /\ handler'[c].pc = "idle" /\ RowsSame(o) /\ RowKept(o)
         /\ orders'[o].status = orders[o].status
         /\ UNCHANGED <<inBook, unsaved, exchanged, triggers, gone, revived>>
  BY LinkTriggerDoes
<1>2. orders[o].kind = "trigger"
  BY <1>1 DEF Placed, CallsPlaced, CallPlaced
<1>3. \A x \in ApiOrders : RowCalm(x)
  BY <1>1, <1>2 DEF RowCalm, RowKept, RowsSame
<1> QED BY <1>1, <1>3, IdlePlaced, CallAlone

LEMMA RecordAnswerPlaced ==
  ASSUME ApiTypes, Placed, NEW c \in Calls, RecordAnswer(c)
  PROVE  ApiTypes' /\ Placed'
<1>1. PICK o \in ApiOrders :
         /\ ApiTypes' /\ OthersSame(c) /\ handler[c].pc = "record" /\ o = handler[c].order
         /\ RowsSame(o) /\ RowKept(o) /\ orders'[o].linked = orders[o].linked
         /\ orders'[o].status # "none" /\ revived \subseteq revived'
         /\ Answered(c, "release") \/ handler'[c].pc = "idle"
         /\ UNCHANGED <<inBook, unsaved, exchanged, triggers, gone>>
  BY RecordAnswerDoes
<1>2. orders[o].status # "none" /\ handler[c].n > 0
  BY <1>1 DEF Placed, CallsPlaced, CallPlaced, AtRow
<1>3. \A x \in ApiOrders : RowCalm(x)
  BY <1>1, <1>2 DEF RowCalm, RowKept, RowsSame
<1>4. CallPlaced(c)' /\ \A x \in ApiOrders : ~Carrying(c, x)'
  <2>1. CASE handler'[c].pc = "idle"
    BY <2>1, IdlePlaced
  <2>2. CASE Answered(c, "release")
    <3>1. handler'[c].pc = "release" /\ handler'[c].order = o /\ handler'[c].n = handler[c].n
      BY <1>1, <2>2 DEF Answered
    <3> QED BY <1>1, <1>2, <3>1 DEF CallPlaced, AtRow, Sweeping, SweepPcs, Carrying
  <2> QED BY <1>1, <2>1, <2>2
<1> QED BY <1>1, <1>3, <1>4, CallAlone

LEMMA ReleaseUnusedPlaced ==
  ASSUME ApiTypes, Placed, NEW c \in Calls, ReleaseUnused(c)
  PROVE  ApiTypes' /\ Placed'
<1>1. handler[c].pc = "release"
  BY DEF ReleaseUnused
<1>2. CallPlaced(c)
  BY DEF Placed, CallsPlaced
<1>3. handler[c].n # 0 /\ orders[handler[c].order].status # "none"
  BY <1>1, <1>2 DEF CallPlaced, AtRow
<1>4. /\ ApiTypes' /\ OthersSame(c) /\ handler'[c].pc = "shrink" /\ handler'[c].order = handler[c].order
      /\ UNCHANGED <<orders, inBook, unsaved, exchanged, triggers, gone, revived>>
  BY <1>3, ReleaseUnusedDoes
<1>5. CallPlaced(c)' /\ \A x \in ApiOrders : ~Carrying(c, x)'
  BY <1>3, <1>4 DEF CallPlaced, AtRow, Sweeping, SweepPcs, Carrying
<1> QED BY <1>4, <1>5, RowsCalm, CallAlone

LEMMA ShrinkMarginPlaced ==
  ASSUME ApiTypes, Placed, NEW c \in Calls, ShrinkMargin(c)
  PROVE  ApiTypes' /\ Placed'
<1>1. PICK o \in ApiOrders :
         /\ ApiTypes' /\ OthersSame(c) /\ RowsSame(o) /\ RowKept(o) /\ orders'[o].linked = orders[o].linked
         /\ orders'[o].status = orders[o].status /\ handler'[c].pc = "idle"
         /\ UNCHANGED <<inBook, unsaved, exchanged, triggers, gone, revived>>
  BY ShrinkMarginDoes
<1>2. \A x \in ApiOrders : RowCalm(x)
  BY <1>1 DEF RowCalm, RowKept, RowsSame
<1> QED BY <1>1, <1>2, IdlePlaced, CallAlone

LEMMA MarkCancelledPlaced ==
  ASSUME ApiTypes, Placed, NEW c \in Calls, MarkCancelled(c)
  PROVE  ApiTypes' /\ Placed'
<1>1. PICK o \in ApiOrders :
         /\ ApiTypes' /\ OthersSame(c) /\ handler[c].pc = "mark" /\ o = handler[c].order
         /\ handler'[c].pc = "refund" /\ handler'[c].order = o
         /\ RowsSame(o) /\ RowKept(o) /\ orders'[o].status = "cancelled" /\ orders'[o].linked = orders[o].linked
         /\ UNCHANGED <<inBook, unsaved, exchanged, triggers, gone, revived>>
  <2>1. UNCHANGED <<inBook, unsaved, exchanged, triggers, gone, revived>>
    BY DEF MarkCancelled, engine, limits, apiHistory
  <2> QED BY <2>1, MarkCancelledDoes
<1>2. orders[o].status # "none"
  BY <1>1 DEF Placed, CallsPlaced, CallPlaced, AtRow
<1>3. \A x \in ApiOrders : RowCalm(x)
  BY <1>1, <1>2 DEF RowCalm, RowKept, RowsSame
<1>4. CallPlaced(c)' /\ \A x \in ApiOrders : ~Carrying(c, x)'
  BY <1>1 DEF CallPlaced, AtRow, Sweeping, SweepPcs, Carrying
<1> QED BY <1>1, <1>3, <1>4, CallAlone

LEMMA MarkAllPlaced ==
  ASSUME ApiTypes, Placed, NEW c \in Calls, MarkAll(c)
  PROVE  ApiTypes' /\ Placed'
<1>1. /\ ApiTypes' /\ OthersSame(c) /\ handler[c].pc = "pullall"
      /\ handler'[c].pc = "refundall" /\ handler'[c].rows = handler[c].rows /\ handler'[c].todo = {}
      /\ \A o \in ApiOrders : /\ RowKept(o) /\ orders'[o].linked = orders[o].linked
                              /\ orders'[o].status = "none" <=> orders[o].status = "none"
      /\ UNCHANGED <<inBook, unsaved, exchanged, triggers, gone, revived>>
  BY MarkAllDoes
<1>2. \A x \in ApiOrders : RowCalm(x)
  BY <1>1 DEF RowCalm
<1>3. handler[c] \in SweepCalls /\ CallPlaced(c) /\ Sweeping(c)
  BY <1>1, CallShape DEF ApiTypes, Placed, CallsPlaced, Sweeping, SweepPcs
<1>4. DOMAIN handler[c].rows \in SUBSET ApiOrders
  BY <1>3, SweepShape
<1>5. ASSUME NEW o \in DOMAIN handler[c].rows
      PROVE  orders'[o].status # "none" /\ (handler[c].rows[o].linked => orders'[o].kind = "trigger")
  <2>1. o \in ApiOrders
    BY <1>4
  <2>2. orders[o].status # "none" /\ (handler[c].rows[o].linked => orders[o].kind = "trigger")
    BY <1>3 DEF CallPlaced
  <2> QED BY <1>1, <2>1, <2>2 DEF RowKept
<1>6. CallPlaced(c)' /\ \A x \in ApiOrders : ~Carrying(c, x)'
  BY <1>1, <1>5 DEF CallPlaced, AtRow, Sweeping, SweepPcs, Carrying
<1> QED BY <1>1, <1>2, <1>6, CallAlone

\* An order that has its trigger, or rests, is in no call's hands.
LEMMA InHand ==
  ASSUME ApiTypes, Placed, NEW o \in ApiOrders,
         inBook[o] > 0 \/ (triggers[o] # "none" /\ orders[o].kind = "trigger" /\ orders[o].status # "none")
  PROVE  \A d \in Calls : ~Carrying(d, o)
<1> SUFFICES ASSUME NEW d \in Calls, Carrying(d, o) PROVE FALSE
  OBVIOUS
<1>1. inBook[o] = 0
  BY DEF Placed, OneCarrier
<1>2. triggers[o] # "none" /\ orders[o].kind = "trigger" /\ orders[o].status # "none"
  BY <1>1
<1>3. CallPlaced(d)
  BY DEF Placed, CallsPlaced
<1> QED BY <1>2, <1>3 DEF CallPlaced, Carrying

LEMMA TakeOutPlaced ==
  ASSUME ApiTypes, Placed, NEW c \in Calls, OthersSame(c), CallPlaced(c)', NEW o \in ApiOrders,
         NEW linked \in BOOLEAN,
         TakeOut(o, linked), linked => orders[o].kind = "trigger", orders[o].status # "none",
         \A x \in ApiOrders : Carrying(c, x)' =>
            x = o /\ inBook[o] > 0 /\ ~linked,
         \/ gone' = gone
         \/ /\ gone'[o] = exchanged[o] /\ WasFound(o, linked) /\ \A x \in ApiOrders : ~Carrying(c, x)'
            /\ \A x \in ApiOrders \ {o} : gone'[x] = gone[x],
         UNCHANGED <<orders, revived>>
  PROVE  Placed'
<1>1. /\ inBook'[o] = (IF linked THEN inBook[o] ELSE 0)
      /\ triggers'[o] = (IF linked /\ triggers[o] = "active" THEN "cancelled" ELSE triggers[o])
      /\ \A x \in ApiOrders \ {o} : inBook'[x] = inBook[x] /\ triggers'[x] = triggers[x]
      /\ UNCHANGED <<unsaved, exchanged>>
  BY TakeOutDoes
<1>2. /\ \A x \in ApiOrders : OrderPlaced(x) /\ inBook[o] \in Nat
      /\ linked => inBook[o] = 0
  BY DEF Placed, OrdersPlaced, ApiTypes, OrderPlaced
<1>3. ASSUME NEW x \in ApiOrders PROVE OrderPlaced(x)'
  <2>1. CASE x = o
    BY <1>1, <1>2, <2>1 DEF OrderPlaced
  <2>2. CASE x # o
    <3>1. inBook'[x] = inBook[x] /\ triggers'[x] = triggers[x] /\ gone'[x] = gone[x]
      BY <1>1, <2>2
    <3> QED BY <1>1, <1>2, <3>1 DEF OrderPlaced
  <2> QED BY <2>1, <2>2
<1>4. \A x \in ApiOrders : RowStands(x, {c})
  BY DEF RowStands
<1>5. \A x \in ApiOrders : triggers'[x] = triggers[x] \/ triggers[x] # "none" \/ Carrying(c, x)
  BY <1>1
<1>6. ASSUME NEW x \in ApiOrders, Carrying(c, x)'
      PROVE  /\ inBook'[x] = 0
             /\ (inBook[x] > 0 \/ orders[x].status = "none") /\ \A e \in Calls : ~Carrying(e, x)
  <2>1. x = o /\ inBook[o] > 0 /\ ~linked
    BY <1>6
  <2> QED BY <1>1, <2>1, InHand
<1>7. \A x \in ApiOrders : inBook[x] = 0 => inBook'[x] = 0
  BY <1>1, <1>2
<1>8. ASSUME NEW x \in ApiOrders
      PROVE  \/ gone'[x] = gone[x] /\ exchanged'[x] = exchanged[x]
             \/ /\ inBook'[x] = 0 /\ gone'[x] = exchanged'[x] /\ \A d \in Calls : ~Carrying(d, x)
                /\ ~Carrying(c, x)'
  <2>1. CASE gone' = gone \/ x # o
    BY <1>1, <2>1
  <2>2. CASE gone' # gone /\ x = o
    <3>1. gone'[o] = exchanged[o] /\ WasFound(o, linked) /\ ~Carrying(c, o)'
      BY <2>2
    <3>2. inBook[o] > 0 \/ (triggers[o] # "none" /\ orders[o].kind = "trigger" /\ orders[o].status # "none")
      BY <3>1 DEF WasFound
    <3>3. \A d \in Calls : ~Carrying(d, o)
      BY <3>2, InHand
    <3>4. inBook'[o] = 0
      BY <1>1, <1>2
    <3> QED BY <1>1, <2>2, <3>1, <3>3, <3>4
  <2> QED BY <2>1, <2>2
<1> QED BY <1>1, <1>3, <1>4, <1>5, <1>6, <1>7, <1>8, PlacedByCall

LEMMA PullOnePlaced ==
  ASSUME ApiTypes, Placed, NEW c \in Calls, PullOne(c)
  PROVE  ApiTypes' /\ Placed'
<1>1. PICK o \in ApiOrders, r \in ApiRows, found \in BOOLEAN :
         /\ ApiTypes' /\ OthersSame(c) /\ handler[c].pc = "pull" /\ o = handler[c].order /\ r = handler[c].row
         /\ found = WasFound(o, r.linked) /\ TakeOut(o, r.linked)
         /\ gone'[o] = (IF found THEN exchanged[o] ELSE gone[o])
         /\ \A x \in ApiOrders \ {o} : gone'[x] = gone[x]
         /\ handler'[c].pc = "idle" \/ (handler'[c].pc = "mark" /\ handler'[c].order = o)
         /\ UNCHANGED <<orders, revived>>
  BY PullOneDoes
<1>2. orders[o].status # "none" /\ (r.linked => orders[o].kind = "trigger") /\ r.linked \in BOOLEAN
  BY <1>1 DEF Placed, CallsPlaced, CallPlaced, AtRow, ApiRows
<1>3. CallPlaced(c)' /\ \A x \in ApiOrders : ~Carrying(c, x)'
  BY <1>1, <1>2 DEF CallPlaced, AtRow, Sweeping, SweepPcs, Carrying
<1>4. gone' = gone \/ (gone'[o] = exchanged[o] /\ WasFound(o, r.linked))
  <2>1. CASE found
    BY <1>1, <2>1
  <2>2. CASE ~found
    <3>1. \A x \in ApiOrders : gone'[x] = gone[x]
      BY <1>1, <2>2
    <3>2. gone \in [ApiOrders -> Int] /\ gone' \in [ApiOrders -> Int]
      BY <1>1 DEF ApiTypes
    <3> QED BY <3>1, <3>2
  <2> QED BY <2>1, <2>2
<1> QED BY <1>1, <1>2, <1>3, <1>4, TakeOutPlaced

LEMMA PullNextPlaced ==
  ASSUME ApiTypes, Placed, NEW c \in Calls, PullNext(c)
  PROVE  ApiTypes' /\ Placed'
<1>1. handler[c].pc = "pullall" /\ Sweeping(c) /\ CallPlaced(c)
  BY DEF PullNext, Sweeping, SweepPcs, Placed, CallsPlaced
<1>2. handler[c].todo \subseteq DOMAIN handler[c].rows
  BY <1>1 DEF CallPlaced
<1>3. PICK o \in ApiOrders, r \in ApiRows, found \in BOOLEAN :
         /\ ApiTypes' /\ OthersSame(c) /\ r = handler[c].rows[o] /\ o \in DOMAIN handler[c].rows
         /\ found = WasFound(o, r.linked) /\ TakeOut(o, r.linked)
         /\ gone'[o] = (IF found THEN exchanged[o] ELSE gone[o])
         /\ \A x \in ApiOrders \ {o} : gone'[x] = gone[x]
         /\ handler'[c].pc = "pullall" /\ handler'[c].rows = handler[c].rows
         /\ handler'[c].todo = handler[c].todo \ {o}
         /\ UNCHANGED <<orders, revived>>
  BY <1>2, PullNextDoes
<1>4. orders[o].status # "none" /\ (r.linked => orders[o].kind = "trigger") /\ r.linked \in BOOLEAN
  BY <1>1, <1>3 DEF CallPlaced, ApiRows
<1>5. CallPlaced(c)' /\ \A x \in ApiOrders : ~Carrying(c, x)'
  BY <1>1, <1>2, <1>3, <1>4 DEF CallPlaced, AtRow, Sweeping, SweepPcs, Carrying
<1>6. gone' = gone \/ (gone'[o] = exchanged[o] /\ WasFound(o, r.linked))
  <2>1. CASE found
    BY <1>3, <2>1
  <2>2. CASE ~found
    <3>1. \A x \in ApiOrders : gone'[x] = gone[x]
      BY <1>3, <2>2
    <3>2. gone \in [ApiOrders -> Int] /\ gone' \in [ApiOrders -> Int]
      BY <1>3 DEF ApiTypes
    <3> QED BY <3>1, <3>2
  <2> QED BY <2>1, <2>2
<1> QED BY <1>3, <1>4, <1>5, <1>6, TakeOutPlaced

LEMMA RepullPlaced ==
  ASSUME ApiTypes, Placed, NEW c \in Calls, Repull(c)
  PROVE  ApiTypes' /\ Placed'
<1>1. PICK o \in ApiOrders :
         /\ ApiTypes' /\ OthersSame(c) /\ handler[c].pc = "repull" /\ o = handler[c].order /\ TakeOut(o, FALSE)
         /\ IF inBook[o] > 0
            THEN /\ handler'[c].pc = "reshape" /\ handler'[c].order = o
                 /\ handler'[c].n = handler[c].n /\ handler'[c].read = handler[c].read
            ELSE handler'[c].pc = "idle"
         /\ UNCHANGED <<orders, gone, revived>>
  BY RepullDoes
<1>2. /\ orders[o].status # "none" /\ orders[o].kind # "trigger" /\ handler[c].read + handler[c].n > 0
  BY <1>1 DEF Placed, CallsPlaced, CallPlaced, AtRow
<1>3. CallPlaced(c)'
  BY <1>1, <1>2 DEF CallPlaced, AtRow, Sweeping, SweepPcs
<1>4. \A x \in ApiOrders : Carrying(c, x)' => x = o /\ inBook[o] > 0
  BY <1>1 DEF Carrying
<1> QED BY <1>1, <1>2, <1>3, <1>4, TakeOutPlaced

LEMMA ReshapePlaced ==
  ASSUME ApiTypes, Placed, NEW c \in Calls, Reshape(c)
  PROVE  ApiTypes' /\ Placed'
<1>1. PICK o \in ApiOrders, amount \in Nat :
         /\ ApiTypes' /\ OthersSame(c) /\ handler[c] \in ModifyCalls /\ handler[c].pc = "reshape"
         /\ o = handler[c].order /\ amount = handler[c].read + handler[c].n
         /\ handler'[c].pc = "resubmit" /\ handler'[c].order = o
         /\ RowsSame(o) /\ orders'[o].amount = amount /\ orders'[o].price = handler[c].p
         /\ orders'[o].status = orders[o].status
         /\ orders'[o].kind = orders[o].kind /\ orders'[o].effect = orders[o].effect
         /\ orders'[o].linked = orders[o].linked
         /\ UNCHANGED <<inBook, unsaved, exchanged, triggers, gone, revived>>
  BY ReshapeDoes
<1>2. /\ orders[o].status # "none" /\ orders[o].kind # "trigger" /\ amount > 0 /\ Carrying(c, o)
      /\ handler[c].p \in ApiPrices /\ inBook[o] = 0
  BY <1>1 DEF Placed, CallsPlaced, CallPlaced, AtRow, ModifyCalls, Carrying, OneCarrier
<1>3. \A x \in ApiOrders : OrderPlaced(x)
  BY DEF Placed, OrdersPlaced
<1>4. ASSUME NEW x \in ApiOrders PROVE OrderPlaced(x)' /\ RowStands(x, {c})
  <2>1. CASE x = o
    BY <1>1, <1>2, <1>3, <2>1 DEF OrderPlaced, RowStands
  <2>2. CASE x # o
    <3>1. orders'[x] = orders[x]
      BY <1>1, <2>2 DEF RowsSame
    <3> QED BY <1>1, <1>3, <3>1 DEF OrderPlaced, RowStands
  <2> QED BY <2>1, <2>2
<1>5. CallPlaced(c)'
  BY <1>1, <1>2 DEF CallPlaced, AtRow, Sweeping, SweepPcs
<1>6. \A x \in ApiOrders : Carrying(c, x)' => Carrying(c, x) /\ inBook'[x] = 0
  BY <1>1, <1>2 DEF Carrying
<1>7. /\ \A x \in ApiOrders : triggers'[x] = triggers[x] /\ (inBook[x] = 0 => inBook'[x] = 0)
      /\ \A x \in ApiOrders : gone'[x] = gone[x] /\ exchanged'[x] = exchanged[x]
      /\ revived \subseteq revived'
  BY <1>1
<1>10. /\ \A x \in ApiOrders : OrderPlaced(x)'
       /\ \A x \in ApiOrders : RowStands(x, {c})
  BY <1>4
<1>11. OthersSame(c) /\ ApiTypes'
  BY <1>1
<1>12. \A x \in ApiOrders : Carrying(c, x)' =>
            /\ inBook'[x] = 0
            /\ \/ Carrying(c, x)
               \/ (inBook[x] > 0 \/ orders[x].status = "none") /\ \A e \in Calls : ~Carrying(e, x)
  BY <1>6
<1>13. /\ \A x \in ApiOrders : triggers'[x] = triggers[x] \/ triggers[x] # "none" \/ Carrying(c, x)
       /\ \A x \in ApiOrders : inBook[x] = 0 => inBook'[x] = 0 \/ (Carrying(c, x) /\ ~Carrying(c, x)')
       /\ revived \subseteq revived'
  BY <1>7
<1>14. \A x \in ApiOrders :
            \/ gone'[x] = gone[x] /\ (exchanged'[x] = exchanged[x] \/ inBook[x] > 0 \/ Carrying(c, x))
            \/ /\ inBook'[x] = 0 /\ gone'[x] = exchanged'[x] /\ \A d \in Calls : ~Carrying(d, x)
               /\ ~Carrying(c, x)'
  BY <1>7
<1> QED BY <1>5, <1>10, <1>11, <1>12, <1>13, <1>14, PlacedByCall

\* The engine takes an order from the call that carries it.
LEMMA MatchPlaced ==
  ASSUME ApiTypes, Placed, NEW c \in Calls, OthersSame(c), CallPlaced(c)',
         NEW o \in ApiOrders, NEW kind \in AllKinds, NEW effect \in Effects, NEW n \in Nat, NEW k \in 0 .. n,
         NEW p \in ApiPrices,
         Match(o, kind, effect, n, k, p), Carrying(c, o), \A x \in ApiOrders : ~Carrying(c, x)',
         orders[o].status # "none", orders[o].kind # "trigger",
         UNCHANGED <<orders, triggers, gone, revived>>
  PROVE  Placed'
<1>1. /\ \A x \in ApiOrders \ {o} : inBook'[x] = inBook[x] /\ exchanged'[x] = exchanged[x]
      /\ UNCHANGED unsaved
  BY MatchDoes
<1>2. \A x \in ApiOrders : OrderPlaced(x)
  BY DEF Placed, OrdersPlaced
<1>3. ASSUME NEW x \in ApiOrders PROVE OrderPlaced(x)'
  <2>1. CASE x = o
    BY <1>1, <1>2, <2>1 DEF OrderPlaced
  <2>2. CASE x # o
    BY <1>1, <1>2, <2>2 DEF OrderPlaced
  <2> QED BY <2>1, <2>2
<1>4. \A x \in ApiOrders : RowStands(x, {c})
  BY DEF RowStands
<1>5. \A x \in ApiOrders : inBook[x] = 0 => inBook'[x] = 0 \/ (Carrying(c, x) /\ ~Carrying(c, x)')
  BY <1>1
<1>6. \A x \in ApiOrders : gone'[x] = gone[x] /\ (exchanged'[x] = exchanged[x] \/ Carrying(c, x))
  BY <1>1
<1> QED BY <1>3, <1>4, <1>5, <1>6, PlacedByCall

LEMMA SubmitOrderPlaced ==
  ASSUME ApiTypes, Placed, NEW c \in Calls, SubmitOrder(c)
  PROVE  ApiTypes' /\ Placed'
<1>1. PICK o \in ApiOrders, n \in Nat, p \in ApiPrices, kind \in AllKinds, effect \in Effects : \E k \in 0 .. n :
         /\ ApiTypes' /\ OthersSame(c) /\ handler[c].pc = "submit"
         /\ o = handler[c].order /\ n = handler[c].n
         /\ handler'[c].pc = "record" /\ handler'[c].order = o /\ handler'[c].n = n
         /\ Match(o, kind, effect, n, k, p)
         /\ UNCHANGED <<orders, triggers, gone, revived>>
  BY SubmitOrderDoes
<1>2. /\ orders[o].status # "none" /\ orders[o].kind # "trigger" /\ n > 0 /\ Carrying(c, o)
  BY <1>1 DEF Placed, CallsPlaced, CallPlaced, AtRow, Carrying
<1>3. CallPlaced(c)' /\ \A x \in ApiOrders : ~Carrying(c, x)'
  BY <1>1, <1>2 DEF CallPlaced, AtRow, Sweeping, SweepPcs, Carrying
<1> QED BY <1>1, <1>2, <1>3, MatchPlaced

LEMMA ResubmitOrderPlaced ==
  ASSUME ApiTypes, Placed, NEW c \in Calls, ResubmitOrder(c)
  PROVE  ApiTypes' /\ Placed'
<1>1. PICK o \in ApiOrders, n \in Nat, p \in ApiPrices :
         /\ ApiTypes' /\ OthersSame(c) /\ handler[c].pc = "resubmit" /\ o = handler[c].order
         /\ UNCHANGED <<orders, triggers, gone, revived>>
         /\ \/ handler'[c].pc = "idle" /\ UNCHANGED <<inBook, unsaved, exchanged>>
            \/ \E k \in 0 .. n : /\ n # 0 /\ handler'[c].pc = "record" /\ handler'[c].order = o /\ handler'[c].n = n
                                 /\ Match(o, "limit", "open", n, k, p)
  BY ResubmitOrderDoes
<1>2. /\ orders[o].status # "none" /\ orders[o].kind # "trigger" /\ Carrying(c, o)
  BY <1>1 DEF Placed, CallsPlaced, CallPlaced, AtRow, Carrying
<1>3. CASE handler'[c].pc = "idle" /\ UNCHANGED <<inBook, unsaved, exchanged>>
  BY <1>1, <1>3, RowsCalm, IdlePlaced, CallAlone
<1>4. CASE \E k \in 0 .. n : /\ n # 0 /\ handler'[c].pc = "record" /\ handler'[c].order = o /\ handler'[c].n = n
                             /\ Match(o, "limit", "open", n, k, p)
  <2>1. CallPlaced(c)' /\ \A x \in ApiOrders : ~Carrying(c, x)'
    BY <1>1, <1>2, <1>4 DEF CallPlaced, AtRow, Sweeping, SweepPcs, Carrying
  <2>2. "limit" \in AllKinds /\ "open" \in Effects
    BY DEF AllKinds, Effects
  <2> QED BY <1>1, <1>2, <1>4, <2>1, <2>2, MatchPlaced
<1> QED BY <1>1, <1>3, <1>4

\* Steps of the engine and of the pipeline.
LEMMA PlacedAside ==
  ASSUME ApiTypes, Placed, UNCHANGED handler,
         \A o \in ApiOrders : OrderPlaced(o)',
         \A o \in ApiOrders : RowStands(o, {}),
         \A o \in ApiOrders : triggers'[o] = triggers[o] \/ triggers[o] # "none",
         \A o \in ApiOrders : inBook[o] = 0 => inBook'[o] = 0,
         UNCHANGED <<gone, revived>>,
         \A o \in ApiOrders : exchanged'[o] = exchanged[o] \/ inBook[o] > 0
  PROVE  Placed'
<1> DEFINE M == {}
<1>1. M \in SUBSET Calls /\ (\A d \in M : FALSE) /\ \A o \in ApiOrders : RowStands(o, M)
  OBVIOUS
<1> HIDE DEF M
<1>2. \A d, e \in M : d = e
  BY <1>1
<1>3. \A d \in M : CallPlaced(d)'
  BY <1>1
<1>4. \A d \in M, o \in ApiOrders : Carrying(d, o)' =>
            /\ inBook'[o] = 0
            /\ \/ Carrying(d, o)
               \/ (inBook[o] > 0 \/ orders[o].status = "none") /\ \A e \in Calls : ~Carrying(e, o)
  BY <1>1
<1> QED BY <1>1, <1>2, <1>3, <1>4, PlacedKept

LEMMA HitPlaced ==
  ASSUME ApiTypes, Placed, NEW o \in ApiOrders, Hit(o)
  PROVE  ApiTypes' /\ Placed'
<1>1. \A x \in ApiOrders : OrderPlaced(x)
  BY DEF Placed, OrdersPlaced
<1>2. inBook[o] > 0 /\ orders[o].status # "none" /\ orders[o].kind # "trigger" /\ orders[o].price \in ApiPrices
  BY <1>1 DEF Hit, OrderPlaced
<1>3. /\ ApiTypes' /\ inBook[o] > 0
      /\ \A x \in ApiOrders \ {o} : inBook'[x] = inBook[x] /\ exchanged'[x] = exchanged[x] /\ unsaved'[x] = unsaved[x]
      /\ UNCHANGED <<orders, handler, triggers, gone, revived>>
  BY <1>2, HitDoes
<1>4. ASSUME NEW x \in ApiOrders PROVE OrderPlaced(x)'
  <2>1. CASE x = o
    BY <1>1, <1>2, <1>3, <2>1 DEF OrderPlaced
  <2>2. CASE x # o
    BY <1>1, <1>3, <2>2 DEF OrderPlaced
  <2> QED BY <2>1, <2>2
<1>5. \A x \in ApiOrders : RowStands(x, {})
  BY <1>3 DEF RowStands
<1>6. \A x \in ApiOrders : (inBook[x] = 0 => inBook'[x] = 0) /\ (exchanged'[x] = exchanged[x] \/ inBook[x] > 0)
  BY <1>3
<1> QED BY <1>3, <1>4, <1>5, <1>6, PlacedAside

LEMMA FirePlaced ==
  ASSUME ApiTypes, Placed, NEW o \in ApiOrders, Fire(o)
  PROVE  ApiTypes' /\ Placed'
<1>1. /\ ApiTypes' /\ triggers[o] = "active" /\ \A x \in ApiOrders \ {o} : triggers'[x] = triggers[x]
      /\ UNCHANGED <<orders, inBook, unsaved, exchanged, handler, gone, revived>>
  BY FireDoes
<1>2. \A x \in ApiOrders : OrderPlaced(x)
  BY DEF Placed, OrdersPlaced
<1>3. ASSUME NEW x \in ApiOrders PROVE OrderPlaced(x)'
  <2>1. CASE x = o
    BY <1>1, <1>2, <2>1 DEF OrderPlaced
  <2>2. CASE x # o
    BY <1>1, <1>2, <2>2 DEF OrderPlaced
  <2> QED BY <2>1, <2>2
<1>4. \A x \in ApiOrders : RowStands(x, {})
  BY <1>1 DEF RowStands
<1>5. \A x \in ApiOrders : triggers'[x] = triggers[x] \/ triggers[x] # "none"
  BY <1>1
<1> QED BY <1>1, <1>3, <1>4, <1>5, PlacedAside

LEMMA SaveFillPlaced ==
  ASSUME ApiTypes, Placed, NEW o \in ApiOrders, NEW p \in ApiPrices, SaveFill(o, p)
  PROVE  ApiTypes' /\ Placed'
<1>1. /\ ApiTypes' /\ unsaved[o][p] > 0
      /\ \A x \in ApiOrders \ {o} : unsaved'[x] = unsaved[x]
      /\ RowsSame(o) /\ RowKept(o) /\ orders'[o].linked = orders[o].linked /\ orders'[o].status # "none"
      /\ UNCHANGED <<inBook, triggers, handler, exchanged, gone, revived>>
  BY SaveFillDoes
<1>2. \A x \in ApiOrders : OrderPlaced(x)
  BY DEF Placed, OrdersPlaced
<1>3. orders[o].status # "none"
  BY <1>1, <1>2 DEF OrderPlaced
<1>4. ASSUME NEW x \in ApiOrders PROVE OrderPlaced(x)' /\ RowStands(x, {})
  <2>1. CASE x = o
    BY <1>1, <1>2, <1>3, <2>1 DEF OrderPlaced, RowKept, RowStands
  <2>2. CASE x # o
    <3>1. orders'[x] = orders[x] /\ unsaved'[x] = unsaved[x]
      BY <1>1, <2>2 DEF RowsSame
    <3> QED BY <1>1, <1>2, <3>1 DEF OrderPlaced, RowStands
  <2> QED BY <2>1, <2>2
<1> QED BY <1>1, <1>4, PlacedAside

LEMMA ApiRestartPlaced ==
  ASSUME ApiTypes, Placed, ApiRestart
  PROVE  ApiTypes' /\ Placed'
<1>1. /\ ApiTypes' /\ \A c \in Calls : handler'[c].pc = "idle"
      /\ \A o \in ApiOrders : /\ inBook'[o] # 0 => Restarted(o)
                              /\ \A p \in ApiPrices : unsaved'[o][p] = 0
                              /\ gone[o] >= 0 /\ orders[o].status \in LiveStatuses => o \in revived'
      /\ revived \subseteq revived' /\ UNCHANGED <<orders, exchanged, triggers, gone>>
  BY ApiRestartDoes
<1>2. \A c \in Calls : CallPlaced(c)' /\ \A o : ~Carrying(c, o)'
  BY <1>1, IdlePlaced
<1>3. OneCarrier' /\ CallsPlaced'
  BY <1>2 DEF OneCarrier, CallsPlaced
<1>4. ASSUME NEW o \in ApiOrders PROVE OrderPlaced(o)'
  BY <1>1 DEF Placed, OrdersPlaced, OrderPlaced, Restarted
<1>5. StaysGone'
  <2> SUFFICES ASSUME NEW o \in ApiOrders, o \notin revived', gone'[o] >= 0 PROVE GoneFor(o)'
    BY DEF StaysGone
  <2>1. exchanged[o] = gone[o]
    BY <1>1 DEF Placed, StaysGone, GoneFor
  <2>2. inBook'[o] = 0
    BY <1>1 DEF Restarted, LiveStatuses
  <2> QED BY <1>1, <1>2, <2>1, <2>2 DEF GoneFor
<1> QED BY <1>1, <1>3, <1>4, <1>5 DEF Placed, OrdersPlaced

-----------------------------------------------------------------------------
(* What calls and orders hold of the margin *)

LEMMA PriceNat == \A p \in ApiPrices : p \in Nat
BY ApiAssumption

\* What an order holds, and what is owed by and spent by a call, are amounts.
LEMMA HeldNat ==
  ASSUME ApiTypes, NEW o \in ApiOrders
  PROVE  /\ Needed(o) \in Nat /\ Unfired(o) \in Nat /\ Traded(o) \in Nat
         /\ \A p \in ApiPrices : orders[o].effect = "open" => Collateral(unsaved[o][p], p) <= Traded(o)
<1>1. PICK n \in Nat, p \in Nat, a \in Nat : n = inBook[o] /\ p = orders[o].price /\ a = orders[o].amount
  BY DEF ApiTypes, ApiRows
<1>2. Needed(o) \in Nat /\ Unfired(o) \in Nat
  BY <1>1, FrozenNat DEF Needed, Unfired
<1>3. \A x \in ApiPrices : UnsavedOf(o)[x] = Collateral(unsaved[o][x], x) /\ UnsavedOf(o)[x] \in Nat
  <2>1. TAKE x \in ApiPrices
  <2>2. PICK k \in Nat : k = unsaved[o][x]
    BY DEF ApiTypes
  <2>3. Collateral(k, x) \in Nat
    BY PriceNat, FrozenNat
  <2> QED BY <2>2, <2>3 DEF UnsavedOf
<1>4. /\ SumFunctionOnSet(UnsavedOf(o), ApiPrices) \in Nat
      /\ \A x \in ApiPrices : UnsavedOf(o)[x] <= SumFunctionOnSet(UnsavedOf(o), ApiPrices)
  BY <1>3, SumNat, ApiAssumption
<1> QED BY <1>2, <1>3, <1>4 DEF Traded

HeldAreNat == \A o \in ApiOrders : Needed(o) \in Nat /\ Unfired(o) \in Nat /\ Traded(o) \in Nat
LEMMA HeldNow == ApiTypes => HeldAreNat
BY HeldNat DEF HeldAreNat
LEMMA HeldNext == ApiTypes' => HeldAreNat'
BY HeldNow, PTL

LEMMA AnswerNat ==
  ASSUME NEW q \in ApiCalls, q.pc \in {"record", "release"}
  PROVE  /\ q.k \in Nat /\ q.p \in Nat /\ q.frozen \in Nat /\ q.n \in Nat
         /\ Frozen(q.k, q.p) \in Nat /\ Collateral(q.k, q.p) \in Nat /\ Collateral(q.k, q.p) <= Frozen(q.k, q.p)
<1>1. q \in CreateCalls \cup ModifyCalls
  BY CallShape
<1>2. q.k \in Nat /\ q.p \in Nat /\ q.frozen \in Nat /\ q.n \in Nat
  BY <1>1, PriceNat DEF CreateCalls, ModifyCalls
<1> QED BY <1>2, FrozenNat

LEMMA OwedInt ==
  ASSUME NEW q \in ApiCalls
  PROVE  /\ Owed(q) \in Int /\ Spent(q) \in Nat
         /\ q.pc = "reshape" => Owed(q) = q.frozen - q.delta
         /\ q.pc # "reshape" => Owed(q) \in Nat
         /\ q.pc \in {"idle", "freeze", "link", "shrink", "pull", "repull"} => Owed(q) = 0
         /\ q.pc \in {"insert", "trigger", "submit", "resubmit"} =>
               Owed(q) = (IF q.effect = "close" THEN 0 ELSE q.frozen)
         /\ q.pc \in {"record", "release"} =>
               /\ Owed(q) = (IF q.effect = "close" THEN 0 ELSE IF q.kind = "market" THEN q.frozen ELSE Frozen(q.k, q.p))
               /\ Spent(q) = (IF q.effect = "close" THEN 0 ELSE Collateral(q.k, q.p))
         /\ q.pc \in {"mark", "refund"} => Owed(q) = RefundFor(q.row)
         /\ q.pc \in SweepPcs => Owed(q) = RefundOfAll(q.rows, DOMAIN q.rows \ q.todo)
         /\ q.pc \notin {"record", "release"} => Spent(q) = 0
<1>1. q.pc \in {"idle"} \cup CreatePcs \cup CancelPcs \cup SweepPcs \cup ModifyPcs
  BY CallShape
<1>2. CASE q.pc \in {"insert", "trigger", "submit", "resubmit"}
  <2>1. q.frozen \in Nat
    BY <1>2, CallShape DEF CreateCalls, ModifyCalls
  <2> QED BY <1>2, <2>1 DEF Owed, Spent, SweepPcs
<1>3. CASE q.pc \in {"record", "release"}
  <2>1. q.effect \in Effects
    BY <1>3, CallShape DEF CreateCalls, ModifyCalls, Effects
  <2> QED BY <1>3, <2>1, AnswerNat DEF Owed, Spent, SweepPcs, Effects
<1>4. CASE q.pc \in {"mark", "refund"}
  <2>1. q.row \in ApiRows
    BY <1>4, CallShape DEF CancelPcs, CancelCalls
  <2> QED BY <1>4, <2>1, RefundNat DEF Owed, Spent, SweepPcs
<1>5. CASE q.pc \in SweepPcs
  <2>1. q \in SweepCalls
    BY <1>5, CallShape
  <2>2. DOMAIN q.rows \ q.todo \in SUBSET DOMAIN q.rows
    OBVIOUS
  <2>3. RefundOfAll(q.rows, DOMAIN q.rows \ q.todo) \in Nat
    BY <2>1, <2>2, RefundOfAllNat
  <2>4. Owed(q) = RefundOfAll(q.rows, DOMAIN q.rows \ q.todo) /\ Spent(q) = 0
    BY <1>5 DEF Owed, Spent, SweepPcs
  <2> QED BY <1>5, <2>3, <2>4 DEF SweepPcs
<1>6. CASE q.pc = "reshape"
  <2>1. q.frozen \in Nat /\ q.delta \in Int
    BY <1>6, CallShape DEF ModifyCalls
  <2> QED BY <1>6, <2>1 DEF Owed, Spent, SweepPcs
<1>7. CASE q.pc \in {"idle", "freeze", "link", "shrink", "pull", "repull"}
  BY <1>7 DEF Owed, Spent, SweepPcs
<1> QED BY <1>1, <1>2, <1>3, <1>4, <1>5, <1>6, <1>7 DEF CreatePcs, CancelPcs, SweepPcs, ModifyPcs

LEMMA CallsMoneyMoves ==
  ASSUME ApiTypes, ApiTypes', NEW c \in Calls, OthersSame(c)
  PROVE  /\ OwedByAll' = OwedByAll + Owed(handler'[c]) - Owed(handler[c])
         /\ SpentByAll' = SpentByAll + Spent(handler'[c]) - Spent(handler[c])
         /\ OwedByAll \in Int /\ OwedByAll' \in Int /\ SpentByAll \in Int /\ SpentByAll' \in Int
<1> DEFINE g == [d \in Calls |-> Owed(handler[d])]
           h == [d \in Calls |-> Owed(handler'[d])]
           g2 == [d \in Calls |-> Spent(handler[d])]
           h2 == [d \in Calls |-> Spent(handler'[d])]
<1>1. \A d \in Calls : handler[d] \in ApiCalls /\ handler'[d] \in ApiCalls
  BY DEF ApiTypes
<1>2. \A d \in Calls : /\ g[d] = Owed(handler[d]) /\ h[d] = Owed(handler'[d])
                       /\ g2[d] = Spent(handler[d]) /\ h2[d] = Spent(handler'[d])
  OBVIOUS
<1>3. /\ OwedByAll = SumFunctionOnSet(g, Calls) /\ OwedByAll' = SumFunctionOnSet(h, Calls)
      /\ SpentByAll = SumFunctionOnSet(g2, Calls) /\ SpentByAll' = SumFunctionOnSet(h2, Calls)
  BY DEF OwedByAll, SpentByAll
<1> HIDE DEF g, h, g2, h2
<1>4. ASSUME NEW d \in Calls PROVE g[d] \in Int /\ h[d] \in Int /\ g2[d] \in Int /\ h2[d] \in Int
  <2>1. PICK q \in ApiCalls, r \in ApiCalls : q = handler[d] /\ r = handler'[d]
    BY <1>1
  <2>2. Owed(q) \in Int /\ Spent(q) \in Nat /\ Owed(r) \in Int /\ Spent(r) \in Nat
    BY OwedInt
  <2> QED BY <1>2, <2>1, <2>2
<1>5. \A d \in Calls \ {c} : h[d] = g[d] /\ h2[d] = g2[d]
  BY <1>2 DEF OthersSame
<1>6. IsFiniteSet(Calls)
  BY ApiAssumption
<1>7. /\ SumFunctionOnSet(h, Calls) = SumFunctionOnSet(g, Calls) + h[c] - g[c]
      /\ SumFunctionOnSet(g, Calls) \in Int /\ SumFunctionOnSet(h, Calls) \in Int
  BY <1>4, <1>5, <1>6, SumChange
<1>8. /\ SumFunctionOnSet(h2, Calls) = SumFunctionOnSet(g2, Calls) + h2[c] - g2[c]
      /\ SumFunctionOnSet(g2, Calls) \in Int /\ SumFunctionOnSet(h2, Calls) \in Int
  BY <1>4, <1>5, <1>6, SumChange
<1> QED BY <1>2, <1>3, <1>7, <1>8

LEMMA CallsMoneyStays ==
  ASSUME ApiTypes, UNCHANGED handler
  PROVE  /\ OwedByAll' = OwedByAll /\ SpentByAll' = SpentByAll
         /\ OwedByAll \in Int /\ SpentByAll \in Int
<1> DEFINE g == [d \in Calls |-> Owed(handler[d])]
           g2 == [d \in Calls |-> Spent(handler[d])]
<1>1. /\ OwedByAll = SumFunctionOnSet(g, Calls) /\ OwedByAll' = SumFunctionOnSet(g, Calls)
      /\ SpentByAll = SumFunctionOnSet(g2, Calls) /\ SpentByAll' = SumFunctionOnSet(g2, Calls)
  BY DEF OwedByAll, SpentByAll
<1>2. \A d \in Calls : g[d] = Owed(handler[d]) /\ g2[d] = Spent(handler[d])
  OBVIOUS
<1> HIDE DEF g, g2
<1>3. ASSUME NEW d \in Calls PROVE g[d] \in Int /\ g2[d] \in Int
  <2>1. PICK q \in ApiCalls : q = handler[d]
    BY DEF ApiTypes
  <2>2. Owed(q) \in Int /\ Spent(q) \in Nat
    BY OwedInt
  <2> QED BY <1>2, <2>1, <2>2
<1>4. SumFunctionOnSet(g, Calls) \in Int /\ SumFunctionOnSet(g2, Calls) \in Int
  BY <1>3, SumInt, ApiAssumption
<1> QED BY <1>1, <1>4

\* What is owed and spent by one call is part of what all do.
LEMMA OwedCounts ==
  ASSUME ApiTypes, \A c \in Calls : Owed(handler[c]) \in Nat
  PROVE  /\ OwedByAll \in Nat /\ SpentByAll \in Nat
         /\ \A c \in Calls : Owed(handler[c]) <= OwedByAll
<1> DEFINE g == [d \in Calls |-> Owed(handler[d])]
           g2 == [d \in Calls |-> Spent(handler[d])]
<1>1. OwedByAll = SumFunctionOnSet(g, Calls) /\ SpentByAll = SumFunctionOnSet(g2, Calls)
  BY DEF OwedByAll, SpentByAll
<1>2. \A d \in Calls : g[d] = Owed(handler[d]) /\ g2[d] = Spent(handler[d])
  OBVIOUS
<1> HIDE DEF g, g2
<1>3. ASSUME NEW d \in Calls PROVE g[d] \in Nat /\ g2[d] \in Nat
  <2>1. PICK q \in ApiCalls : q = handler[d]
    BY DEF ApiTypes
  <2>2. Spent(q) \in Nat
    BY OwedInt
  <2> QED BY <1>2, <2>1, <2>2
<1>4. /\ SumFunctionOnSet(g, Calls) \in Nat /\ SumFunctionOnSet(g2, Calls) \in Nat
      /\ \A c \in Calls : g[c] <= SumFunctionOnSet(g, Calls)
  BY <1>3, SumNat, ApiAssumption
<1> QED BY <1>1, <1>2, <1>4

MoneySame(o) ==
    /\ Needed(o)' = Needed(o) /\ Unfired(o)' = Unfired(o) /\ Traded(o)' = Traded(o)

LEMMA UnsavedSame ==
  ASSUME NEW o, unsaved'[o] = unsaved[o], orders'[o].kind = orders[o].kind /\ orders'[o].effect = orders[o].effect
  PROVE  Traded(o)' = Traded(o)
<1>1. UnsavedOf(o)' = UnsavedOf(o)
  BY DEF UnsavedOf
<1> QED BY <1>1 DEF Traded

LEMMA RowMoneySame ==
  ASSUME NEW o, RowKept(o), inBook'[o] = inBook[o], triggers'[o] = triggers[o], unsaved'[o] = unsaved[o]
  PROVE  MoneySame(o)
<1>1. Traded(o)' = Traded(o)
  BY UnsavedSame DEF RowKept
<1>2. Needed(o)' = Needed(o) /\ Unfired(o)' = Unfired(o)
  BY DEF Needed, Unfired, RowKept
<1> QED BY <1>1, <1>2 DEF MoneySame

LEMMA BookMoneyMoves ==
  ASSUME ApiTypes, ApiTypes', NEW o \in ApiOrders, \A x \in ApiOrders \ {o} : MoneySame(x)
  PROVE  /\ NeededByAll' = NeededByAll + Needed(o)' - Needed(o)
         /\ UnfiredOfAll' = UnfiredOfAll + Unfired(o)' - Unfired(o)
         /\ TradedByAll' = TradedByAll + Traded(o)' - Traded(o)
         /\ NeededByAll \in Int /\ NeededByAll' \in Int /\ UnfiredOfAll \in Int /\ UnfiredOfAll' \in Int
         /\ TradedByAll \in Int /\ TradedByAll' \in Int
<1> DEFINE n == [x \in ApiOrders |-> Needed(x)]
           w == [x \in ApiOrders |-> Unfired(x)]
           t == [x \in ApiOrders |-> Traded(x)]
           nn == n'
           ww == w'
           tt == t'
<1>1. /\ NeededByAll = SumFunctionOnSet(n, ApiOrders) /\ NeededByAll' = SumFunctionOnSet(nn, ApiOrders)
      /\ UnfiredOfAll = SumFunctionOnSet(w, ApiOrders) /\ UnfiredOfAll' = SumFunctionOnSet(ww, ApiOrders)
      /\ TradedByAll = SumFunctionOnSet(t, ApiOrders) /\ TradedByAll' = SumFunctionOnSet(tt, ApiOrders)
  BY DEF NeededByAll, UnfiredOfAll, TradedByAll
<1>2. \A x \in ApiOrders : /\ n[x] = Needed(x) /\ nn[x] = Needed(x)' /\ w[x] = Unfired(x) /\ ww[x] = Unfired(x)'
                           /\ t[x] = Traded(x) /\ tt[x] = Traded(x)'
  OBVIOUS
<1>3. \A x \in ApiOrders : /\ Needed(x) \in Int /\ Unfired(x) \in Int /\ Traded(x) \in Int
                           /\ Needed(x)' \in Int /\ Unfired(x)' \in Int /\ Traded(x)' \in Int
  <2>1. ASSUME NEW x \in ApiOrders PROVE Needed(x) \in Int /\ Unfired(x) \in Int /\ Traded(x) \in Int
    BY HeldNat
  <2>2. ASSUME NEW x \in ApiOrders PROVE Needed(x)' \in Int /\ Unfired(x)' \in Int /\ Traded(x)' \in Int
    BY HeldNext DEF HeldAreNat
  <2> QED BY <2>1, <2>2
<1> HIDE DEF n, w, t, nn, ww, tt
<1>4. \A x \in ApiOrders \ {o} : nn[x] = n[x] /\ ww[x] = w[x] /\ tt[x] = t[x]
  BY <1>2 DEF MoneySame
<1>5. IsFiniteSet(ApiOrders)
  BY ApiAssumption
<1>6. \A x \in ApiOrders : /\ n[x] \in Int /\ nn[x] \in Int /\ w[x] \in Int /\ ww[x] \in Int
                           /\ t[x] \in Int /\ tt[x] \in Int
  BY <1>2, <1>3
<1>7. /\ SumFunctionOnSet(nn, ApiOrders) = SumFunctionOnSet(n, ApiOrders) + nn[o] - n[o]
      /\ SumFunctionOnSet(n, ApiOrders) \in Int /\ SumFunctionOnSet(nn, ApiOrders) \in Int
  BY <1>4, <1>5, <1>6, SumChange
<1>8. /\ SumFunctionOnSet(ww, ApiOrders) = SumFunctionOnSet(w, ApiOrders) + ww[o] - w[o]
      /\ SumFunctionOnSet(w, ApiOrders) \in Int /\ SumFunctionOnSet(ww, ApiOrders) \in Int
  BY <1>4, <1>5, <1>6, SumChange
<1>9. /\ SumFunctionOnSet(tt, ApiOrders) = SumFunctionOnSet(t, ApiOrders) + tt[o] - t[o]
      /\ SumFunctionOnSet(t, ApiOrders) \in Int /\ SumFunctionOnSet(tt, ApiOrders) \in Int
  BY <1>4, <1>5, <1>6, SumChange
<1> QED BY <1>1, <1>2, <1>7, <1>8, <1>9

LEMMA BookMoneyStays ==
  ASSUME ApiTypes, \A x \in ApiOrders : MoneySame(x)
  PROVE  /\ NeededByAll' = NeededByAll /\ UnfiredOfAll' = UnfiredOfAll /\ TradedByAll' = TradedByAll
<1> DEFINE n == [x \in ApiOrders |-> Needed(x)]
           w == [x \in ApiOrders |-> Unfired(x)]
           t == [x \in ApiOrders |-> Traded(x)]
<1>1. n' = n /\ w' = w /\ t' = t
  BY DEF MoneySame
<1>2. /\ NeededByAll = SumFunctionOnSet(n, ApiOrders) /\ NeededByAll' = SumFunctionOnSet(n', ApiOrders)
      /\ UnfiredOfAll = SumFunctionOnSet(w, ApiOrders) /\ UnfiredOfAll' = SumFunctionOnSet(w', ApiOrders)
      /\ TradedByAll = SumFunctionOnSet(t, ApiOrders) /\ TradedByAll' = SumFunctionOnSet(t', ApiOrders)
  BY DEF NeededByAll, UnfiredOfAll, TradedByAll
<1> HIDE DEF n, w, t
<1> QED BY <1>1, <1>2

LEMMA HeldCounts ==
  ASSUME ApiTypes
  PROVE  /\ NeededByAll \in Nat /\ UnfiredOfAll \in Nat /\ TradedByAll \in Nat
         /\ \A o \in ApiOrders : Traded(o) <= TradedByAll
<1> DEFINE n == [x \in ApiOrders |-> Needed(x)]
           w == [x \in ApiOrders |-> Unfired(x)]
           t == [x \in ApiOrders |-> Traded(x)]
<1>1. /\ NeededByAll = SumFunctionOnSet(n, ApiOrders) /\ UnfiredOfAll = SumFunctionOnSet(w, ApiOrders)
      /\ TradedByAll = SumFunctionOnSet(t, ApiOrders)
  BY DEF NeededByAll, UnfiredOfAll, TradedByAll
<1>2. \A x \in ApiOrders : n[x] \in Nat /\ w[x] \in Nat /\ t[x] \in Nat /\ t[x] = Traded(x)
  BY HeldNat
<1> HIDE DEF n, w, t
<1>3. /\ SumFunctionOnSet(n, ApiOrders) \in Nat /\ SumFunctionOnSet(w, ApiOrders) \in Nat
      /\ SumFunctionOnSet(t, ApiOrders) \in Nat
      /\ \A o \in ApiOrders : t[o] <= SumFunctionOnSet(t, ApiOrders)
  BY <1>2, SumNat, ApiAssumption
<1> QED BY <1>1, <1>2, <1>3

\* Frozen is what is held and owed, so nothing that is given back is more.
LEMMA FrozenCovers ==
  ASSUME ApiTypes, CallsFit, MarginFits
  PROVE  /\ \A c \in Calls : Owed(handler[c]) \in Nat /\ Owed(handler[c]) <= wallet.frozen
         /\ \A o \in ApiOrders : 2 * Traded(o) <= wallet.frozen
         /\ OwedByAll \in Nat /\ SpentByAll \in Nat
<1>1. ASSUME NEW c \in Calls PROVE Owed(handler[c]) \in Nat
  <2>1. PICK q \in ApiCalls : q = handler[c]
    BY DEF ApiTypes
  <2>2. CASE q.pc # "reshape"
    BY <2>1, <2>2, OwedInt
  <2>3. CASE q.pc = "reshape"
    <3>1. q.frozen - q.delta \in Nat
      BY <2>1, <2>3 DEF CallsFit, CallFits, ModifyFits, SweepPcs
    <3> QED BY <2>1, <2>3, <3>1, OwedInt
  <2> QED BY <2>2, <2>3
<1>2. OwedByAll \in Nat /\ SpentByAll \in Nat /\ \A c \in Calls : Owed(handler[c]) <= OwedByAll
  BY <1>1, OwedCounts
<1>3. PICK n \in Nat, w \in Nat, t \in Nat, b \in Nat :
        n = NeededByAll /\ w = UnfiredOfAll /\ t = TradedByAll /\ b = OwedByAll
  BY <1>2, HeldCounts
<1>4. wallet.frozen = n + w + 2 * t + b
  BY <1>3 DEF MarginFits
<1>5. ASSUME NEW c \in Calls PROVE Owed(handler[c]) <= wallet.frozen
  <2>1. PICK x \in Nat : x = Owed(handler[c]) /\ x <= b
    BY <1>1, <1>2, <1>3
  <2> QED BY <1>4, <2>1
<1>6. ASSUME NEW o \in ApiOrders PROVE 2 * Traded(o) <= wallet.frozen
  <2>1. PICK x \in Nat : x = Traded(o) /\ x <= t
    BY <1>3, HeldNat, HeldCounts
  <2> QED BY <1>4, <2>1
<1> QED BY <1>1, <1>2, <1>5, <1>6

-----------------------------------------------------------------------------
(* Until a refund does not fit: what a step leaves of the others *)

LEMMA OrderAt ==
  ASSUME ApiTypes, NEW c \in Calls, handler[c].pc \notin {"idle"} \cup SweepPcs
  PROVE  handler[c].order \in ApiOrders
<1>1. PICK q \in ApiCalls : q = handler[c]
  BY DEF ApiTypes
<1>2. q \in CreateCalls \cup ModifyCalls \cup CancelCalls
  BY <1>1, CallShape DEF CancelPcs, CreatePcs, ModifyPcs, SweepPcs
<1> QED BY <1>1, <1>2 DEF CreateCalls, ModifyCalls, CancelCalls

\* The order's row and trades as the call knows them.
SameDeal(o) ==
    /\ orders'[o].amount = orders[o].amount /\ orders'[o].price = orders[o].price
    /\ exchanged'[o] = exchanged[o]

LEMMA FitsFollow ==
  ASSUME NEW q, NEW r, NEW s, NEW x \in Nat, NEW y \in Nat, CreateFits(q, r, x), ModifyFits(q, r, x),
         q.pc \notin {"freeze", "insert"} => s.kind = r.kind /\ s.effect = r.effect, y >= x,
         q.pc \in {"trigger", "submit", "reshape", "resubmit"} => s.amount = r.amount /\ s.price = r.price /\ y = x
  PROVE  CreateFits(q, s, y) /\ ModifyFits(q, s, y)
<1>1. CreateFits(q, s, y)
  BY DEF CreateFits
<1>2. ModifyFits(q, s, y)
  BY DEF ModifyFits
<1> QED BY <1>1, <1>2

LEMMA OtherFits ==
  ASSUME ApiTypes, Placed, ApiTypes', NEW M \in SUBSET Calls,
         NEW d \in Calls \ M, handler'[d] = handler[d], CallFits(d),
         \A o \in ApiOrders : RowStands(o, M) /\ exchanged'[o] >= exchanged[o],
         \A o \in ApiOrders : SameDeal(o) \/ inBook[o] > 0 \/ \E e \in M : Carrying(e, o)
  PROVE  CallFits(d)'
<1>1. PICK q \in ApiCalls : q = handler[d] /\ q = handler'[d]
  BY DEF ApiTypes
<1>2. CallPlaced(d)
  BY DEF Placed, CallsPlaced
<1>3. CASE q.pc = "idle"
  BY <1>1, <1>3 DEF CallFits, Sweeping, SweepPcs
<1>4. CASE q.pc \in SweepPcs
  <2>1. DOMAIN q.rows \in SUBSET ApiOrders
    BY <1>4, CallShape, SweepShape
  <2>2. Sweeping(d) /\ Sweeping(d)'
    BY <1>1, <1>4 DEF Sweeping
  <2>3. ASSUME NEW o \in DOMAIN q.rows PROVE q.rows[o].kind = orders'[o].kind /\ q.rows[o].effect = orders'[o].effect
    <3>1. o \in ApiOrders /\ orders[o].status # "none" /\ q.rows[o].kind = orders[o].kind /\ q.rows[o].effect = orders[o].effect
      BY <1>1, <1>2, <2>1, <2>2 DEF CallPlaced, CallFits
    <3> QED BY <3>1 DEF RowStands
  <2> QED BY <1>1, <1>4, <2>2, <2>3 DEF CallFits, SweepPcs
<1>5. CASE q.pc \notin {"idle"} \cup SweepPcs
  <2>1. PICK o \in ApiOrders : o = q.order
    BY <1>1, <1>5, OrderAt
  <2>2. PICK r, s : r = orders[o] /\ s = orders'[o]
    OBVIOUS
  <2>3. PICK x \in Nat, y \in Nat : x = exchanged[o] /\ y = exchanged'[o] /\ y >= x
    BY DEF ApiTypes
  <2>4. CreateFits(q, r, x) /\ ModifyFits(q, r, x) /\ (q.pc = "pull" => q.row.kind = r.kind /\ q.row.effect = r.effect)
    BY <1>1, <1>5, <2>1, <2>2, <2>3 DEF CallFits
  <2>5. q.pc \notin {"freeze", "insert"} => s.kind = r.kind /\ s.effect = r.effect
    <3>1. q.pc \notin {"freeze", "insert"} => AtRow(d)
      <4>1. q.pc \in {"idle"} \cup CreatePcs \cup CancelPcs \cup SweepPcs \cup ModifyPcs
        BY CallShape
      <4> QED BY <1>1, <1>5, <4>1 DEF AtRow, CreatePcs, CancelPcs, SweepPcs, ModifyPcs
    <3> QED BY <1>1, <1>2, <2>1, <2>2, <3>1 DEF CallPlaced, RowStands
  <2>6. q.pc \in {"trigger", "submit", "reshape", "resubmit"} => s.amount = r.amount /\ s.price = r.price /\ y = x
    <3> SUFFICES ASSUME q.pc \in {"trigger", "submit", "reshape", "resubmit"}
                 PROVE  s.amount = r.amount /\ s.price = r.price /\ y = x
      OBVIOUS
    <3>1. Carrying(d, o)
      BY <1>1, <2>1 DEF Carrying
    <3>2. inBook[o] = 0 /\ ~ \E e \in M : Carrying(e, o)
      BY <3>1 DEF Placed, OneCarrier
    <3>3. SameDeal(o)
      BY <3>2
    <3> QED BY <2>2, <2>3, <3>3 DEF SameDeal
  <2>7. CreateFits(q, s, y) /\ ModifyFits(q, s, y)
    BY <2>3, <2>4, <2>5, <2>6, FitsFollow
  <2>8. ~Sweeping(d)'
    BY <1>1, <1>5 DEF Sweeping
  <2> QED BY <1>1, <1>5, <2>1, <2>2, <2>3, <2>4, <2>5, <2>7, <2>8 DEF CallFits
<1> QED BY <1>3, <1>4, <1>5

\* A step of call c.
LEMMA CallsFitByCall ==
  ASSUME ApiTypes, Placed, ApiTypes', CallsFit, NEW c \in Calls, OthersSame(c), CallFits(c)',
         \A o \in ApiOrders : RowStands(o, {c}) /\ exchanged'[o] >= exchanged[o],
         \A o \in ApiOrders : SameDeal(o) \/ inBook[o] > 0 \/ Carrying(c, o)
  PROVE  CallsFit'
<1> DEFINE M == {c}
<1>1. /\ M \in SUBSET Calls /\ \A d \in Calls : d # c <=> d \in Calls \ M
      /\ c \in M
      /\ \A o \in ApiOrders : RowStands(o, M) /\ exchanged'[o] >= exchanged[o]
  OBVIOUS
<1> HIDE DEF M
<1>2. \A o \in ApiOrders : SameDeal(o) \/ inBook[o] > 0 \/ \E e \in M : Carrying(e, o)
  BY <1>1
<1>3. ASSUME NEW d \in Calls PROVE CallFits(d)'
  <2>1. CASE d = c
    BY <2>1
  <2>2. CASE d # c
    <3>1. d \in Calls \ M /\ handler'[d] = handler[d] /\ CallFits(d)
      BY <1>1, <2>2 DEF OthersSame, CallsFit
    <3> QED BY <1>1, <1>2, <3>1, OtherFits
  <2> QED BY <2>1, <2>2
<1> QED BY <1>3 DEF CallsFit

\* ... that keeps the deals, and one that leaves the rows.
LEMMA CallsFitCalmly ==
  ASSUME ApiTypes, Placed, ApiTypes', CallsFit, NEW c \in Calls, OthersSame(c), CallFits(c)',
         \A o \in ApiOrders : RowCalm(o), UNCHANGED exchanged
  PROVE  CallsFit'
<1>1. \A o \in ApiOrders : exchanged'[o] >= exchanged[o]
  <2>1. TAKE o \in ApiOrders
  <2>2. PICK x \in Nat : x = exchanged[o] /\ x = exchanged'[o]
    BY DEF ApiTypes
  <2> QED BY <2>2
<1>2. \A o \in ApiOrders : RowStands(o, {c})
  BY DEF RowCalm, RowKept, RowStands
<1>3. \A o \in ApiOrders : SameDeal(o)
  BY DEF RowCalm, RowKept, SameDeal
<1> QED BY <1>1, <1>2, <1>3, CallsFitByCall

LEMMA CallsFitAside ==
  ASSUME ApiTypes, Placed, ApiTypes', CallsFit, UNCHANGED handler,
         \A o \in ApiOrders : RowCalm(o) /\ exchanged'[o] >= exchanged[o],
         \A o \in ApiOrders : exchanged'[o] = exchanged[o] \/ inBook[o] > 0
  PROVE  CallsFit'
<1> DEFINE M == {}
<1>1. /\ M \in SUBSET Calls /\ \A d \in Calls : d \in Calls \ M
  OBVIOUS
<1> HIDE DEF M
<1>2. \A o \in ApiOrders : RowStands(o, M)
  BY DEF RowCalm, RowKept, RowStands
<1>3. \A o \in ApiOrders : SameDeal(o) \/ inBook[o] > 0
  BY DEF RowCalm, RowKept, SameDeal
<1>4. ASSUME NEW d \in Calls PROVE CallFits(d)'
  <2>1. d \in Calls \ M /\ handler'[d] = handler[d] /\ CallFits(d)
    BY <1>1 DEF CallsFit
  <2> QED BY <1>1, <1>2, <1>3, <2>1, OtherFits
<1> QED BY <1>4 DEF CallsFit

\* An order whose row keeps its terms.
LEMMA OrderFitsSame ==
  ASSUME NEW o, OrderFits(o), RowCalm(o), inBook'[o] = inBook[o] \/ inBook'[o] = 0, exchanged'[o] = exchanged[o],
         unsaved'[o] = unsaved[o],
         orders'[o].margin = orders[o].margin \/ orders[o].kind # "limit" \/ exchanged[o] # 0
  PROVE  OrderFits(o)'
BY DEF OrderFits, RowCalm, RowKept

LEMMA IdleFits ==
  ASSUME NEW c \in Calls, handler'[c].pc \in {"idle", "link", "mark", "refund"}
  PROVE  CallFits(c)'
BY DEF CallFits, CreateFits, ModifyFits, Sweeping, SweepPcs

-----------------------------------------------------------------------------
(* The margin at a step *)

\* By how much the books move at call c and order o.
LEMMA MarginByBoth ==
  ASSUME ApiTypes, ApiTypes', MarginFits, NEW c \in Calls, OthersSame(c), NEW o \in ApiOrders,
         \A x \in ApiOrders \ {o} : MoneySame(x),
         wallet'.frozen - wallet.frozen =
            (Needed(o)' - Needed(o)) + (Unfired(o)' - Unfired(o)) + 2 * (Traded(o)' - Traded(o))
            + (Owed(handler'[c]) - Owed(handler[c])),
         (wallet'.free - wallet.free) + (wallet'.frozen - wallet.frozen) + (taken' - taken) =
            (Traded(o)' - Traded(o)) + (Spent(handler'[c]) - Spent(handler[c]))
  PROVE  MarginFits'
<1>1. PICK f \in Int, z \in Int, g \in Int, y \in Int, t \in Int, u \in Int :
        /\ f = wallet.free /\ z = wallet.frozen /\ g = wallet'.free /\ y = wallet'.frozen
        /\ t = taken /\ u = taken'
  BY DEF ApiTypes
<1>2. HeldAreNat /\ HeldAreNat'
  BY HeldNow, HeldNext
<1>3. PICK n \in Int, w \in Int, s \in Int, nn \in Int, ww \in Int, ss \in Int :
        /\ n = Needed(o) /\ w = Unfired(o) /\ s = Traded(o)
        /\ nn = Needed(o)' /\ ww = Unfired(o)' /\ ss = Traded(o)'
  BY <1>2 DEF HeldAreNat
<1>4. PICK a \in Int, b \in Int, aa \in Int, bb \in Int :
        a = Owed(handler[c]) /\ aa = Owed(handler'[c]) /\ b = Spent(handler[c]) /\ bb = Spent(handler'[c])
  <2>1. PICK q \in ApiCalls, r \in ApiCalls : q = handler[c] /\ r = handler'[c]
    BY DEF ApiTypes
  <2>2. Owed(q) \in Int /\ Spent(q) \in Nat /\ Owed(r) \in Int /\ Spent(r) \in Nat
    BY OwedInt
  <2> QED BY <2>1, <2>2
<1>5. /\ NeededByAll' = NeededByAll + nn - n /\ UnfiredOfAll' = UnfiredOfAll + ww - w
      /\ TradedByAll' = TradedByAll + ss - s
      /\ NeededByAll \in Int /\ UnfiredOfAll \in Int /\ TradedByAll \in Int
  BY <1>3, BookMoneyMoves
<1>6. /\ OwedByAll' = OwedByAll + aa - a /\ SpentByAll' = SpentByAll + bb - b
      /\ OwedByAll \in Int /\ SpentByAll \in Int
  BY <1>4, CallsMoneyMoves
<1>7. /\ y - z = (nn - n) + (ww - w) + 2 * (ss - s) + (aa - a)
      /\ (g - f) + (y - z) + (u - t) = (ss - s) + (bb - b)
  BY <1>1, <1>3, <1>4
<1>8. PICK N \in Int, W \in Int, T \in Int, O \in Int, S \in Int :
        N = NeededByAll /\ W = UnfiredOfAll /\ T = TradedByAll /\ O = OwedByAll /\ S = SpentByAll
  BY <1>5, <1>6
<1>9. z = N + W + 2 * T + O /\ f + z + t = ApiDeposit + T + S /\ ApiDeposit \in Int
  BY <1>1, <1>8, ApiAssumption DEF MarginFits
<1>10. /\ y = (N + nn - n) + (W + ww - w) + 2 * (T + ss - s) + (O + aa - a)
       /\ g + y + u = ApiDeposit + (T + ss - s) + (S + bb - b)
  BY <1>7, <1>9
<1> QED BY <1>1, <1>5, <1>6, <1>8, <1>10 DEF MarginFits

LEMMA MarginByCall ==
  ASSUME ApiTypes, ApiTypes', MarginFits, NEW c \in Calls, OthersSame(c), \A x \in ApiOrders : MoneySame(x),
         wallet'.frozen - wallet.frozen = Owed(handler'[c]) - Owed(handler[c]),
         (wallet'.free - wallet.free) + (wallet'.frozen - wallet.frozen) + (taken' - taken) =
            Spent(handler'[c]) - Spent(handler[c])
  PROVE  MarginFits'
<1>1. PICK f \in Int, z \in Int, g \in Int, y \in Int, t \in Int, u \in Int :
        /\ f = wallet.free /\ z = wallet.frozen /\ g = wallet'.free /\ y = wallet'.frozen
        /\ t = taken /\ u = taken'
  BY DEF ApiTypes
<1>2. PICK a \in Int, b \in Int, aa \in Int, bb \in Int :
        a = Owed(handler[c]) /\ aa = Owed(handler'[c]) /\ b = Spent(handler[c]) /\ bb = Spent(handler'[c])
  <2>1. PICK q \in ApiCalls, r \in ApiCalls : q = handler[c] /\ r = handler'[c]
    BY DEF ApiTypes
  <2>2. Owed(q) \in Int /\ Spent(q) \in Nat /\ Owed(r) \in Int /\ Spent(r) \in Nat
    BY OwedInt
  <2> QED BY <2>1, <2>2
<1>3. /\ OwedByAll' = OwedByAll + aa - a /\ SpentByAll' = SpentByAll + bb - b
      /\ OwedByAll \in Int /\ SpentByAll \in Int
  BY <1>2, CallsMoneyMoves
<1>4. NeededByAll' = NeededByAll /\ UnfiredOfAll' = UnfiredOfAll /\ TradedByAll' = TradedByAll
  BY BookMoneyStays
<1>5. y - z = aa - a /\ (g - f) + (y - z) + (u - t) = bb - b
  BY <1>1, <1>2
<1>6. PICK N \in Int, W \in Int, T \in Int, O \in Int, S \in Int :
        N = NeededByAll /\ W = UnfiredOfAll /\ T = TradedByAll /\ O = OwedByAll /\ S = SpentByAll
  BY <1>3, HeldCounts
<1>7. z = N + W + 2 * T + O /\ f + z + t = ApiDeposit + T + S /\ ApiDeposit \in Int
  BY <1>1, <1>6, ApiAssumption DEF MarginFits
<1>8. y = N + W + 2 * T + (O + aa - a) /\ g + y + u = ApiDeposit + T + (S + bb - b)
  BY <1>5, <1>7
<1> QED BY <1>1, <1>3, <1>4, <1>6, <1>8 DEF MarginFits

LEMMA MarginByOrder ==
  ASSUME ApiTypes, ApiTypes', MarginFits, UNCHANGED handler, NEW o \in ApiOrders,
         \A x \in ApiOrders \ {o} : MoneySame(x),
         wallet'.frozen - wallet.frozen =
            (Needed(o)' - Needed(o)) + (Unfired(o)' - Unfired(o)) + 2 * (Traded(o)' - Traded(o)),
         (wallet'.free - wallet.free) + (wallet'.frozen - wallet.frozen) + (taken' - taken) = Traded(o)' - Traded(o)
  PROVE  MarginFits'
<1>1. PICK f \in Int, z \in Int, g \in Int, y \in Int, t \in Int, u \in Int :
        /\ f = wallet.free /\ z = wallet.frozen /\ g = wallet'.free /\ y = wallet'.frozen
        /\ t = taken /\ u = taken'
  BY DEF ApiTypes
<1>2. HeldAreNat /\ HeldAreNat'
  BY HeldNow, HeldNext
<1>3. PICK n \in Int, w \in Int, s \in Int, nn \in Int, ww \in Int, ss \in Int :
        /\ n = Needed(o) /\ w = Unfired(o) /\ s = Traded(o)
        /\ nn = Needed(o)' /\ ww = Unfired(o)' /\ ss = Traded(o)'
  BY <1>2 DEF HeldAreNat
<1>5. /\ NeededByAll' = NeededByAll + nn - n /\ UnfiredOfAll' = UnfiredOfAll + ww - w
      /\ TradedByAll' = TradedByAll + ss - s
      /\ NeededByAll \in Int /\ UnfiredOfAll \in Int /\ TradedByAll \in Int
  BY <1>3, BookMoneyMoves
<1>6. /\ OwedByAll' = OwedByAll /\ SpentByAll' = SpentByAll /\ OwedByAll \in Int /\ SpentByAll \in Int
  BY CallsMoneyStays
<1>7. /\ y - z = (nn - n) + (ww - w) + 2 * (ss - s)
      /\ (g - f) + (y - z) + (u - t) = ss - s
  BY <1>1, <1>3
<1>8. PICK N \in Int, W \in Int, T \in Int, O \in Int, S \in Int :
        N = NeededByAll /\ W = UnfiredOfAll /\ T = TradedByAll /\ O = OwedByAll /\ S = SpentByAll
  BY <1>5, <1>6
<1>9. z = N + W + 2 * T + O /\ f + z + t = ApiDeposit + T + S /\ ApiDeposit \in Int
  BY <1>1, <1>8, ApiAssumption DEF MarginFits
<1>10. /\ y = (N + nn - n) + (W + ww - w) + 2 * (T + ss - s) + O
       /\ g + y + u = ApiDeposit + (T + ss - s) + S
  BY <1>7, <1>9
<1> QED BY <1>1, <1>5, <1>6, <1>8, <1>10 DEF MarginFits

-----------------------------------------------------------------------------
(* Each statement keeps the margin, until a refund does not fit *)

Fits == OrdersFit /\ CallsFit /\ MarginFits

\* A statement that leaves the book and every order's terms alone.
LEMMA CalmFits ==
  ASSUME ApiTypes, Placed, ApiTypes', Fits, NEW c \in Calls, OthersSame(c), CallFits(c)',
         \A o \in ApiOrders : RowCalm(o),
         \A o \in ApiOrders : orders'[o].margin = orders[o].margin \/ orders[o].kind # "limit" \/ exchanged[o] # 0,
         UNCHANGED <<inBook, unsaved, exchanged, taken, triggers>>,
         wallet'.frozen - wallet.frozen = Owed(handler'[c]) - Owed(handler[c]),
         (wallet'.free - wallet.free) + (wallet'.frozen - wallet.frozen) = Spent(handler'[c]) - Spent(handler[c])
  PROVE  Fits'
<1>1. OrdersFit'
  <2>1. ASSUME NEW o \in ApiOrders PROVE OrderFits(o)'
    <3>1. OrderFits(o) /\ RowCalm(o) /\ inBook'[o] = inBook[o] /\ exchanged'[o] = exchanged[o] /\ unsaved'[o] = unsaved[o]
      BY DEF Fits, OrdersFit
    <3> QED BY <3>1, OrderFitsSame
  <2> QED BY <2>1 DEF OrdersFit
<1>2. CallsFit'
  BY CallsFitCalmly DEF Fits
<1>3. MarginFits'
  <2>1. ASSUME NEW o \in ApiOrders PROVE MoneySame(o)
    <3>1. RowKept(o) /\ inBook'[o] = inBook[o] /\ triggers'[o] = triggers[o] /\ unsaved'[o] = unsaved[o]
      BY DEF RowCalm
    <3> QED BY <3>1, RowMoneySame
  <2>2. PICK f \in Int, z \in Int, g \in Int, y \in Int, t \in Int :
        f = wallet.free /\ z = wallet.frozen /\ g = wallet'.free /\ y = wallet'.frozen /\ t = taken
    BY DEF ApiTypes
  <2>3. (g - f) + (y - z) + (t - t) = (g - f) + (y - z)
    OBVIOUS
  <2>4. (wallet'.free - wallet.free) + (wallet'.frozen - wallet.frozen) + (taken' - taken) =
            Spent(handler'[c]) - Spent(handler[c])
    BY <2>2, <2>3
  <2> QED BY <2>1, <2>4, MarginByCall DEF Fits
<1> QED BY <1>1, <1>2, <1>3 DEF Fits

\* ... and the wallet and the rows, too.
LEMMA QuietFits ==
  ASSUME ApiTypes, Placed, ApiTypes', Fits, NEW c \in Calls, OthersSame(c), CallFits(c)',
         \A o \in ApiOrders : RowCalm(o) /\ orders'[o].margin = orders[o].margin,
         UNCHANGED <<wallet, inBook, unsaved, exchanged, taken, triggers>>,
         Owed(handler'[c]) = Owed(handler[c]), Spent(handler'[c]) = Spent(handler[c])
  PROVE  Fits'
<1>1. PICK q \in ApiCalls : q = handler[c]
  BY DEF ApiTypes
<1>2. PICK f \in Int, z \in Int, a \in Int, b \in Nat :
        f = wallet.free /\ z = wallet.frozen /\ a = Owed(q) /\ b = Spent(q)
  <2>1. Owed(q) \in Int /\ Spent(q) \in Nat
    BY OwedInt
  <2> QED BY <2>1 DEF ApiTypes
<1>3. f - f = 0 /\ z - z = 0 /\ a - a = 0 /\ b - b = 0 /\ (f - f) + (z - z) = 0
  OBVIOUS
<1>4. /\ wallet'.frozen - wallet.frozen = Owed(handler'[c]) - Owed(handler[c])
      /\ (wallet'.free - wallet.free) + (wallet'.frozen - wallet.frozen) = Spent(handler'[c]) - Spent(handler[c])
  BY <1>1, <1>2, <1>3
<1> QED BY <1>4, CalmFits

LEMMA SameRows == ASSUME UNCHANGED orders
                  PROVE  \A o \in ApiOrders : RowCalm(o) /\ orders'[o].margin = orders[o].margin
BY RowsCalm

LEMMA NextShape ==
  ASSUME ApiTypes, ApiTypes', NEW c \in Calls
  PROVE  /\ handler[c] \in ApiCalls /\ handler'[c] \in ApiCalls
BY DEF ApiTypes

LEMMA PlaceOrderFits ==
  ASSUME ApiTypes, Placed, Fits, NEW c \in Calls, handler[c].pc = "idle", NEW o \in ApiOrders,
         NEW kind \in ApiKinds, NEW effect \in Effects,
         NEW n \in Lots, NEW p \in ApiPrices, PlaceOrder(c, o, kind, effect, n, p)
  PROVE  Fits'
<1>1. /\ ApiTypes' /\ OthersSame(c) /\ handler'[c].pc = (IF effect = "close" THEN "insert" ELSE "freeze")
      /\ handler'[c].kind = kind /\ handler'[c].effect = effect /\ handler'[c].n = n /\ handler'[c].p = p
      /\ handler'[c].read = 0 /\ handler'[c].frozen = Frozen(n, p) /\ n > 0
      /\ UNCHANGED <<orders, wallet, inBook, unsaved, exchanged, taken, triggers>>
  BY PlaceOrderDoes
<1>2. CallFits(c)'
  BY <1>1 DEF CallFits, CreateFits, ModifyFits, Sweeping, SweepPcs, Effects
<1>3. Owed(handler'[c]) = Owed(handler[c]) /\ Spent(handler'[c]) = Spent(handler[c])
  <2>1. PICK q \in ApiCalls, r \in ApiCalls : q = handler[c] /\ r = handler'[c]
    BY <1>1, NextShape
  <2>2. Owed(q) = 0 /\ Spent(q) = 0
    BY <2>1, OwedInt
  <2>3. Owed(r) = 0 /\ Spent(r) = 0
    BY <1>1, <2>1, OwedInt
  <2> QED BY <2>1, <2>2, <2>3
<1> QED BY <1>1, <1>2, <1>3, SameRows, QuietFits

LEMMA FreezeMarginFits ==
  ASSUME ApiTypes, Placed, Fits, NEW c \in Calls, FreezeMargin(c)
  PROVE  Fits'
<1>1. /\ ApiTypes' /\ OthersSame(c) /\ handler[c] \in CreateCalls /\ handler[c].pc = "freeze"
      /\ handler'[c].pc = "insert"
      /\ handler'[c].order = handler[c].order /\ handler'[c].kind = handler[c].kind
      /\ handler'[c].effect = handler[c].effect
      /\ handler'[c].n = handler[c].n /\ handler'[c].p = handler[c].p /\ handler'[c].read = handler[c].read
      /\ handler'[c].frozen = handler[c].frozen
      /\ wallet'.free = wallet.free - handler[c].frozen /\ wallet'.frozen = wallet.frozen + handler[c].frozen
      /\ UNCHANGED <<orders, inBook, unsaved, exchanged, triggers>>
  BY FreezeMarginDoes
<1>2. taken' = taken
  BY FreezeMarginDoes
<1>3. CallFits(c)
  BY DEF Fits, CallsFit
<1>4. handler[c].n > 0 /\ handler[c].frozen = Frozen(handler[c].n, handler[c].p) /\ handler[c].read = 0
      /\ handler[c].effect = "open"
  BY <1>1, <1>3 DEF CallFits, CreateFits, SweepPcs
<1>5. CallFits(c)'
  BY <1>1, <1>4 DEF CallFits, CreateFits, ModifyFits, Sweeping, SweepPcs
<1>6. PICK q \in ApiCalls, r \in ApiCalls : q = handler[c] /\ r = handler'[c]
  BY <1>1, NextShape
<1>7. Owed(q) = 0 /\ Spent(q) = 0 /\ Spent(r) = 0
  BY <1>1, <1>6, OwedInt
<1>8. Owed(r) = q.frozen
  BY <1>1, <1>4, <1>6, OwedInt
<1>9. PICK x \in Nat, f \in Int, z \in Int : x = q.frozen /\ f = wallet.free /\ z = wallet.frozen
  BY <1>1, <1>6 DEF CreateCalls, ApiTypes
<1>10. (z + x) - z = x - 0 /\ ((f - x) - f) + ((z + x) - z) = 0 - 0
  OBVIOUS
<1>11. /\ wallet'.frozen - wallet.frozen = Owed(handler'[c]) - Owed(handler[c])
       /\ (wallet'.free - wallet.free) + (wallet'.frozen - wallet.frozen) = Spent(handler'[c]) - Spent(handler[c])
  BY <1>1, <1>6, <1>7, <1>8, <1>9, <1>10
<1> QED BY <1>1, <1>2, <1>5, <1>11, SameRows, CalmFits

LEMMA AbandonFits ==
  ASSUME ApiTypes, Placed, Fits, NEW c \in Calls, Abandon(c), odd' = {}
  PROVE  Fits'
<1>1. /\ ApiTypes' /\ OthersSame(c) /\ handler'[c].pc = "idle"
      /\ handler[c].effect = "close" /\ handler[c].pc = "insert"
      /\ UNCHANGED <<orders, wallet, inBook, unsaved, exchanged, taken, triggers>>
  BY AbandonDoes
<1>2. PICK q \in ApiCalls, r \in ApiCalls : q = handler[c] /\ r = handler'[c]
  BY <1>1, NextShape
<1>3. Owed(q) = 0 /\ Spent(q) = 0
  BY <1>1, <1>2, OwedInt
<1>4. Owed(r) = 0 /\ Spent(r) = 0
  BY <1>1, <1>2, OwedInt
<1> QED BY <1>1, <1>2, <1>3, <1>4, IdleFits, SameRows, QuietFits

LEMMA LinkTriggerFits ==
  ASSUME ApiTypes, Placed, Fits, NEW c \in Calls, LinkTrigger(c)
  PROVE  Fits'
<1>1. PICK o \in ApiOrders :
         /\ ApiTypes' /\ OthersSame(c) /\ handler[c].pc = "link" /\ o = handler[c].order
         /\ handler'[c].pc = "idle" /\ RowsSame(o) /\ RowKept(o)
         /\ orders'[o].status = orders[o].status /\ orders'[o].margin = orders[o].margin
         /\ UNCHANGED <<wallet, inBook, unsaved, exchanged, taken, triggers>>
  BY LinkTriggerDoes
<1>2. orders[o].kind = "trigger"
  BY <1>1 DEF Placed, CallsPlaced, CallPlaced
<1>3. \A x \in ApiOrders : RowCalm(x) /\ orders'[x].margin = orders[x].margin
  BY <1>1, <1>2 DEF RowCalm, RowKept, RowsSame
<1>4. PICK q \in ApiCalls, r \in ApiCalls : q = handler[c] /\ r = handler'[c]
  BY <1>1, NextShape
<1>5. Owed(q) = 0 /\ Spent(q) = 0
  BY <1>1, <1>4, OwedInt
<1>6. Owed(r) = 0 /\ Spent(r) = 0
  BY <1>1, <1>4, OwedInt
<1> QED BY <1>1, <1>3, <1>4, <1>5, <1>6, IdleFits, QuietFits

LEMMA ShrinkMarginFits ==
  ASSUME ApiTypes, Placed, Fits, NEW c \in Calls, ShrinkMargin(c)
  PROVE  Fits'
<1>1. PICK o \in ApiOrders :
         /\ ApiTypes' /\ OthersSame(c) /\ handler[c].pc = "shrink" /\ o = handler[c].order
         /\ RowsSame(o) /\ RowKept(o) /\ orders'[o].linked = orders[o].linked
         /\ orders'[o].status = orders[o].status /\ handler'[c].pc = "idle"
         /\ UNCHANGED <<wallet, inBook, unsaved, exchanged, taken, triggers>>
  BY ShrinkMarginDoes
<1>2. CallFits(c)
  BY DEF Fits, CallsFit
<1>3. orders[o].kind # "limit" \/ exchanged[o] # 0
  <2>1. orders[o].kind = handler[c].kind /\ orders[o].effect = handler[c].effect /\ (handler[c].kind = "market" \/ exchanged[o] > 0)
    BY <1>1, <1>2 DEF CallFits, CreateFits, SweepPcs
  <2> QED BY <2>1
<1>4. \A x \in ApiOrders : /\ RowCalm(x)
                           /\ orders'[x].margin = orders[x].margin \/ orders[x].kind # "limit" \/ exchanged[x] # 0
  BY <1>1, <1>3 DEF RowCalm, RowKept, RowsSame
<1>5. PICK q \in ApiCalls, r \in ApiCalls : q = handler[c] /\ r = handler'[c]
  BY <1>1, NextShape
<1>6. Owed(q) = 0 /\ Spent(q) = 0
  BY <1>1, <1>5, OwedInt
<1>7. Owed(r) = 0 /\ Spent(r) = 0
  BY <1>1, <1>5, OwedInt
<1>8. PICK f \in Int, z \in Int : f = wallet.free /\ z = wallet.frozen
  BY DEF ApiTypes
<1>9. z - z = 0 - 0 /\ (f - f) + (z - z) = 0 - 0
  OBVIOUS
<1>10. /\ wallet'.frozen - wallet.frozen = Owed(handler'[c]) - Owed(handler[c])
       /\ (wallet'.free - wallet.free) + (wallet'.frozen - wallet.frozen) = Spent(handler'[c]) - Spent(handler[c])
  BY <1>1, <1>5, <1>6, <1>7, <1>8, <1>9
<1> QED BY <1>1, <1>4, <1>10, IdleFits, CalmFits

LEMMA CancelOneFits ==
  ASSUME ApiTypes, Placed, Fits, NEW c \in Calls, handler[c].pc = "idle", NEW o \in ApiOrders,
         NEW strict \in BOOLEAN,
         CancelOne(c, o, strict)
  PROVE  Fits'
<1>1. /\ ApiTypes' /\ OthersSame(c)
      /\ handler'[c].pc = "pull" /\ handler'[c].order = o /\ handler'[c].row = orders[o]
      /\ UNCHANGED <<orders, wallet, inBook, unsaved, exchanged, taken, triggers>>
  BY CancelOneDoes
<1>2. CallFits(c)'
  BY <1>1 DEF CallFits, CreateFits, ModifyFits, Sweeping, SweepPcs
<1>3. PICK q \in ApiCalls, r \in ApiCalls : q = handler[c] /\ r = handler'[c]
  BY <1>1, NextShape
<1>4. Owed(q) = 0 /\ Spent(q) = 0
  BY <1>1, <1>3, OwedInt
<1>5. Owed(r) = 0 /\ Spent(r) = 0
  BY <1>1, <1>3, OwedInt
<1> QED BY <1>1, <1>2, <1>3, <1>4, <1>5, SameRows, QuietFits

LEMMA CancelAllOrdersFits ==
  ASSUME ApiTypes, Placed, Fits, NEW c \in Calls, handler[c].pc = "idle", CancelAllOrders(c)
  PROVE  Fits'
<1>1. PICK S \in SUBSET ApiOrders :
         /\ ApiTypes' /\ OthersSame(c)
         /\ handler'[c].pc = "pullall" /\ DOMAIN handler'[c].rows = S /\ handler'[c].todo = S
         /\ \A o \in S : handler'[c].rows[o] = orders[o]
         /\ UNCHANGED <<orders, wallet, inBook, unsaved, exchanged, taken, triggers>>
  BY CancelAllOrdersDoes
<1>2. CallFits(c)'
  BY <1>1 DEF CallFits, CreateFits, ModifyFits, Sweeping, SweepPcs
<1>3. PICK q \in ApiCalls, r \in ApiCalls : q = handler[c] /\ r = handler'[c]
  BY <1>1, NextShape
<1>4. Owed(q) = 0 /\ Spent(q) = 0
  BY <1>1, <1>3, OwedInt
<1>5. Owed(r) = 0 /\ Spent(r) = 0
  <2>1. Owed(r) = RefundOfAll(r.rows, DOMAIN r.rows \ r.todo) /\ Spent(r) = 0
    BY <1>1, <1>3, OwedInt DEF SweepPcs
  <2>2. DOMAIN r.rows \ r.todo = {}
    BY <1>1, <1>3
  <2>3. RefundOfAll(r.rows, {}) = 0
    BY SumEmpty DEF RefundOfAll
  <2> QED BY <2>1, <2>2, <2>3
<1> QED BY <1>1, <1>2, <1>3, <1>4, <1>5, SameRows, QuietFits

LEMMA MarkCancelledFits ==
  ASSUME ApiTypes, Placed, Fits, NEW c \in Calls, MarkCancelled(c)
  PROVE  Fits'
<1>1. PICK o \in ApiOrders :
         /\ ApiTypes' /\ OthersSame(c) /\ handler[c].pc = "mark" /\ o = handler[c].order
         /\ handler'[c].pc = "refund" /\ handler'[c].row = handler[c].row
         /\ RowsSame(o) /\ RowKept(o) /\ orders'[o].status = "cancelled" /\ orders'[o].linked = orders[o].linked
         /\ orders'[o].margin = orders[o].margin
         /\ UNCHANGED <<wallet, inBook, unsaved, exchanged, taken, triggers>>
  <2>1. UNCHANGED <<wallet, inBook, unsaved, exchanged, taken, triggers>>
    BY DEF MarkCancelled, engine, limits, apiHistory
  <2> QED BY <2>1, MarkCancelledDoes
<1>2. orders[o].status # "none"
  BY <1>1 DEF Placed, CallsPlaced, CallPlaced, AtRow
<1>3. \A x \in ApiOrders : RowCalm(x) /\ orders'[x].margin = orders[x].margin
  BY <1>1, <1>2 DEF RowCalm, RowKept, RowsSame
<1>4. PICK q \in ApiCalls, r \in ApiCalls : q = handler[c] /\ r = handler'[c]
  BY <1>1, NextShape
<1>5. Owed(q) = RefundFor(q.row) /\ Spent(q) = 0
  BY <1>1, <1>4, OwedInt
<1>6. Owed(r) = RefundFor(r.row) /\ Spent(r) = 0
  BY <1>1, <1>4, OwedInt
<1> QED BY <1>1, <1>3, <1>4, <1>5, <1>6, IdleFits, QuietFits

LEMMA MarkAllFits ==
  ASSUME ApiTypes, Placed, Fits, NEW c \in Calls, MarkAll(c)
  PROVE  Fits'
<1>1. /\ ApiTypes' /\ OthersSame(c) /\ handler[c].pc = "pullall" /\ handler[c].todo = {}
      /\ handler'[c].pc = "refundall" /\ handler'[c].rows = handler[c].rows /\ handler'[c].todo = {}
      /\ \A o \in ApiOrders : /\ RowKept(o) /\ orders'[o].margin = orders[o].margin
                              /\ orders'[o].linked = orders[o].linked
                              /\ orders'[o].status = "none" <=> orders[o].status = "none"
      /\ UNCHANGED <<wallet, inBook, unsaved, exchanged, taken, triggers>>
  BY MarkAllDoes
<1>2. \A o \in ApiOrders : RowCalm(o) /\ orders'[o].margin = orders[o].margin
  BY <1>1 DEF RowCalm
<1>3. CallFits(c)'
  <2>1. CallFits(c) /\ Sweeping(c) /\ handler[c] \in SweepCalls
    BY <1>1, CallShape DEF Fits, CallsFit, Sweeping, SweepPcs, ApiTypes
  <2>2. DOMAIN handler[c].rows \in SUBSET ApiOrders
    BY <2>1, SweepShape
  <2>3. ASSUME NEW o \in DOMAIN handler[c].rows PROVE handler[c].rows[o].kind = orders'[o].kind /\ handler[c].rows[o].effect = orders'[o].effect
    BY <1>1, <2>1, <2>2 DEF CallFits, RowKept
  <2> QED BY <1>1, <2>3 DEF CallFits, CreateFits, ModifyFits, Sweeping, SweepPcs
<1>4. PICK q \in ApiCalls, r \in ApiCalls : q = handler[c] /\ r = handler'[c]
  BY <1>1, NextShape
<1>5. Owed(q) = RefundOfAll(q.rows, DOMAIN q.rows \ q.todo) /\ Spent(q) = 0
  BY <1>1, <1>4, OwedInt DEF SweepPcs
<1>6. Owed(r) = RefundOfAll(r.rows, DOMAIN r.rows \ r.todo) /\ Spent(r) = 0
  BY <1>1, <1>4, OwedInt DEF SweepPcs
<1> QED BY <1>1, <1>2, <1>3, <1>4, <1>5, <1>6, QuietFits

\* A refund of what is owed.
LEMMA RefundFits ==
  ASSUME ApiTypes, Placed, ApiTypes', Fits, NEW c \in Calls, OthersSame(c), handler'[c].pc = "idle",
         NEW x \in Nat, x = Owed(handler[c]), MoveMargin(x, x), Spent(handler[c]) = 0,
         UNCHANGED <<orders, inBook, unsaved, exchanged, taken, triggers>>
  PROVE  Fits'
<1>1. x <= wallet.frozen
  BY FrozenCovers DEF Fits
<1>2. wallet'.free = wallet.free + x /\ wallet'.frozen = wallet.frozen - x
  BY <1>1, MarginMoved DEF ApiTypes
<1>3. PICK r \in ApiCalls : r = handler'[c]
  BY NextShape
<1>4. Owed(r) = 0 /\ Spent(r) = 0
  BY <1>3, OwedInt
<1>5. PICK f \in Int, z \in Int : f = wallet.free /\ z = wallet.frozen
  BY DEF ApiTypes
<1>6. (z - x) - z = 0 - x /\ ((f + x) - f) + ((z - x) - z) = 0 - 0
  OBVIOUS
<1>7. /\ wallet'.frozen - wallet.frozen = Owed(handler'[c]) - Owed(handler[c])
      /\ (wallet'.free - wallet.free) + (wallet'.frozen - wallet.frozen) = Spent(handler'[c]) - Spent(handler[c])
  BY <1>2, <1>3, <1>4, <1>5, <1>6
<1>8. CallFits(c)'
  BY IdleFits
<1> QED BY <1>7, <1>8, SameRows, CalmFits

LEMMA RefundOneFits ==
  ASSUME ApiTypes, Placed, Fits, NEW c \in Calls, RefundOne(c)
  PROVE  Fits'
<1>1. PICK x \in Nat :
         /\ ApiTypes' /\ OthersSame(c) /\ handler[c].pc = "refund" /\ handler'[c].pc = "idle"
         /\ x = RefundFor(handler[c].row) /\ MoveMargin(x, x)
         /\ UNCHANGED <<orders, inBook, unsaved, exchanged, taken, triggers>>
  BY RefundOneDoes
<1>2. Owed(handler[c]) = x /\ Spent(handler[c]) = 0
  BY <1>1, NextShape, OwedInt
<1> QED BY <1>1, <1>2, RefundFits

LEMMA RefundAllOrdersFits ==
  ASSUME ApiTypes, Placed, Fits, NEW c \in Calls, RefundAllOrders(c)
  PROVE  Fits'
<1>1. PICK x \in Nat :
         /\ ApiTypes' /\ OthersSame(c) /\ handler[c].pc = "refundall" /\ handler'[c].pc = "idle"
         /\ x = RefundOfAll(handler[c].rows, DOMAIN handler[c].rows) /\ MoveMargin(x, x)
         /\ UNCHANGED <<orders, inBook, unsaved, exchanged, taken, triggers>>
  BY RefundAllOrdersDoes
<1>2. handler[c].todo = {}
  BY <1>1 DEF Placed, CallsPlaced, CallPlaced
<1>3. DOMAIN handler[c].rows \ handler[c].todo = DOMAIN handler[c].rows
  BY <1>2
<1>4. Owed(handler[c]) = x /\ Spent(handler[c]) = 0
  <2>1. PICK q \in ApiCalls : q = handler[c]
    BY <1>1, NextShape
  <2>2. Owed(q) = RefundOfAll(q.rows, DOMAIN q.rows \ q.todo) /\ Spent(q) = 0
    BY <1>1, <2>1, OwedInt DEF SweepPcs
  <2> QED BY <1>1, <1>3, <2>1, <2>2
<1> QED BY <1>1, <1>4, RefundFits

LEMMA ModifyOrderFits ==
  ASSUME ApiTypes, Placed, Fits, NEW c \in Calls, handler[c].pc = "idle", NEW o \in ApiOrders, NEW n \in Lots,
         NEW p \in ApiPrices, ModifyOrder(c, o, n, p)
  PROVE  Fits'
<1>1. PICK left \in Nat, delta \in Int :
         /\ ApiTypes' /\ OthersSame(c) /\ orders[o].status \in {"open", "partially_filled"}
         /\ orders[o].kind = "limit"
         /\ left + orders[o].filled = n /\ n > 0 /\ delta = Frozen(left, p) - OldFreeze(orders[o])
         /\ handler'[c].pc = "repull" /\ handler'[c].order = o /\ handler'[c].n = left
         /\ handler'[c].p = p /\ handler'[c].read = orders[o].filled /\ handler'[c].frozen = Frozen(left, p)
         /\ handler'[c].delta = delta /\ handler'[c].row = orders[o]
         /\ UNCHANGED <<orders, wallet, inBook, unsaved, exchanged, taken, triggers>>
  BY ModifyOrderDoes DEF Placed
<1>2. OrderFits(o)
  BY DEF Fits, OrdersFit
<1>3. CallFits(c)'
  <2>1. exchanged[o] = 0 /\ orders[o].effect = "open" => orders[o].margin = Frozen(orders[o].amount, orders[o].price)
    BY <1>1, <1>2 DEF OrderFits
  <2>2. ModifyFits(handler'[c], orders'[o], exchanged'[o])
    BY <1>1, <2>1 DEF ModifyFits
  <2>3. CreateFits(handler'[c], orders'[o], exchanged'[o])
    BY <1>1 DEF CreateFits
  <2> QED BY <1>1, <2>2, <2>3 DEF CallFits, Sweeping, SweepPcs
<1>4. PICK q \in ApiCalls, r \in ApiCalls : q = handler[c] /\ r = handler'[c]
  BY <1>1, NextShape
<1>5. Owed(q) = 0 /\ Spent(q) = 0
  BY <1>1, <1>4, OwedInt
<1>6. Owed(r) = 0 /\ Spent(r) = 0
  BY <1>1, <1>4, OwedInt
<1> QED BY <1>1, <1>3, <1>4, <1>5, <1>6, SameRows, QuietFits

LEMMA AnswerStatus ==
  ASSUME NEW kind, NEW n \in Nat, NEW k \in Nat, n > 0, k <= n
  PROVE  /\ k = n => Status(kind, n, k) = "filled"
         /\ k # n /\ k > 0 => Status(kind, n, k) = "partially_filled"
         /\ k = 0 => Status(kind, n, k) = (IF kind = "market" THEN "cancelled" ELSE "open")
BY DEF Status

LEMMA RecordAnswerFits ==
  ASSUME ApiTypes, Placed, Fits, NEW c \in Calls, RecordAnswer(c), odd' = {}
  PROVE  Fits'
<1>1. PICK o \in ApiOrders :
         /\ ApiTypes' /\ OthersSame(c) /\ handler[c].pc = "record" /\ o = handler[c].order
         /\ RowsSame(o) /\ RowKept(o) /\ orders'[o].margin = orders[o].margin
         /\ orders'[o].linked = orders[o].linked
         /\ orders'[o].status # "none"
         /\ IF handler[c].effect = "open" /\ Status(handler[c].kind, handler[c].n, handler[c].k) # "open"
            THEN Answered(c, "release") ELSE handler'[c].pc = "idle"
         /\ ~(/\ handler[c].kind = "market" /\ handler[c].effect = "open"
              /\ Status(handler[c].kind, handler[c].n, handler[c].k) = "partially_filled")
         /\ UNCHANGED <<wallet, inBook, unsaved, exchanged, taken, triggers>>
  BY RecordAnswerDoes
<1>2. orders[o].status # "none"
  BY <1>1 DEF Placed, CallsPlaced, CallPlaced, AtRow
<1>3. \A x \in ApiOrders : RowCalm(x) /\ orders'[x].margin = orders[x].margin
  BY <1>1, <1>2 DEF RowCalm, RowKept, RowsSame
<1>4. PICK q \in ApiCalls, r \in ApiCalls : q = handler[c] /\ r = handler'[c]
  BY <1>1, NextShape
<1>5. PICK n \in Nat, k \in Nat, p \in Nat, b \in Nat, kind \in {q.kind}, effect \in {q.effect} :
         n = q.n /\ k = q.k /\ p = q.p /\ b = q.frozen
  BY <1>1, <1>4, AnswerNat
<1>6. /\ n > 0 /\ k <= n /\ b = Frozen(n, p) /\ kind # "trigger" /\ (k > 0 => exchanged[o] > 0)
      /\ orders[o].kind = kind /\ orders[o].effect = effect
  <2>1. CallFits(c)
    BY DEF Fits, CallsFit
  <2> QED BY <1>1, <1>4, <1>5, <2>1 DEF CallFits, CreateFits, SweepPcs
<1>7. kind \in AllKinds /\ effect \in Effects
  BY <1>1, <1>4, <1>5, AnswerShape
<1>8. /\ Owed(q) = (IF effect = "close" THEN 0 ELSE IF kind = "market" THEN b ELSE Frozen(k, p))
      /\ Spent(q) = (IF effect = "close" THEN 0 ELSE Collateral(k, p))
  BY <1>1, <1>4, <1>5, OwedInt
<1>9. CASE effect = "open" /\ Status(kind, n, k) # "open"
  <2>1. Answered(c, "release")
    BY <1>1, <1>4, <1>5, <1>9
  <2>2. /\ r.pc = "release" /\ r.order = o /\ r.kind = kind /\ r.effect = effect /\ r.n = n /\ r.p = p
        /\ r.k = k /\ r.frozen = b
    BY <1>1, <1>4, <1>5, <2>1 DEF Answered
  <2>3. \/ kind = "limit" /\ k > 0
        \/ kind = "market" /\ k \in {0, n}
    BY <1>1, <1>4, <1>5, <1>6, <1>7, <1>9, AnswerStatus DEF AllKinds
  <2>4. CallFits(c)'
    <3>1. orders'[o].kind = kind /\ orders'[o].effect = effect /\ exchanged'[o] = exchanged[o]
      BY <1>1, <1>6 DEF RowKept
    <3>2. CreateFits(r, orders'[o], exchanged'[o])
      BY <1>6, <1>9, <2>2, <2>3, <3>1 DEF CreateFits
    <3>3. ModifyFits(r, orders'[o], exchanged'[o])
      BY <2>2 DEF ModifyFits
    <3> QED BY <1>4, <2>2, <3>2, <3>3 DEF CallFits, Sweeping, SweepPcs
  <2>5. Owed(r) = Owed(q) /\ Spent(r) = Spent(q)
    BY <1>8, <2>2, OwedInt
  <2> QED BY <1>1, <1>3, <1>4, <2>4, <2>5, QuietFits
<1>10. CASE ~(effect = "open" /\ Status(kind, n, k) # "open")
  <2>1. handler'[c].pc = "idle"
    BY <1>1, <1>4, <1>5, <1>10
  <2>2. effect = "close" \/ (kind = "limit" /\ k = 0)
    BY <1>6, <1>7, <1>10, AnswerStatus DEF AllKinds, Effects
  <2>3. Frozen(0, p) = 0 /\ Collateral(0, p) = 0
    BY FrozenZero
  <2>4. Owed(q) = 0 /\ Spent(q) = 0
    BY <1>8, <2>2, <2>3
  <2>5. Owed(r) = 0 /\ Spent(r) = 0
    BY <1>4, <2>1, OwedInt
  <2> QED BY <1>1, <1>3, <1>4, <2>1, <2>4, <2>5, IdleFits, QuietFits
<1> QED BY <1>9, <1>10

LEMMA ReleaseUnusedFits ==
  ASSUME ApiTypes, Placed, Fits, NEW c \in Calls, ReleaseUnused(c), odd' = {}
  PROVE  Fits'
<1>1. handler[c].pc = "release" /\ CallPlaced(c) /\ CallFits(c)
  BY DEF ReleaseUnused, Placed, CallsPlaced, Fits, CallsFit
<1>2. PICK q \in ApiCalls : q = handler[c]
  BY DEF ApiTypes
<1>3. PICK n \in Nat, k \in Nat, p \in Nat, b \in Nat, kind \in {q.kind}, effect \in {q.effect} :
         n = q.n /\ k = q.k /\ p = q.p /\ b = q.frozen
  BY <1>1, <1>2, AnswerNat
<1>4. PICK o \in ApiOrders : o = q.order
  BY <1>1, <1>2, OrderAt DEF SweepPcs
<1>5. /\ n > 0 /\ k <= n /\ b = Frozen(n, p) /\ (k > 0 => exchanged[o] > 0)
      /\ orders[o].kind = kind /\ orders[o].effect = effect /\ effect = "open"
      /\ (kind = "limit" /\ k > 0) \/ (kind = "market" /\ k \in {0, n})
  BY <1>1, <1>2, <1>3, <1>4 DEF CallFits, CreateFits, SweepPcs
<1>6. PICK z \in ApiPrices, x \in Nat :
         /\ ApiTypes' /\ OthersSame(c)
         /\ x = ReleasedBy(q, IF kind = "market" THEN Frozen(n, z) ELSE b)
         /\ handler'[c].pc = "shrink" /\ handler'[c].order = o /\ handler'[c].kind = kind
         /\ handler'[c].effect = effect
         /\ MoveMargin(x, NotNegative(x - Collateral(k, p))) /\ z = p
         /\ UNCHANGED <<orders, inBook, unsaved, exchanged, taken, triggers>>
  <2>1. handler[c].n # 0
    BY <1>2, <1>3, <1>5
  <2> QED BY <1>2, <1>3, <1>4, <2>1, ReleaseUnusedDoes
<1>7. x = (IF Status(kind, n, k) = "partially_filled" THEN (k * b) \div n ELSE b)
  BY <1>3, <1>5, <1>6 DEF ReleasedBy
<1>8. x = Owed(q) /\ Spent(q) = Collateral(k, p) /\ Collateral(k, p) \in Nat /\ Collateral(k, p) <= x
  <2>1. /\ Owed(q) = (IF kind = "market" THEN b ELSE Frozen(k, p)) /\ Spent(q) = Collateral(k, p)
    BY <1>1, <1>2, <1>3, <1>5, OwedInt
  <2>2. Collateral(k, p) \in Nat /\ Collateral(k, p) <= Frozen(k, p) /\ Frozen(k, p) \in Nat
    BY FrozenNat
  <2>3. CASE k = n
    BY <1>5, <1>7, <2>1, <2>2, <2>3, AnswerStatus
  <2>4. CASE k = 0
    <3>1. kind = "market" /\ x = b
      BY <1>5, <1>7, <2>4, AnswerStatus
    <3>2. Collateral(0, p) = 0
      BY FrozenZero
    <3> QED BY <2>1, <2>2, <2>4, <3>1, <3>2
  <2>5. CASE k # n /\ k # 0
    <3>1. kind = "limit" /\ x = (k * b) \div n
      BY <1>5, <1>7, <2>5, AnswerStatus
    <3>2. (k * Frozen(n, p)) \div n = Frozen(k, p)
      BY <1>5, ShareIsExact
    <3> QED BY <1>5, <2>1, <2>2, <3>1, <3>2
  <2> QED BY <2>3, <2>4, <2>5
<1>9. x <= wallet.frozen
  BY <1>2, <1>8, FrozenCovers DEF Fits
<1>10. PICK f \in Int, y \in Int, a \in Nat : f = wallet.free /\ y = wallet.frozen /\ a = Collateral(k, p)
  BY <1>8 DEF ApiTypes
<1>11. NotNegative(x - a) = x - a /\ x - a \in Int
  BY <1>8, <1>10 DEF NotNegative
<1>12. wallet'.free = f + (x - a) /\ wallet'.frozen = y - x
  BY <1>6, <1>9, <1>10, <1>11, MarginMoved DEF ApiTypes
<1>13. PICK r \in ApiCalls : r = handler'[c]
  BY <1>6, NextShape
<1>14. Owed(r) = 0 /\ Spent(r) = 0
  BY <1>6, <1>13, OwedInt
<1>15. (y - x) - y = 0 - x /\ ((f + (x - a)) - f) + ((y - x) - y) = 0 - a
  OBVIOUS
<1>16. /\ wallet'.frozen - wallet.frozen = Owed(handler'[c]) - Owed(handler[c])
       /\ (wallet'.free - wallet.free) + (wallet'.frozen - wallet.frozen) = Spent(handler'[c]) - Spent(handler[c])
  BY <1>2, <1>8, <1>10, <1>12, <1>13, <1>14, <1>15
<1>17. CallFits(c)'
  BY <1>5, <1>6 DEF CallFits, CreateFits, ModifyFits, Sweeping, SweepPcs
<1> QED BY <1>6, <1>16, <1>17, SameRows, CalmFits

LEMMA InsertRowFits ==
  ASSUME ApiTypes, Placed, Fits, NEW c \in Calls, InsertRow(c), odd' = {}
  PROVE  Fits'
<1>2. PICK o \in ApiOrders, p \in ApiPrices :
      /\ ApiTypes' /\ OthersSame(c) /\ handler[c] \in CreateCalls /\ handler[c].pc = "insert"
      /\ o = handler[c].order
      /\ handler'[c].pc = (IF handler[c].kind = "trigger" THEN "trigger" ELSE "submit")
      /\ handler'[c].order = o /\ handler'[c].kind = handler[c].kind /\ handler'[c].effect = handler[c].effect
      /\ handler'[c].n = handler[c].n /\ handler'[c].p = handler[c].p /\ handler'[c].read = handler[c].read
      /\ handler'[c].frozen = handler[c].frozen /\ RowsSame(o)
      /\ orders'[o].status = "pending" /\ orders'[o].kind = handler[c].kind
      /\ orders'[o].effect = handler[c].effect /\ orders'[o].price = p /\ orders'[o].amount = handler[c].n
      /\ orders'[o].margin = (IF handler[c].effect = "close" THEN 0 ELSE handler[c].frozen)
      /\ handler[c].kind = "limit" => p = handler[c].p
      /\ handler[c].kind = "trigger" /\ handler[c].effect = "open" => p = handler[c].p
      /\ UNCHANGED <<wallet, inBook, unsaved, exchanged, taken, triggers>>
  BY ZenonT(60), InsertRowDoes
<1>1. o = handler[c].order
  BY <1>2
<1>3. handler[c].kind \in AllKinds /\ handler[c].effect \in Effects
  BY <1>2 DEF CreateCalls
<1>4. CallFits(c) /\ CallPlaced(c)
  BY DEF Fits, CallsFit, Placed, CallsPlaced
<1>5. /\ handler[c].n > 0 /\ handler[c].frozen = Frozen(handler[c].n, handler[c].p) /\ handler[c].read = 0
      /\ orders[o].status = "none"
  BY <1>1, <1>2, <1>4 DEF CallFits, CreateFits, CallPlaced, SweepPcs
<1>6. /\ inBook[o] = 0 /\ exchanged[o] = 0 /\ triggers[o] = "none" /\ \A y \in ApiPrices : unsaved[o][y] = 0
  BY <1>5 DEF Placed, OrdersPlaced, OrderPlaced
<1>7. OrdersFit'
  <2>1. ASSUME NEW x \in ApiOrders PROVE OrderFits(x)'
    <3>1. CASE x = o
      BY <1>2, <1>3, <1>5, <1>6, <3>1 DEF OrderFits, Effects
    <3>2. CASE x # o
      <4>1. orders'[x] = orders[x] /\ OrderFits(x)
        BY <1>2, <3>2 DEF RowsSame, Fits, OrdersFit
      <4> QED BY <1>2, <4>1 DEF OrderFits
    <3> QED BY <3>1, <3>2
  <2> QED BY <2>1 DEF OrdersFit
<1>8. CallFits(c)'
  BY <1>2, <1>3, <1>5, <1>6 DEF CallFits, CreateFits, ModifyFits, Sweeping, SweepPcs, AllKinds, Effects
<1>9. CallsFit'
  <2>1. ASSUME NEW x \in ApiOrders
        PROVE  RowStands(x, {c}) /\ exchanged'[x] >= exchanged[x] /\ (SameDeal(x) \/ inBook[x] > 0 \/ Carrying(c, x))
    <3>1. exchanged'[x] >= exchanged[x]
      <4>1. PICK y \in Nat : y = exchanged[x] /\ y = exchanged'[x]
        BY <1>2 DEF ApiTypes
      <4> QED BY <4>1
    <3>2. CASE x = o
      BY <1>1, <1>2, <1>5, <3>1, <3>2 DEF Carrying, RowStands
    <3>3. CASE x # o
      BY <1>2, <3>1, <3>3 DEF RowsSame, RowStands, SameDeal
    <3> QED BY <3>2, <3>3
  <2> QED BY <1>2, <1>8, <2>1, CallsFitByCall DEF Fits
<1>10. MarginFits'
  <2>1. PICK q \in ApiCalls, r \in ApiCalls : q = handler[c] /\ r = handler'[c]
    BY <1>2, NextShape
  <2>2. /\ Owed(q) = (IF q.effect = "close" THEN 0 ELSE q.frozen) /\ Spent(q) = 0
    BY <1>2, <2>1, OwedInt
  <2>3. /\ Owed(r) = (IF r.effect = "close" THEN 0 ELSE r.frozen) /\ Spent(r) = 0
    BY <1>2, <2>1, OwedInt
  <2>4. Owed(r) = Owed(q) /\ Spent(r) = Spent(q)
    BY <1>2, <2>1, <2>2, <2>3
  <2>5. MoneySame(o)
    <3>1. PICK y \in Nat, s \in Nat : y = orders[o].price /\ s = orders'[o].price
      BY <1>2 DEF ApiTypes, ApiRows
    <3>2. Needed(o) = 0 /\ Needed(o)' = 0
      BY <1>2, <1>6, <3>1, FrozenZero DEF Needed
    <3>3. Unfired(o) = 0 /\ Unfired(o)' = 0
      BY <1>2, <1>6 DEF Unfired
    <3>4. Traded(o) = 0 /\ Traded(o)' = 0
      <4>1. UnsavedOf(o)' = UnsavedOf(o)
        BY <1>2 DEF UnsavedOf
      <4>2. \A x \in ApiPrices : UnsavedOf(o)[x] = 0
        BY <1>6, PriceNat, FrozenZero DEF UnsavedOf
      <4>3. SumFunctionOnSet(UnsavedOf(o), ApiPrices) = 0
        BY <4>2, SumZero, ApiAssumption
      <4> QED BY <4>1, <4>3 DEF Traded
    <3> QED BY <3>2, <3>3, <3>4 DEF MoneySame
  <2>6. ASSUME NEW x \in ApiOrders PROVE MoneySame(x)
    <3>1. CASE x = o
      BY <2>5, <3>1
    <3>2. CASE x # o
      <4>1. orders'[x] = orders[x]
        BY <1>2, <3>2 DEF RowsSame
      <4> QED BY <1>2, <4>1, RowMoneySame DEF RowKept
    <3> QED BY <3>1, <3>2
  <2>7. PICK f \in Int, z \in Int, t \in Int, a \in Int, b \in Int :
          f = wallet.free /\ z = wallet.frozen /\ t = taken /\ a = Owed(q) /\ b = Spent(q)
    <3>1. Owed(q) \in Int /\ Spent(q) \in Nat
      BY OwedInt
    <3> QED BY <3>1 DEF ApiTypes
  <2>8. z - z = a - a /\ (f - f) + (z - z) + (t - t) = b - b
    OBVIOUS
  <2>9. /\ wallet'.frozen - wallet.frozen = Owed(handler'[c]) - Owed(handler[c])
        /\ (wallet'.free - wallet.free) + (wallet'.frozen - wallet.frozen) + (taken' - taken) =
              Spent(handler'[c]) - Spent(handler[c])
    BY <1>2, <2>1, <2>4, <2>7, <2>8
  <2> QED BY <1>2, <2>6, <2>9, MarginByCall DEF Fits
<1> QED BY <1>7, <1>9, <1>10 DEF Fits

LEMMA CreateTriggerFits ==
  ASSUME ApiTypes, Placed, Fits, NEW c \in Calls, CreateTrigger(c)
  PROVE  Fits'
<1>1. PICK o \in ApiOrders : o = handler[c].order
  BY CreateTriggerDoes DEF CreateCalls
<1>2. /\ ApiTypes' /\ OthersSame(c) /\ handler[c] \in CreateCalls /\ handler[c].pc = "trigger"
      /\ handler'[c].pc = "link" /\ handler'[c].order = o
      /\ triggers'[o] = "active" /\ \A x \in ApiOrders \ {o} : triggers'[x] = triggers[x]
      /\ UNCHANGED <<orders, wallet, inBook, unsaved, exchanged, taken>>
  BY <1>1, CreateTriggerDoes
<1>3. CallFits(c) /\ CallPlaced(c)
  BY DEF Fits, CallsFit, Placed, CallsPlaced
<1>4. /\ handler[c].frozen = Frozen(handler[c].n, handler[c].p)
      /\ orders[o].amount = handler[c].n /\ handler[c].kind = "trigger" /\ orders[o].effect = handler[c].effect
      /\ handler[c].effect = "open" => orders[o].price = handler[c].p
      /\ triggers[o] = "none" /\ handler[c].effect \in Effects
  BY <1>1, <1>2, <1>3 DEF CallFits, CreateFits, CallPlaced, SweepPcs, CreateCalls
<1>5. OrdersFit'
  <2>1. ASSUME NEW x \in ApiOrders PROVE OrderFits(x)'
    BY <1>2 DEF OrderFits, Fits, OrdersFit
  <2> QED BY <2>1 DEF OrdersFit
<1>6. CallsFit'
  BY <1>2, IdleFits, RowsCalm, CallsFitCalmly DEF Fits
<1>7. MarginFits'
  <2>1. PICK q \in ApiCalls, r \in ApiCalls : q = handler[c] /\ r = handler'[c]
    BY <1>2, NextShape
  <2>2. Owed(q) = (IF q.effect = "close" THEN 0 ELSE Frozen(q.n, q.p)) /\ Spent(q) = 0
    BY <1>2, <1>4, <2>1, OwedInt
  <2>3. Owed(r) = 0 /\ Spent(r) = 0
    BY <1>2, <2>1, OwedInt
  <2>4. Traded(o)' = Traded(o) /\ Needed(o)' = Needed(o)
    BY <1>2, UnsavedSame DEF Needed
  <2>5. Unfired(o) = 0 /\ Unfired(o)' = (IF q.effect = "close" THEN 0 ELSE Frozen(q.n, q.p))
    BY <1>2, <1>4, <2>1 DEF Unfired, Effects
  <2>6. ASSUME NEW x \in ApiOrders \ {o} PROVE MoneySame(x)
    BY <1>2, RowMoneySame DEF RowKept
  <2>7. PICK f \in Int, z \in Int, t \in Int, a \in Nat, s \in Nat, n \in Nat :
          f = wallet.free /\ z = wallet.frozen /\ t = taken /\ s = Traded(o) /\ n = Needed(o)
          /\ a = (IF q.effect = "close" THEN 0 ELSE Frozen(q.n, q.p))
    <3>1. q.n \in Nat /\ q.p \in Nat
      BY <1>2, <2>1, PriceNat DEF CreateCalls
    <3>2. Frozen(q.n, q.p) \in Nat
      BY <3>1, FrozenNat
    <3>3. Traded(o) \in Nat /\ Needed(o) \in Nat
      BY HeldNat
    <3>4. wallet.free \in Int /\ wallet.frozen \in Int /\ taken \in Int
      BY DEF ApiTypes
    <3> QED BY <3>2, <3>3, <3>4
  <2>8. /\ z - z = (n - n) + (a - 0) + 2 * (s - s) + (0 - a)
        /\ (f - f) + (z - z) + (t - t) = (s - s) + (0 - 0)
    OBVIOUS
  <2>9. /\ wallet'.frozen - wallet.frozen =
              (Needed(o)' - Needed(o)) + (Unfired(o)' - Unfired(o)) + 2 * (Traded(o)' - Traded(o))
              + (Owed(handler'[c]) - Owed(handler[c]))
        /\ (wallet'.free - wallet.free) + (wallet'.frozen - wallet.frozen) + (taken' - taken) =
              (Traded(o)' - Traded(o)) + (Spent(handler'[c]) - Spent(handler[c]))
    BY <1>2, <2>1, <2>2, <2>3, <2>4, <2>5, <2>7, <2>8
  <2> QED BY <1>2, <2>6, <2>9, MarginByBoth DEF Fits
<1> QED BY <1>5, <1>6, <1>7 DEF Fits

\* The engine takes the order over from the call that carries it.
LEMMA MatchFits ==
  ASSUME ApiTypes, Placed, ApiTypes', Fits, NEW c \in Calls, OthersSame(c), CallFits(c)',
         NEW o \in ApiOrders, NEW kind \in {"limit", "market"}, NEW effect \in Effects, NEW n \in Nat,
         NEW k \in 0 .. n, NEW p \in ApiPrices,
         Match(o, kind, effect, n, k, p), Carrying(c, o), orders[o].kind = kind, orders[o].effect = effect,
         orders[o].amount = n, kind = "limit" /\ effect = "open" => orders[o].price = p,
         exchanged[o] = 0, Spent(handler[c]) = 0,
         Owed(handler[c]) = (IF effect = "close" THEN 0 ELSE Frozen(n, p)),
         Owed(handler'[c]) = (IF effect = "close" THEN 0 ELSE IF kind = "market" THEN Frozen(n, p) ELSE Frozen(k, p)),
         Spent(handler'[c]) = (IF effect = "close" THEN 0 ELSE Collateral(k, p)),
         UNCHANGED <<orders, wallet, triggers>>
  PROVE  Fits'
<1>0. kind \in AllKinds
  BY DEF AllKinds
<1>1. /\ inBook'[o] = (IF kind = "market" THEN inBook[o] ELSE inBook[o] + (n - k))
      /\ exchanged'[o] = exchanged[o] + k
      /\ \A x \in ApiOrders \ {o} : inBook'[x] = inBook[x] /\ exchanged'[x] = exchanged[x]
      /\ taken' = (IF effect = "close" THEN taken ELSE taken + Collateral(k, p))
      /\ UNCHANGED unsaved
  BY <1>0, MatchDoes
<1>2. inBook[o] = 0 /\ k \in Nat /\ n - k \in Nat /\ p \in Nat
  BY PriceNat DEF Placed, OneCarrier
<1>3. /\ inBook'[o] = (IF kind = "market" THEN 0 ELSE n - k) /\ exchanged'[o] = k
  BY <1>1, <1>2
<1>4. OrdersFit'
  <2>1. ASSUME NEW x \in ApiOrders PROVE OrderFits(x)'
    <3>0. OrderFits(x)
      BY DEF Fits, OrdersFit
    <3>1. CASE x = o
      <4>1. \A y \in ApiPrices : unsaved[o][y] \in Nat /\ ~(unsaved[o][y] > 0)
        BY <3>0, <3>1 DEF OrderFits, ApiTypes
      <4> QED BY <1>1, <1>2, <1>3, <3>0, <3>1, <4>1 DEF OrderFits
    <3>2. CASE x # o
      BY <1>1, <3>0, <3>2 DEF OrderFits
    <3> QED BY <3>1, <3>2
  <2> QED BY <2>1 DEF OrdersFit
<1>5. CallsFit'
  <2>1. ASSUME NEW x \in ApiOrders
        PROVE  RowStands(x, {c}) /\ exchanged'[x] >= exchanged[x] /\ (SameDeal(x) \/ inBook[x] > 0 \/ Carrying(c, x))
    <3>1. CASE x = o
      BY <1>2, <1>3, <3>1 DEF RowStands
    <3>2. CASE x # o
      <4>1. PICK y \in Nat : y = exchanged[x] /\ y = exchanged'[x]
        BY <1>1, <3>2 DEF ApiTypes
      <4> QED BY <4>1 DEF RowStands, SameDeal
    <3> QED BY <3>1, <3>2
  <2> QED BY <2>1, CallsFitByCall DEF Fits
<1>6. MarginFits'
  <2>1. Traded(o)' = Traded(o) /\ Unfired(o)' = Unfired(o)
    BY <1>1, UnsavedSame DEF Unfired
  <2>2. ASSUME NEW x \in ApiOrders \ {o} PROVE MoneySame(x)
    BY <1>1, RowMoneySame DEF RowKept
  <2>3. /\ Frozen(0, p) = 0 /\ Frozen(k + (n - k), p) = Frozen(k, p) + Frozen(n - k, p)
        /\ Frozen(k, p) = 2 * Collateral(k, p)
    BY <1>2, FrozenZero, FrozenAdds, FrozenNat
  <2>4. PICK a \in Nat, b \in Nat, e \in Nat : a = Collateral(k, p) /\ b = Frozen(n - k, p) /\ e = Frozen(n, p)
    BY <1>2, FrozenNat
  <2>5. e = 2 * a + b /\ Frozen(k, p) = 2 * a
    <3>1. k + (n - k) = n
      BY <1>2
    <3> QED BY <2>3, <2>4, <3>1
  <2>6. Needed(o) = 0 /\ Needed(o)' = (IF kind = "limit" /\ effect = "open" THEN b ELSE 0)
    <3>1. PICK y \in Nat : y = orders[o].price
      BY DEF ApiTypes, ApiRows
    <3>2. Frozen(0, y) = 0
      BY FrozenZero
    <3> QED BY <1>2, <1>3, <2>3, <2>4, <3>1, <3>2 DEF Needed, Effects
  <2>7. PICK f \in Int, z \in Int, t \in Int, s \in Nat, w \in Nat :
          f = wallet.free /\ z = wallet.frozen /\ t = taken /\ s = Traded(o) /\ w = Unfired(o)
    <3>1. Traded(o) \in Nat /\ Unfired(o) \in Nat
      BY HeldNat
    <3>2. wallet.free \in Int /\ wallet.frozen \in Int /\ taken \in Int
      BY DEF ApiTypes
    <3> QED BY <3>1, <3>2
  <2>8. PICK nn \in Int, a0 \in Int, a1 \in Int, b1 \in Int, u \in Int :
          /\ nn = (IF kind = "limit" /\ effect = "open" THEN b ELSE 0)
          /\ a0 = (IF effect = "close" THEN 0 ELSE e)
          /\ a1 = (IF effect = "close" THEN 0 ELSE IF kind = "market" THEN e ELSE 2 * a)
          /\ b1 = (IF effect = "close" THEN 0 ELSE a) /\ u = (IF effect = "close" THEN t ELSE t + a)
    <3>1. /\ (IF kind = "limit" /\ effect = "open" THEN b ELSE 0) \in Int
          /\ (IF effect = "close" THEN 0 ELSE e) \in Int
          /\ (IF effect = "close" THEN 0 ELSE IF kind = "market" THEN e ELSE 2 * a) \in Int
          /\ (IF effect = "close" THEN 0 ELSE a) \in Int /\ (IF effect = "close" THEN t ELSE t + a) \in Int
      OBVIOUS
    <3> QED BY <3>1, Zenon
  <2>9. /\ z - z = (nn - 0) + (w - w) + 2 * (s - s) + (a1 - a0)
        /\ (f - f) + (z - z) + (u - t) = (s - s) + (b1 - 0)
    BY <2>5, <2>8 DEF Effects
  <2>10. /\ Needed(o)' = nn /\ Owed(handler[c]) = a0 /\ Owed(handler'[c]) = a1 /\ Spent(handler'[c]) = b1
         /\ taken' = u
    BY <1>1, <2>4, <2>5, <2>6, <2>7, <2>8
  <2>11. /\ wallet'.frozen - wallet.frozen =
              (Needed(o)' - Needed(o)) + (Unfired(o)' - Unfired(o)) + 2 * (Traded(o)' - Traded(o))
              + (Owed(handler'[c]) - Owed(handler[c]))
         /\ (wallet'.free - wallet.free) + (wallet'.frozen - wallet.frozen) + (taken' - taken) =
              (Traded(o)' - Traded(o)) + (Spent(handler'[c]) - Spent(handler[c]))
    BY <2>1, <2>6, <2>7, <2>9, <2>10
  <2> QED BY <2>2, <2>11, MarginByBoth DEF Fits
<1> QED BY <1>4, <1>5, <1>6 DEF Fits

LEMMA SubmitOrderFits ==
  ASSUME ApiTypes, Placed, Fits, NEW c \in Calls, SubmitOrder(c)
  PROVE  Fits'
<1>1. PICK o \in ApiOrders, n \in Nat, p \in ApiPrices, kind \in AllKinds, effect \in Effects : \E k \in 0 .. n :
         /\ ApiTypes' /\ OthersSame(c) /\ handler[c] \in CreateCalls /\ handler[c].pc = "submit"
         /\ o = handler[c].order /\ n = handler[c].n /\ p = handler[c].p /\ kind = handler[c].kind
         /\ effect = handler[c].effect
         /\ handler'[c].pc = "record" /\ handler'[c].k = k
         /\ handler'[c].order = o /\ handler'[c].kind = kind /\ handler'[c].effect = effect
         /\ handler'[c].n = n /\ handler'[c].p = p
         /\ handler'[c].frozen = handler[c].frozen
         /\ Match(o, kind, effect, n, k, p)
         /\ UNCHANGED <<orders, wallet, triggers>>
  BY SubmitOrderDoes
<1>2. PICK k \in 0 .. n :
         /\ ApiTypes' /\ OthersSame(c) /\ handler[c] \in CreateCalls /\ handler[c].pc = "submit"
         /\ o = handler[c].order /\ n = handler[c].n /\ p = handler[c].p /\ kind = handler[c].kind
         /\ effect = handler[c].effect
         /\ handler'[c].pc = "record" /\ handler'[c].k = k
         /\ handler'[c].order = o /\ handler'[c].kind = kind /\ handler'[c].effect = effect
         /\ handler'[c].n = n /\ handler'[c].p = p
         /\ handler'[c].frozen = handler[c].frozen
         /\ Match(o, kind, effect, n, k, p)
         /\ UNCHANGED <<orders, wallet, triggers>>
  BY <1>1
<1>3. CallFits(c) /\ CallPlaced(c)
  BY DEF Fits, CallsFit, Placed, CallsPlaced
<1>4. /\ n > 0 /\ handler[c].frozen = Frozen(n, p) /\ orders[o].amount = n
      /\ kind # "market" /\ effect = "open" => orders[o].price = p
      /\ orders[o].kind = kind /\ orders[o].effect = effect /\ exchanged[o] = 0 /\ kind # "trigger"
  BY <1>2, <1>3 DEF CallFits, CreateFits, CallPlaced, SweepPcs
<1>5. kind \in {"limit", "market"} /\ Carrying(c, o) /\ k \in Nat /\ k <= n
  BY <1>2, <1>4 DEF AllKinds, Carrying
<1>6. exchanged'[o] = exchanged[o] + k
  BY <1>2, MatchDoes
<1>7. CallFits(c)'
  <2>1. PICK r, y : r = handler'[c] /\ y = exchanged'[o] /\ y = k
    BY <1>4, <1>5, <1>6
  <2>2. CreateFits(r, orders'[o], y)
    BY <1>2, <1>4, <1>5, <2>1 DEF CreateFits
  <2>3. ModifyFits(r, orders'[o], y)
    BY <1>2, <2>1 DEF ModifyFits
  <2> QED BY <1>2, <2>1, <2>2, <2>3 DEF CallFits, Sweeping, SweepPcs
<1>8. PICK q \in ApiCalls, r \in ApiCalls : q = handler[c] /\ r = handler'[c]
  BY <1>2, NextShape
<1>9. Owed(q) = (IF effect = "close" THEN 0 ELSE Frozen(n, p)) /\ Spent(q) = 0
  BY <1>2, <1>4, <1>8, OwedInt
<1>10. /\ Owed(r) = (IF effect = "close" THEN 0 ELSE IF kind = "market" THEN Frozen(n, p) ELSE Frozen(k, p))
       /\ Spent(r) = (IF effect = "close" THEN 0 ELSE Collateral(k, p))
  BY <1>2, <1>4, <1>8, OwedInt
<1> QED BY <1>2, <1>4, <1>5, <1>7, <1>8, <1>9, <1>10, MatchFits

LEMMA ResubmitOrderFits ==
  ASSUME ApiTypes, Placed, Fits, NEW c \in Calls, ResubmitOrder(c)
  PROVE  Fits'
<1>1. PICK o \in ApiOrders, n \in Nat, p \in ApiPrices :
         /\ ApiTypes' /\ OthersSame(c) /\ handler[c] \in ModifyCalls /\ handler[c].pc = "resubmit"
         /\ o = handler[c].order /\ n = handler[c].n /\ p = handler[c].p
         /\ UNCHANGED <<orders, wallet, triggers>>
         /\ \/ n = 0
            \/ \E k \in 0 .. n :
               /\ n # 0 /\ handler'[c].pc = "record" /\ handler'[c].k = k
               /\ handler'[c].order = o /\ handler'[c].kind = "limit" /\ handler'[c].effect = "open"
               /\ handler'[c].n = n /\ handler'[c].p = p
               /\ handler'[c].frozen = handler[c].frozen
               /\ Match(o, "limit", "open", n, k, p)
  BY ResubmitOrderDoes
<1>2. CallFits(c)
  BY DEF Fits, CallsFit
<1>3. /\ n > 0 /\ handler[c].frozen = Frozen(n, p) /\ orders[o].amount = n /\ orders[o].price = p
      /\ orders[o].kind = "limit" /\ orders[o].effect = "open" /\ exchanged[o] = 0
      /\ handler[c].kind = "limit" /\ handler[c].effect = "open"
  BY <1>1, <1>2 DEF CallFits, ModifyFits, SweepPcs, ModifyCalls
<1>4. PICK k \in 0 .. n :
         /\ handler'[c].pc = "record" /\ handler'[c].k = k
         /\ handler'[c].order = o /\ handler'[c].kind = "limit" /\ handler'[c].effect = "open"
         /\ handler'[c].n = n /\ handler'[c].p = p
         /\ handler'[c].frozen = handler[c].frozen
         /\ Match(o, "limit", "open", n, k, p)
  BY <1>1, <1>3
<1>5. "limit" \in AllKinds /\ "open" \in Effects /\ Carrying(c, o) /\ k \in Nat /\ k <= n
  BY <1>1 DEF AllKinds, Effects, Carrying
<1>6. exchanged'[o] = exchanged[o] + k
  BY <1>4, <1>5, MatchDoes
<1>7. CallFits(c)'
  <2>1. PICK r, y : r = handler'[c] /\ y = exchanged'[o] /\ y = k
    BY <1>3, <1>5, <1>6
  <2>2. CreateFits(r, orders'[o], y)
    BY <1>1, <1>3, <1>4, <1>5, <2>1 DEF CreateFits
  <2>3. ModifyFits(r, orders'[o], y)
    BY <1>4, <2>1 DEF ModifyFits
  <2> QED BY <1>4, <2>1, <2>2, <2>3 DEF CallFits, Sweeping, SweepPcs
<1>8. PICK q \in ApiCalls, r \in ApiCalls : q = handler[c] /\ r = handler'[c]
  BY <1>1, NextShape
<1>9. Owed(q) = Frozen(n, p) /\ Spent(q) = 0
  BY <1>1, <1>3, <1>8, OwedInt
<1>10. Owed(r) = Frozen(k, p) /\ Spent(r) = Collateral(k, p)
  BY <1>4, <1>8, OwedInt
<1> QED BY <1>1, <1>3, <1>4, <1>5, <1>7, <1>8, <1>9, <1>10, MatchFits

\* An order that the engine, or the trigger, gives up to a call that knows what it holds.
LEMMA TakeOutFits ==
  ASSUME ApiTypes, Placed, ApiTypes', Fits, NEW c \in Calls, OthersSame(c), CallFits(c)',
         NEW o \in ApiOrders, NEW linked \in BOOLEAN, NEW r \in ApiRows,
         TakeOut(o, linked), WasFound(o, linked), ~Outdated(o, r), r.kind = orders[o].kind,
         r.effect = orders[o].effect, linked => orders[o].kind = "trigger",
         Owed(handler'[c]) = Owed(handler[c]) + RefundFor(r), Spent(handler'[c]) = Spent(handler[c]),
         UNCHANGED <<orders, wallet>>
  PROVE  Fits'
<1>1. /\ inBook'[o] = (IF linked THEN inBook[o] ELSE 0)
      /\ triggers'[o] = (IF linked /\ triggers[o] = "active" THEN "cancelled" ELSE triggers[o])
      /\ \A x \in ApiOrders \ {o} : inBook'[x] = inBook[x] /\ triggers'[x] = triggers[x]
      /\ UNCHANGED <<unsaved, exchanged, taken>>
  BY TakeOutDoes
<1>2. OrdersFit'
  <2>1. ASSUME NEW x \in ApiOrders PROVE OrderFits(x)'
    <3>1. /\ exchanged'[x] = exchanged[x] /\ unsaved'[x] = unsaved[x] /\ orders'[x].margin = orders[x].margin
      BY <1>1, RowsCalm DEF Fits, OrdersFit
    <3>2. OrderFits(x) /\ RowCalm(x) /\ (inBook'[x] = inBook[x] \/ inBook'[x] = 0)
      BY <1>1, RowsCalm DEF Fits, OrdersFit
    <3> QED BY <3>1, <3>2, OrderFitsSame
  <2> QED BY <2>1 DEF OrdersFit
<1>3. CallsFit'
  BY <1>1, RowsCalm, CallsFitCalmly DEF Fits
<1>4. MarginFits'
  <2>1. PICK a \in Nat, e \in Nat, p \in Nat, b \in Nat :
          a = r.amount /\ e = r.filled /\ p = r.price /\ b = inBook[o]
    BY DEF ApiRows, ApiTypes
  <2>2. exchanged[o] = e /\ orders[o].amount = a /\ orders[o].price = p /\ orders[o].effect = "open"
    BY <2>1 DEF Outdated, ApiRows, Effects
  <2>3. ASSUME NEW x \in ApiOrders \ {o} PROVE MoneySame(x)
    BY <1>1, RowMoneySame DEF RowKept
  <2>4. Traded(o)' = Traded(o)
    BY <1>1, UnsavedSame
  <2>5. PICK f \in Int, z \in Int, t \in Int, s \in Nat, m \in Nat, g \in Int, y \in Nat :
          /\ f = wallet.free /\ z = wallet.frozen /\ t = taken /\ s = Traded(o) /\ m = RefundFor(r)
          /\ g = Owed(handler[c]) /\ y = Spent(handler[c])
    <3>1. Traded(o) \in Nat /\ RefundFor(r) \in Nat
      BY HeldNat, RefundNat
    <3>2. Owed(handler[c]) \in Int /\ Spent(handler[c]) \in Nat
      BY NextShape, OwedInt
    <3>3. wallet.free \in Int /\ wallet.frozen \in Int /\ taken \in Int
      BY DEF ApiTypes
    <3> QED BY <3>1, <3>2, <3>3
  <2>6. PICK n \in Nat, nn \in Nat, w \in Nat, ww \in Nat :
          /\ n = Needed(o) /\ nn = Needed(o)' /\ w = Unfired(o) /\ ww = Unfired(o)'
          /\ n + w = nn + ww + m
    <3>0. HeldAreNat /\ HeldAreNat'
      BY HeldNow, HeldNext
    <3>1. PICK n \in Nat, nn \in Nat, w \in Nat, ww \in Nat :
            n = Needed(o) /\ nn = Needed(o)' /\ w = Unfired(o) /\ ww = Unfired(o)'
      BY <3>0 DEF HeldAreNat
    <3>2. OrderFits(o) /\ OrderPlaced(o)
      BY DEF Fits, OrdersFit, Placed, OrdersPlaced
    <3>3. Frozen(0, p) = 0
      BY FrozenZero
    <3>4. CASE linked
      <4>1. triggers[o] = "active" /\ triggers'[o] = "cancelled" /\ inBook'[o] = inBook[o] /\ e = 0
        BY <1>1, <2>2, <3>2, <3>4 DEF WasFound, OrderPlaced
      <4>2. m = Frozen(a - e, p)
        <5>1. r.filled <= r.amount
          BY <2>1, <4>1
        <5>2. RefundFor(r) = Frozen(r.amount - r.filled, r.price)
          BY <5>1, RefundNat
        <5> QED BY <2>1, <2>5, <5>2
      <4>3. m = Frozen(a, p)
        BY <4>1, <4>2
      <4>4. w = Frozen(a, p) /\ ww = 0 /\ nn = n
        BY <2>2, <3>1, <4>1 DEF Unfired, Needed
      <4> QED BY <3>1, <4>3, <4>4
    <3>5. CASE ~linked
      <4>1. b > 0 /\ triggers'[o] = triggers[o] /\ inBook'[o] = 0 /\ b + e = a
        BY <1>1, <2>1, <2>2, <3>2, <3>5 DEF WasFound, OrderFits
      <4>2. m = Frozen(a - e, p)
        <5>1. r.filled <= r.amount
          BY <2>1, <4>1
        <5>2. RefundFor(r) = Frozen(r.amount - r.filled, r.price)
          BY <5>1, RefundNat
        <5> QED BY <2>1, <2>5, <5>2
      <4>3. m = Frozen(b, p)
        <5>1. a - e = b
          BY <4>1
        <5> QED BY <4>2, <5>1
      <4>4. n = Frozen(b, p) /\ nn = 0 /\ ww = w
        BY <2>1, <2>2, <3>1, <3>3, <4>1 DEF Unfired, Needed
      <4>5. n + w = nn + ww + m
        BY <2>5, <3>1, <4>3, <4>4
      <4> QED BY <3>1, <4>5
    <3> QED BY <3>4, <3>5
  <2>7. /\ z - z = (nn - n) + (ww - w) + 2 * (s - s) + ((g + m) - g)
        /\ (f - f) + (z - z) + (t - t) = (s - s) + (y - y)
    <3>1. /\ n \in Nat /\ nn \in Nat /\ w \in Nat /\ ww \in Nat /\ m \in Nat /\ n + w = nn + ww + m
          /\ f \in Int /\ z \in Int /\ t \in Int /\ s \in Nat /\ g \in Int /\ y \in Nat
      BY <2>5, <2>6
    <3> QED BY ONLY <3>1
  <2>8. /\ wallet'.frozen - wallet.frozen =
              (Needed(o)' - Needed(o)) + (Unfired(o)' - Unfired(o)) + 2 * (Traded(o)' - Traded(o))
              + (Owed(handler'[c]) - Owed(handler[c]))
        /\ (wallet'.free - wallet.free) + (wallet'.frozen - wallet.frozen) + (taken' - taken) =
              (Traded(o)' - Traded(o)) + (Spent(handler'[c]) - Spent(handler[c]))
    BY <1>1, <2>4, <2>5, <2>6, <2>7
  <2> QED BY <2>3, <2>8, MarginByBoth DEF Fits
<1> QED BY <1>2, <1>3, <1>4 DEF Fits

LEMMA PullOneFits ==
  ASSUME ApiTypes, Placed, Fits, NEW c \in Calls, PullOne(c), odd' = {}
  PROVE  Fits'
<1>1. PICK o \in ApiOrders, r \in ApiRows, found \in BOOLEAN :
         /\ ApiTypes' /\ OthersSame(c) /\ handler[c].pc = "pull" /\ o = handler[c].order /\ r = handler[c].row
         /\ found = WasFound(o, r.linked) /\ TakeOut(o, r.linked)
         /\ \/ found /\ ~Outdated(o, r) /\ handler'[c].pc = "mark" /\ handler'[c].row = r
            \/ ~found /\ handler'[c].pc = "idle"
         /\ UNCHANGED <<orders, wallet>>
  BY PullOneDoes
<1>2. /\ r.linked => orders[o].kind = "trigger"
      /\ r.linked \in BOOLEAN /\ r.kind = orders[o].kind /\ r.effect = orders[o].effect
  <2>1. CallPlaced(c) /\ CallFits(c)
    BY DEF Placed, CallsPlaced, Fits, CallsFit
  <2> QED BY <1>1, <2>1 DEF CallPlaced, CallFits, ApiRows
<1>3. PICK q \in ApiCalls, s \in ApiCalls : q = handler[c] /\ s = handler'[c]
  BY <1>1, NextShape
<1>4. Owed(q) = 0 /\ Spent(q) = 0
  BY <1>1, <1>3, OwedInt
<1>5. CASE found /\ ~Outdated(o, r) /\ handler'[c].pc = "mark" /\ handler'[c].row = r
  <2>1. Owed(s) = RefundFor(r) /\ Spent(s) = 0
    BY <1>3, <1>5, OwedInt
  <2>2. RefundFor(r) \in Nat
    BY RefundNat
  <2>3. Owed(handler'[c]) = Owed(handler[c]) + RefundFor(r) /\ Spent(handler'[c]) = Spent(handler[c])
    BY <1>3, <1>4, <2>1, <2>2
  <2>4. CallFits(c)'
    BY <1>5, IdleFits
  <2>5. WasFound(o, r.linked)
    BY <1>1, <1>5
  <2> QED BY <1>1, <1>2, <1>5, <2>3, <2>4, <2>5, TakeOutFits
<1>6. CASE ~found /\ handler'[c].pc = "idle"
  <2>1. Owed(s) = 0 /\ Spent(s) = 0
    BY <1>3, <1>6, OwedInt
  <2>2. /\ inBook'[o] = (IF r.linked THEN inBook[o] ELSE 0)
        /\ triggers'[o] = (IF r.linked /\ triggers[o] = "active" THEN "cancelled" ELSE triggers[o])
        /\ \A x \in ApiOrders \ {o} : inBook'[x] = inBook[x] /\ triggers'[x] = triggers[x]
        /\ UNCHANGED <<unsaved, exchanged, taken>>
    BY <1>1, <1>2, TakeOutDoes
  <2>3. IF r.linked THEN triggers[o] # "active" ELSE ~(inBook[o] > 0)
    BY <1>1, <1>6 DEF WasFound
  <2>4. inBook \in [ApiOrders -> Nat] /\ inBook' \in [ApiOrders -> Nat]
    BY <1>1 DEF ApiTypes
  <2>5. \A x \in ApiOrders : inBook'[x] = inBook[x] /\ triggers'[x] = triggers[x]
    BY <1>2, <2>2, <2>3, <2>4
  <2>6. inBook' = inBook
    BY <2>4, <2>5
  <2>7. triggers' = triggers
    BY <1>1, <2>5 DEF ApiTypes
  <2> QED BY <1>1, <1>3, <1>4, <1>6, <2>1, <2>2, <2>6, <2>7, IdleFits, SameRows, QuietFits
<1> QED BY <1>1, <1>5, <1>6

LEMMA RefundOfOneMore ==
  ASSUME NEW q \in SweepCalls, NEW S \in SUBSET DOMAIN q.rows, NEW o \in DOMAIN q.rows, o \notin S
  PROVE  RefundOfAll(q.rows, S \cup {o}) = RefundFor(q.rows[o]) + RefundOfAll(q.rows, S)
<1> DEFINE T == S \cup {o}
           g == [x \in T |-> RefundFor(q.rows[x])]
           h == [x \in S |-> RefundFor(q.rows[x])]
<1>1. /\ RefundOfAll(q.rows, T) = SumFunctionOnSet(g, T) /\ RefundOfAll(q.rows, S) = SumFunctionOnSet(h, S)
      /\ T \subseteq DOMAIN q.rows /\ S \subseteq T /\ o \in T
      /\ \A x \in T : g[x] = RefundFor(q.rows[x])
      /\ \A x \in S : h[x] = g[x]
  BY DEF RefundOfAll
<1>2. IsFiniteSet(S)
  BY RefundOfAllNat
<1>3. ASSUME NEW x \in T PROVE g[x] \in Int
  <2>1. q.rows[x] \in ApiRows
    BY <1>1, SweepShape
  <2>2. RefundFor(q.rows[x]) \in Nat
    BY <2>1, RefundNat
  <2> QED BY <1>1, <2>2
<1>4. T = S \cup {o} /\ g[o] = RefundFor(q.rows[o])
  BY <1>1
<1> HIDE DEF T, g, h
<1>5. SumFunctionOnSet(g, S \cup {o}) = g[o] + SumFunctionOnSet(g, S)
  BY <1>2, <1>3, <1>4, SumAdd
<1>6. SumFunctionOnSet(h, S) = SumFunctionOnSet(g, S)
  <2>1. \A x \in S : g[x] \in Int /\ h[x] = g[x]
    BY <1>1, <1>3
  <2> QED BY <1>2, <2>1, SumSame
<1> QED BY <1>1, <1>4, <1>5, <1>6

LEMMA PullNextFits ==
  ASSUME ApiTypes, Placed, Fits, NEW c \in Calls, PullNext(c), odd' = {}
  PROVE  Fits'
<1>1. handler[c].pc = "pullall" /\ Sweeping(c) /\ CallPlaced(c) /\ CallFits(c)
  BY DEF PullNext, Sweeping, SweepPcs, Placed, CallsPlaced, Fits, CallsFit
<1>2. handler[c].todo \subseteq DOMAIN handler[c].rows
  BY <1>1 DEF CallPlaced
<1>3. PICK o \in ApiOrders, r \in ApiRows, found \in BOOLEAN :
         /\ ApiTypes' /\ OthersSame(c) /\ r = handler[c].rows[o] /\ o \in DOMAIN handler[c].rows
         /\ o \in handler[c].todo
         /\ found = WasFound(o, r.linked) /\ TakeOut(o, r.linked)
         /\ handler'[c].pc = "pullall" /\ handler'[c].rows = handler[c].rows
         /\ handler'[c].todo = handler[c].todo \ {o}
         /\ found /\ ~Outdated(o, r)
         /\ UNCHANGED <<orders, wallet>>
  BY <1>2, PullNextDoes
<1>4. (r.linked => orders[o].kind = "trigger") /\ r.linked \in BOOLEAN /\ r.kind = orders[o].kind /\ r.effect = orders[o].effect
  BY <1>1, <1>3 DEF CallPlaced, CallFits, ApiRows
<1>5. PICK q \in ApiCalls, s \in ApiCalls : q = handler[c] /\ s = handler'[c]
  BY <1>3, NextShape
<1>6. q \in SweepCalls
  BY <1>1, <1>5, CallShape DEF SweepPcs
<1>7. PICK S : S = DOMAIN q.rows \ q.todo
  OBVIOUS
<1>8. /\ S \in SUBSET DOMAIN q.rows /\ o \in DOMAIN q.rows /\ o \notin S /\ DOMAIN s.rows \ s.todo = S \cup {o}
      /\ s.rows = q.rows
  BY <1>3, <1>5, <1>7
<1>9. Owed(q) = RefundOfAll(q.rows, S) /\ Spent(q) = 0
  BY <1>1, <1>5, <1>7, OwedInt DEF SweepPcs
<1>10. Owed(s) = RefundOfAll(q.rows, S \cup {o}) /\ Spent(s) = 0
  BY <1>3, <1>5, <1>8, OwedInt DEF SweepPcs
<1>11. RefundOfAll(q.rows, S \cup {o}) = RefundFor(r) + RefundOfAll(q.rows, S)
  BY <1>3, <1>5, <1>6, <1>8, RefundOfOneMore
<1>12. RefundFor(r) \in Nat /\ RefundOfAll(q.rows, S) \in Nat
  <2>1. RefundOfAll(q.rows, S) \in Nat
    BY <1>6, <1>8, RefundOfAllNat
  <2>2. RefundFor(r) \in Nat
    BY RefundNat
  <2> QED BY <2>1, <2>2
<1>13. Owed(handler'[c]) = Owed(handler[c]) + RefundFor(r) /\ Spent(handler'[c]) = Spent(handler[c])
  BY <1>5, <1>9, <1>10, <1>11, <1>12
<1>14. CallFits(c)'
  BY <1>1, <1>3 DEF CallFits, CreateFits, ModifyFits, Sweeping, SweepPcs
<1>15. WasFound(o, r.linked)
  BY <1>3
<1> QED BY <1>3, <1>4, <1>13, <1>14, <1>15, TakeOutFits

LEMMA RepullFits ==
  ASSUME ApiTypes, Placed, Fits, NEW c \in Calls, Repull(c), odd' = {}
  PROVE  Fits'
<1>1. PICK o \in ApiOrders :
         /\ ApiTypes' /\ OthersSame(c) /\ handler[c].pc = "repull" /\ o = handler[c].order
         /\ handler[c] \in ModifyCalls /\ TakeOut(o, FALSE)
         /\ IF inBook[o] > 0
            THEN /\ handler'[c].pc = "reshape" /\ handler'[c].order = o /\ handler'[c].kind = handler[c].kind
                 /\ handler'[c].effect = handler[c].effect
                 /\ handler'[c].n = handler[c].n /\ handler'[c].p = handler[c].p
                 /\ handler'[c].read = handler[c].read
                 /\ handler'[c].frozen = handler[c].frozen /\ handler'[c].delta = handler[c].delta
            ELSE handler'[c].pc = "idle"
         /\ ~(inBook[o] > 0 /\ (Outdated(o, handler[c].row) \/ handler[c].read > 0))
         /\ UNCHANGED <<orders, wallet>>
  BY RepullDoes
<1>2. PICK q \in ApiCalls, s \in ApiCalls : q = handler[c] /\ s = handler'[c]
  BY <1>1, NextShape
<1>3. PICK r \in ApiRows, n \in Nat, read \in Nat, b \in Nat, delta \in Int, p \in Nat :
         r = q.row /\ n = q.n /\ read = q.read /\ b = q.frozen /\ delta = q.delta /\ p = q.p
  BY <1>1, <1>2, PriceNat DEF ModifyCalls
<1>4. /\ n + read > 0 /\ read = r.filled /\ b = Frozen(n, p) /\ delta = b - OldFreeze(r)
      /\ r.kind = orders[o].kind /\ r.effect = orders[o].effect /\ orders[o].kind = "limit"
      /\ exchanged[o] = 0 /\ orders[o].effect = "open" => r.margin = Frozen(r.amount, r.price)
  <2>1. CallFits(c)
    BY DEF Fits, CallsFit
  <2>2. ModifyFits(q, orders[o], exchanged[o]) /\ q.pc = "repull"
    BY <1>1, <1>2, <2>1 DEF CallFits, SweepPcs
  <2> QED BY <1>3, <2>2 DEF ModifyFits
<1>5. Owed(q) = 0 /\ Spent(q) = 0
  BY <1>1, <1>2, OwedInt
<1>6. inBook[o] \in Nat
  BY DEF ApiTypes
<1>7. CASE inBook[o] > 0
  <2>1. ~Outdated(o, r) /\ read = 0
    BY <1>1, <1>2, <1>3, <1>7
  <2>2. /\ exchanged[o] = 0 /\ orders[o].amount = r.amount /\ orders[o].price = r.price
        /\ orders[o].kind = "limit" /\ orders[o].effect = "open"
        /\ r.filled = 0 /\ r.margin = Frozen(r.amount, r.price)
    <3>1. r.effect \in Effects
      BY DEF ApiRows
    <3> QED BY <1>4, <2>1, <3>1 DEF Outdated, Effects
  <2>3. r.amount # 0 /\ r.amount \in Nat /\ r.price \in Nat
    <3>1. OrderFits(o)
      BY DEF Fits, OrdersFit
    <3> QED BY <1>6, <1>7, <2>2, <3>1 DEF OrderFits, ApiRows
  <2>4. OldFreeze(r) = Frozen(r.amount, r.price)
    BY <2>2, <2>3, RefundNat
  <2>5. RefundFor(r) = Frozen(r.amount, r.price)
    <3>1. r.filled <= r.amount
      BY <2>2, <2>3
    <3>2. RefundFor(r) = Frozen(r.amount - r.filled, r.price)
      BY <3>1, RefundNat
    <3>3. r.amount - r.filled = r.amount
      BY <2>2, <2>3
    <3> QED BY <3>2, <3>3
  <2>6. PICK m \in Nat : m = Frozen(r.amount, r.price)
    BY <2>3, FrozenNat
  <2>7. b - delta = m
    BY <1>4, <2>4, <2>6
  <2>8. Owed(s) = m /\ Spent(s) = 0
    BY <1>1, <1>2, <1>3, <1>7, <2>7, OwedInt
  <2>9. CallFits(c)'
    <3>1. ModifyFits(s, orders'[o], exchanged'[o])
      <4>1. exchanged' = exchanged
        BY <1>1 DEF TakeOut
      <4>2. /\ s.pc = "reshape" /\ s.n = n /\ s.read = read /\ s.frozen = b /\ s.delta = delta /\ s.p = p
        BY <1>1, <1>2, <1>3, <1>7
      <4>3. n > 0
        BY <1>4, <2>1
      <4>4. orders'[o].effect = "open" /\ orders'[o].kind = "limit"
        BY <1>1, <1>4, <2>2
      <4> QED BY <1>1, <1>4, <2>1, <2>2, <2>6, <2>7, <4>1, <4>2, <4>3, <4>4 DEF ModifyFits
    <3>2. CreateFits(s, orders'[o], exchanged'[o])
      BY <1>1, <1>2, <1>7 DEF CreateFits
    <3> QED BY <1>1, <1>2, <1>7, <3>1, <3>2 DEF CallFits, Sweeping, SweepPcs
  <2>10. Owed(handler'[c]) = Owed(handler[c]) + RefundFor(r) /\ Spent(handler'[c]) = Spent(handler[c])
    BY <1>2, <1>5, <2>5, <2>6, <2>8
  <2>11. WasFound(o, FALSE) /\ FALSE \in BOOLEAN
    BY <1>7 DEF WasFound
  <2> QED BY <1>1, <1>4, <2>1, <2>9, <2>10, <2>11, TakeOutFits
<1>8. CASE ~(inBook[o] > 0)
  <2>1. Owed(s) = 0 /\ Spent(s) = 0
    BY <1>1, <1>2, <1>8, OwedInt
  <2>2. /\ inBook'[o] = 0 /\ triggers'[o] = triggers[o]
        /\ \A x \in ApiOrders \ {o} : inBook'[x] = inBook[x] /\ triggers'[x] = triggers[x]
        /\ UNCHANGED <<unsaved, exchanged, taken>>
    BY <1>1, TakeOutDoes
  <2>3. \A x \in ApiOrders : inBook'[x] = inBook[x] /\ triggers'[x] = triggers[x]
    BY <1>6, <1>8, <2>2
  <2>4. inBook' = inBook
    BY <1>1, <2>3 DEF ApiTypes
  <2>5. triggers' = triggers
    BY <1>1, <2>3 DEF ApiTypes
  <2> QED BY <1>1, <1>2, <1>5, <1>8, <2>1, <2>2, <2>4, <2>5, IdleFits, SameRows, QuietFits
<1> QED BY <1>7, <1>8

LEMMA ReshapeFits ==
  ASSUME ApiTypes, Placed, Fits, NEW c \in Calls, Reshape(c)
  PROVE  Fits'
<1>1. PICK o \in ApiOrders, amount \in Nat, delta \in Int :
         /\ ApiTypes' /\ OthersSame(c) /\ handler[c] \in ModifyCalls /\ handler[c].pc = "reshape"
         /\ o = handler[c].order /\ amount = handler[c].read + handler[c].n /\ delta = handler[c].delta
         /\ handler'[c].pc = "resubmit" /\ handler'[c].order = o /\ handler'[c].kind = handler[c].kind
         /\ handler'[c].effect = handler[c].effect
         /\ handler'[c].n = handler[c].n /\ handler'[c].p = handler[c].p /\ handler'[c].read = handler[c].read
         /\ handler'[c].frozen = handler[c].frozen
         /\ RowsSame(o) /\ orders'[o].amount = amount /\ orders'[o].price = handler[c].p
         /\ orders'[o].margin = handler[c].frozen /\ orders'[o].status = orders[o].status
         /\ orders'[o].kind = orders[o].kind /\ orders'[o].effect = orders[o].effect
         /\ wallet'.free = wallet.free - delta
         /\ wallet.frozen + delta >= 0 => wallet'.frozen = wallet.frozen + delta
         /\ UNCHANGED <<inBook, unsaved, exchanged, taken, triggers>>
  BY ReshapeDoes
<1>2. PICK q \in ApiCalls, s \in ApiCalls : q = handler[c] /\ s = handler'[c]
  BY <1>1, NextShape
<1>3. PICK n \in Nat, b \in Nat, p \in Nat : n = q.n /\ b = q.frozen /\ p = q.p
                                              /\ q.kind = "limit" /\ q.effect = "open"
  BY <1>1, <1>2, PriceNat DEF ModifyCalls
<1>4. /\ n > 0 /\ q.read = 0 /\ exchanged[o] = 0 /\ b = Frozen(n, p)
      /\ orders[o].kind = "limit" /\ orders[o].effect = "open" /\ b - delta \in Nat
  <2>1. CallFits(c)
    BY DEF Fits, CallsFit
  <2>2. ModifyFits(q, orders[o], exchanged[o]) /\ q.pc = "reshape"
    BY <1>1, <1>2, <2>1 DEF CallFits, SweepPcs
  <2> QED BY <1>1, <1>2, <1>3, <2>2 DEF ModifyFits
<1>5. amount = n
  BY <1>1, <1>2, <1>3, <1>4
<1>6. Carrying(c, o) /\ inBook[o] = 0 /\ OrderPlaced(o) /\ triggers[o] = "none"
  <2>1. Carrying(c, o)
    BY <1>1 DEF Carrying
  <2>2. inBook[o] = 0 /\ OrderPlaced(o)
    BY <2>1 DEF Placed, OneCarrier, OrdersPlaced
  <2> QED BY <1>4, <2>1, <2>2 DEF OrderPlaced
<1>7. OrdersFit'
  <2>1. ASSUME NEW x \in ApiOrders PROVE OrderFits(x)'
    <3>1. OrderFits(x)
      BY DEF Fits, OrdersFit
    <3>2. CASE x = o
      <4>1. orders'[o].margin = Frozen(orders'[o].amount, orders'[o].price)
        BY <1>1, <1>2, <1>3, <1>4, <1>5
      <4> QED BY <1>1, <1>6, <3>1, <3>2, <4>1 DEF OrderFits
    <3>3. CASE x # o
      <4>1. orders'[x] = orders[x]
        BY <1>1, <3>3 DEF RowsSame
      <4> QED BY <1>1, <3>1, <4>1 DEF OrderFits
    <3> QED BY <3>2, <3>3
  <2> QED BY <2>1 DEF OrdersFit
<1>8. CallFits(c)'
  <2>1. ModifyFits(s, orders'[o], exchanged'[o])
    BY <1>1, <1>2, <1>3, <1>4, <1>5 DEF ModifyFits
  <2>2. CreateFits(s, orders'[o], exchanged'[o])
    BY <1>1, <1>2 DEF CreateFits
  <2> QED BY <1>1, <1>2, <2>1, <2>2 DEF CallFits, Sweeping, SweepPcs
<1>9. CallsFit'
  <2>1. ASSUME NEW x \in ApiOrders
        PROVE  RowStands(x, {c}) /\ exchanged'[x] >= exchanged[x] /\ (SameDeal(x) \/ inBook[x] > 0 \/ Carrying(c, x))
    <3>1. exchanged'[x] >= exchanged[x]
      <4>1. PICK y \in Nat : y = exchanged[x] /\ y = exchanged'[x]
        BY <1>1 DEF ApiTypes
      <4> QED BY <4>1
    <3>2. CASE x = o
      BY <1>1, <1>6, <3>1, <3>2 DEF RowStands
    <3>3. CASE x # o
      <4>1. orders'[x] = orders[x]
        BY <1>1, <3>3 DEF RowsSame
      <4> QED BY <1>1, <3>1, <4>1 DEF RowStands, SameDeal
    <3> QED BY <3>2, <3>3
  <2> QED BY <1>1, <1>8, <2>1, CallsFitByCall DEF Fits
<1>10. MarginFits'
  <2>1. Owed(q) = b - delta /\ Spent(q) = 0
    BY <1>1, <1>2, <1>3, OwedInt
  <2>2. Owed(s) = b /\ Spent(s) = 0
    BY <1>1, <1>2, <1>3, OwedInt
  <2>3. PICK f \in Int, z \in Int, t \in Int : f = wallet.free /\ z = wallet.frozen /\ t = taken
    BY DEF ApiTypes
  <2>4. b - delta <= z
    BY <1>2, <2>1, <2>3, FrozenCovers DEF Fits
  <2>5. z + delta >= 0
    BY <2>4
  <2>6. wallet'.frozen = z + delta /\ wallet'.free = f - delta /\ taken' = t
    BY <1>1, <2>3, <2>5
  <2>7. ASSUME NEW x \in ApiOrders PROVE MoneySame(x)
    <3>1. CASE x = o
      <4>1. PICK u \in Nat, v \in Nat : u = orders[o].price /\ v = orders'[o].price
        BY <1>1 DEF ApiTypes, ApiRows
      <4>2. Needed(o) = 0 /\ Needed(o)' = 0
        BY <1>1, <1>6, <4>1, FrozenZero DEF Needed
      <4>3. Unfired(o) = 0 /\ Unfired(o)' = 0
        BY <1>1, <1>6 DEF Unfired
      <4>4. Traded(o)' = Traded(o)
        BY <1>1, UnsavedSame
      <4> QED BY <3>1, <4>2, <4>3, <4>4 DEF MoneySame
    <3>2. CASE x # o
      <4>1. orders'[x] = orders[x]
        BY <1>1, <3>2 DEF RowsSame
      <4> QED BY <1>1, <4>1, RowMoneySame DEF RowKept
    <3> QED BY <3>1, <3>2
  <2>8. (z + delta) - z = b - (b - delta) /\ ((f - delta) - f) + ((z + delta) - z) + (t - t) = 0 - 0
    OBVIOUS
  <2>9. /\ wallet'.frozen - wallet.frozen = Owed(handler'[c]) - Owed(handler[c])
        /\ (wallet'.free - wallet.free) + (wallet'.frozen - wallet.frozen) + (taken' - taken) =
              Spent(handler'[c]) - Spent(handler[c])
    BY <1>2, <2>1, <2>2, <2>3, <2>6, <2>8
  <2> QED BY <1>1, <2>7, <2>9, MarginByCall DEF Fits
<1> QED BY <1>7, <1>9, <1>10 DEF Fits

-----------------------------------------------------------------------------
(* Trades of resting orders *)

LEMMA TradedMoves ==
  ASSUME ApiTypes, ApiTypes', NEW o \in ApiOrders, NEW p \in ApiPrices,
         orders'[o].kind = orders[o].kind /\ orders'[o].effect = orders[o].effect, orders[o].effect = "open",
         \A x \in ApiPrices \ {p} : unsaved'[o][x] = unsaved[o][x]
  PROVE  Traded(o)' = Traded(o) + Collateral(unsaved'[o][p], p) - Collateral(unsaved[o][p], p)
<1> DEFINE g == [x \in ApiPrices |-> Collateral(unsaved[o][x], x)]
           h == [x \in ApiPrices |-> Collateral(unsaved'[o][x], x)]
<1>1. Traded(o) = SumFunctionOnSet(g, ApiPrices) /\ Traded(o)' = SumFunctionOnSet(h, ApiPrices)
  BY DEF Traded, UnsavedOf
<1>2. \A x \in ApiPrices : g[x] = Collateral(unsaved[o][x], x) /\ h[x] = Collateral(unsaved'[o][x], x)
  OBVIOUS
<1> HIDE DEF g, h
<1>3. ASSUME NEW x \in ApiPrices PROVE g[x] \in Int /\ h[x] \in Int
  <2>1. PICK a \in Nat, b \in Nat : a = unsaved[o][x] /\ b = unsaved'[o][x]
    BY DEF ApiTypes
  <2>2. Collateral(a, x) \in Nat /\ Collateral(b, x) \in Nat
    BY PriceNat, FrozenNat
  <2> QED BY <1>2, <2>1, <2>2
<1>4. \A x \in ApiPrices \ {p} : h[x] = g[x]
  BY <1>2
<1>5. SumFunctionOnSet(h, ApiPrices) = SumFunctionOnSet(g, ApiPrices) + h[p] - g[p]
  <2>1. IsFiniteSet(ApiPrices)
    BY ApiAssumption
  <2>2. \A x \in ApiPrices : g[x] \in Int /\ h[x] \in Int
    BY <1>3
  <2> QED BY <1>4, <2>1, <2>2, SumChange
<1> QED BY <1>1, <1>2, <1>5

LEMMA FrozenOfOne ==
  ASSUME NEW p \in Nat
  PROVE  Collateral(1, p) = p /\ Frozen(1, p) = 2 * p
BY DEF Collateral, Frozen

LEMMA HitFits ==
  ASSUME ApiTypes, Placed, Fits, NEW o \in ApiOrders, Hit(o)
  PROVE  Fits'
<1>0. OrderPlaced(o) /\ OrderFits(o) /\ inBook[o] > 0
  BY DEF Placed, OrdersPlaced, Fits, OrdersFit, Hit
<1>1. orders[o].price \in ApiPrices /\ orders[o].status # "none"
  BY <1>0 DEF OrderPlaced
<1>2. PICK p \in ApiPrices :
         /\ ApiTypes' /\ inBook[o] > 0 /\ p = orders[o].price
         /\ inBook'[o] = inBook[o] - 1 /\ exchanged'[o] = exchanged[o] + 1
         /\ unsaved'[o][p] = unsaved[o][p] + 1
         /\ \A x \in ApiPrices \ {p} : unsaved'[o][x] = unsaved[o][x]
         /\ \A x \in ApiOrders \ {o} : inBook'[x] = inBook[x] /\ exchanged'[x] = exchanged[x] /\ unsaved'[x] = unsaved[x]
         /\ taken' = (IF orders[o].effect = "close" THEN taken ELSE taken + Collateral(1, p))
         /\ UNCHANGED <<orders, wallet, handler, triggers>>
  BY <1>1, HitDoes
<1>3. PICK b \in Nat, e \in Nat, u \in Nat, r \in Nat :
         /\ b = inBook'[o] /\ e = exchanged[o] /\ u = unsaved[o][p] /\ r = p
         /\ inBook[o] = b + 1 /\ exchanged'[o] = e + 1 /\ unsaved'[o][p] = u + 1
  <2>1. PICK b \in Nat, a \in Nat, e \in Nat, u \in Nat, r \in Nat :
           b = inBook'[o] /\ a = inBook[o] /\ e = exchanged[o] /\ u = unsaved[o][p] /\ r = p
    BY SMTT(30), <1>2, PriceNat DEF ApiTypes
  <2> QED BY <1>2, <2>1
<1>4. \A x \in ApiOrders : RowCalm(x)
  BY <1>2, RowsCalm
<1>5. OrdersFit'
  <2>1. ASSUME NEW x \in ApiOrders PROVE OrderFits(x)'
    <3>1. CASE x = o
      <4>1. inBook[o] + exchanged[o] = orders[o].amount
        BY <1>0 DEF OrderFits
      <4>2. inBook'[o] + exchanged'[o] = orders'[o].amount /\ exchanged'[o] > 0
        BY <1>2, <1>3, <4>1
      <4> QED BY <3>1, <4>2 DEF OrderFits
    <3>2. CASE x # o
      <4>1. OrderFits(x) /\ RowCalm(x) /\ inBook'[x] = inBook[x] /\ exchanged'[x] = exchanged[x]
            /\ unsaved'[x] = unsaved[x] /\ orders'[x].margin = orders[x].margin
        BY <1>2, <1>4, <3>2 DEF Fits, OrdersFit
      <4> QED BY <4>1, OrderFitsSame
    <3> QED BY <3>1, <3>2
  <2> QED BY <2>1 DEF OrdersFit
<1>6. CallsFit'
  <2>1. ASSUME NEW x \in ApiOrders
        PROVE  exchanged'[x] >= exchanged[x] /\ (exchanged'[x] = exchanged[x] \/ inBook[x] > 0)
    <3>1. PICK y \in Nat, z \in Nat : y = exchanged[x] /\ z = exchanged'[x]
      BY <1>2 DEF ApiTypes
    <3>2. CASE x = o
      <4>1. y = e /\ z = e + 1
        BY <1>3, <3>1, <3>2
      <4> QED BY <1>0, <3>1, <3>2, <4>1
    <3>3. CASE x # o
      BY <1>2, <3>1, <3>3
    <3> QED BY <3>2, <3>3
  <2> QED BY <1>2, <1>4, <2>1, CallsFitAside DEF Fits
<1>7. MarginFits'
  <2>1. \A x \in ApiOrders \ {o} : MoneySame(x)
    BY <1>2, <1>4, RowMoneySame DEF RowCalm
  <2>2. Unfired(o)' = Unfired(o)
    BY <1>2 DEF Unfired
  <2>3. PICK f \in Int, z \in Int, t \in Int : f = wallet.free /\ z = wallet.frozen /\ t = taken
    BY DEF ApiTypes
  <2>4. PICK n \in Nat, w \in Nat, s \in Nat : n = Needed(o) /\ w = Unfired(o) /\ s = Traded(o)
    BY HeldNat
  <2>5. CASE orders[o].effect = "close"
    <3>1. Needed(o) = 0 /\ Needed(o)' = 0 /\ Traded(o) = 0 /\ Traded(o)' = 0 /\ taken' = taken
      BY <1>2, <2>5 DEF Needed, Traded
    <3>2. z - z = (0 - 0) + (w - w) + 2 * (0 - 0) /\ (f - f) + (z - z) + (t - t) = 0 - 0
      OBVIOUS
    <3>3. /\ wallet'.frozen - wallet.frozen =
                (Needed(o)' - Needed(o)) + (Unfired(o)' - Unfired(o)) + 2 * (Traded(o)' - Traded(o))
          /\ (wallet'.free - wallet.free) + (wallet'.frozen - wallet.frozen) + (taken' - taken) = Traded(o)' - Traded(o)
      BY <1>2, <2>2, <2>3, <2>4, <3>1, <3>2
    <3> QED BY <1>2, <2>1, <3>3, MarginByOrder DEF Fits
  <2>6. CASE orders[o].effect = "open"
    <3>1. Needed(o) = Frozen(b + 1, r) /\ Needed(o)' = Frozen(b, r)
      BY <1>2, <1>3, <2>6 DEF Needed
    <3>2. Traded(o)' = Traded(o) + Collateral(u + 1, r) - Collateral(u, r)
      <4>1. orders'[o].kind = orders[o].kind /\ orders'[o].effect = orders[o].effect
        BY <1>2
      <4>2. Traded(o)' = Traded(o) + Collateral(unsaved'[o][p], p) - Collateral(unsaved[o][p], p)
        BY <1>2, <2>6, <4>1, TradedMoves
      <4> QED BY <1>3, <4>2
    <3>3. PICK m \in Nat, v \in Nat : m = Frozen(b, r) /\ v = Collateral(u, r)
      BY FrozenNat
    <3>4. Frozen(b + 1, r) = m + 2 * r /\ Collateral(u + 1, r) = v + r /\ Collateral(1, r) = r
      <4>1. Frozen(b + 1, r) = Frozen(b, r) + Frozen(1, r) /\ Collateral(u + 1, r) = Collateral(u, r) + Collateral(1, r)
        BY FrozenAdds
      <4> QED BY <3>3, <4>1, FrozenOfOne
    <3>5. Needed(o) = m + 2 * r /\ Needed(o)' = m /\ Traded(o) = s /\ Traded(o)' = s + r /\ taken' = t + r
      <4>1. taken' = t + r
        BY <1>2, <1>3, <2>3, <2>6, <3>4
      <4>2. Traded(o)' = s + r
        BY <2>4, <3>2, <3>3, <3>4
      <4> QED BY <2>4, <3>1, <3>3, <3>4, <4>1, <4>2
    <3>6. /\ z - z = (m - (m + 2 * r)) + (w - w) + 2 * ((s + r) - s)
          /\ (f - f) + (z - z) + ((t + r) - t) = (s + r) - s
      OBVIOUS
    <3>7. /\ wallet'.frozen - wallet.frozen =
                (Needed(o)' - Needed(o)) + (Unfired(o)' - Unfired(o)) + 2 * (Traded(o)' - Traded(o))
          /\ (wallet'.free - wallet.free) + (wallet'.frozen - wallet.frozen) + (taken' - taken) = Traded(o)' - Traded(o)
      BY <1>2, <2>2, <2>3, <2>4, <3>5, <3>6
    <3> QED BY <1>2, <2>1, <3>7, MarginByOrder DEF Fits
  <2>7. orders[o].effect \in Effects
    BY DEF ApiTypes, ApiRows
  <2> QED BY <2>5, <2>6, <2>7 DEF Effects
<1> QED BY <1>5, <1>6, <1>7 DEF Fits

\* A trigger order that froze nothing has nothing to keep when it fires.
LEMMA FireFits ==
  ASSUME ApiTypes, Placed, Fits, NEW o \in ApiOrders, Fire(o), odd' = {}
  PROVE  Fits'
<1>1. /\ ApiTypes' /\ orders[o].effect = "close" /\ \A x \in ApiOrders \ {o} : triggers'[x] = triggers[x]
      /\ UNCHANGED <<orders, wallet, inBook, unsaved, exchanged, taken, handler>>
  BY FireDoes
<1>2. \A x \in ApiOrders : RowCalm(x)
  BY <1>1, RowsCalm
<1>3. OrdersFit'
  <2>1. ASSUME NEW x \in ApiOrders PROVE OrderFits(x)'
    BY <1>1 DEF OrderFits, Fits, OrdersFit
  <2> QED BY <2>1 DEF OrdersFit
<1>4. CallsFit'
  <2>1. ASSUME NEW x \in ApiOrders
        PROVE  exchanged'[x] >= exchanged[x] /\ (exchanged'[x] = exchanged[x] \/ inBook[x] > 0)
    <3>1. PICK y \in Nat : y = exchanged[x] /\ y = exchanged'[x]
      BY <1>1 DEF ApiTypes
    <3> QED BY <3>1
  <2> QED BY <1>1, <1>2, <2>1, CallsFitAside DEF Fits
<1>5. MarginFits'
  <2>1. \A x \in ApiOrders \ {o} : MoneySame(x)
    BY <1>1, <1>2, RowMoneySame DEF RowCalm
  <2>2. Unfired(o) = 0 /\ Unfired(o)' = 0
    BY <1>1 DEF Unfired
  <2>3. Traded(o)' = Traded(o) /\ Needed(o)' = Needed(o)
    BY <1>1, UnsavedSame DEF Needed
  <2>4. PICK f \in Int, z \in Int, t \in Int : f = wallet.free /\ z = wallet.frozen /\ t = taken
    BY DEF ApiTypes
  <2>5. PICK n \in Nat, s \in Nat : n = Needed(o) /\ s = Traded(o)
    BY HeldNat
  <2>6. z - z = (n - n) + (0 - 0) + 2 * (s - s) /\ (f - f) + (z - z) + (t - t) = s - s
    OBVIOUS
  <2>7. /\ wallet'.frozen - wallet.frozen =
              (Needed(o)' - Needed(o)) + (Unfired(o)' - Unfired(o)) + 2 * (Traded(o)' - Traded(o))
        /\ (wallet'.free - wallet.free) + (wallet'.frozen - wallet.frozen) + (taken' - taken) = Traded(o)' - Traded(o)
    BY <1>1, <2>2, <2>3, <2>4, <2>5, <2>6
  <2> QED BY <1>1, <2>1, <2>7, MarginByOrder DEF Fits
<1> QED BY <1>3, <1>4, <1>5 DEF Fits

LEMMA SaveFillFits ==
  ASSUME ApiTypes, Placed, Fits, NEW o \in ApiOrders, NEW p \in ApiPrices, SaveFill(o, p), odd' = {}
  PROVE  Fits'
<1>1. /\ ApiTypes' /\ unsaved[o][p] > 0 /\ unsaved'[o][p] = unsaved[o][p] - 1
      /\ \A x \in ApiPrices \ {p} : unsaved'[o][x] = unsaved[o][x]
      /\ \A x \in ApiOrders \ {o} : unsaved'[x] = unsaved[x]
      /\ RowsSame(o) /\ RowKept(o) /\ orders'[o].linked = orders[o].linked /\ orders'[o].status # "none"
      /\ MoveMargin(Frozen(1, p), Frozen(1, p) - Collateral(1, p))
      /\ orders[o].effect = "open"
      /\ UNCHANGED <<inBook, triggers, handler, exchanged, taken>>
  BY SaveFillDoes
<1>2. OrderPlaced(o) /\ OrderFits(o)
  BY DEF Placed, OrdersPlaced, Fits, OrdersFit
<1>3. PICK u \in Nat, e \in Nat, r \in Nat :
         u = unsaved'[o][p] /\ unsaved[o][p] = u + 1 /\ e = exchanged[o] /\ r = p
  <2>1. PICK u \in Nat, v \in Nat, e \in Nat, r \in Nat :
           u = unsaved'[o][p] /\ v = unsaved[o][p] /\ e = exchanged[o] /\ r = p
    BY <1>1, PriceNat DEF ApiTypes
  <2> QED BY <1>1, <2>1
<1>4. orders[o].status # "none" /\ exchanged[o] > 0
  <2>1. unsaved[o][p] # 0
    BY <1>3
  <2> QED BY <1>1, <1>2, <2>1 DEF OrderPlaced, OrderFits
<1>5. \A x \in ApiOrders : RowCalm(x)
  BY <1>1, <1>4 DEF RowCalm, RowKept, RowsSame
<1>6. OrdersFit'
  <2>1. ASSUME NEW x \in ApiOrders PROVE OrderFits(x)'
    <3>1. CASE x = o
      <4>1. inBook[o] > 0 => inBook[o] + exchanged[o] = orders[o].amount
        BY <1>2 DEF OrderFits
      <4>2. exchanged'[o] > 0 /\ exchanged'[o] # 0
        BY <1>1, <1>3, <1>4
      <4>3. inBook'[o] > 0 => inBook'[o] + exchanged'[o] = orders'[o].amount
        BY <1>1, <4>1 DEF RowKept
      <4> QED BY <3>1, <4>2, <4>3 DEF OrderFits
    <3>2. CASE x # o
      <4>1. OrderFits(x) /\ RowCalm(x) /\ inBook'[x] = inBook[x] /\ exchanged'[x] = exchanged[x]
            /\ unsaved'[x] = unsaved[x] /\ orders'[x].margin = orders[x].margin
        BY <1>1, <1>5, <3>2 DEF Fits, OrdersFit, RowsSame
      <4> QED BY <4>1, OrderFitsSame
    <3> QED BY <3>1, <3>2
  <2> QED BY <2>1 DEF OrdersFit
<1>7. CallsFit'
  <2>1. ASSUME NEW x \in ApiOrders
        PROVE  exchanged'[x] >= exchanged[x] /\ exchanged'[x] = exchanged[x]
    <3>1. PICK y \in Nat : y = exchanged[x] /\ y = exchanged'[x]
      BY <1>1 DEF ApiTypes
    <3> QED BY <3>1
  <2> QED BY <1>1, <1>5, <2>1, CallsFitAside DEF Fits
<1>8. MarginFits'
  <2>1. \A x \in ApiOrders \ {o} : MoneySame(x)
    <3>1. \A x \in ApiOrders \ {o} : RowKept(x) /\ unsaved'[x] = unsaved[x]
      BY <1>1, <1>5 DEF RowCalm
    <3> QED BY <1>1, <3>1, RowMoneySame
  <2>2. Unfired(o)' = Unfired(o) /\ Needed(o)' = Needed(o)
    BY <1>1 DEF Unfired, Needed, RowKept
  <2>3. PICK f \in Int, z \in Nat, t \in Int : f = wallet.free /\ z = wallet.frozen /\ t = taken
    BY DEF ApiTypes
  <2>4. PICK n \in Nat, w \in Nat, s \in Nat : n = Needed(o) /\ w = Unfired(o) /\ s = Traded(o)
    BY HeldNat
  <2>5. Traded(o)' = Traded(o) + Collateral(u, r) - Collateral(u + 1, r)
    <3>1. orders'[o].kind = orders[o].kind /\ orders'[o].effect = orders[o].effect
      BY <1>1 DEF RowKept
    <3>2. Traded(o)' = Traded(o) + Collateral(unsaved'[o][p], p) - Collateral(unsaved[o][p], p)
      BY <1>1, <3>1, TradedMoves
    <3> QED BY <1>3, <3>2
  <2>6. PICK v \in Nat : v = Collateral(u, r) /\ Collateral(u + 1, r) = v + r
    <3>1. Collateral(u + 1, r) = Collateral(u, r) + Collateral(1, r) /\ Collateral(u, r) \in Nat
      BY FrozenAdds, FrozenNat
    <3> QED BY <3>1, FrozenOfOne
  <2>7. Collateral(1, r) = r /\ Frozen(1, r) = 2 * r
    BY FrozenOfOne
  <2>8. v + r <= s
    <3>1. Collateral(unsaved[o][p], p) <= Traded(o)
      BY <1>1, HeldNat
    <3> QED BY <1>3, <2>4, <2>6, <3>1
  <2>9. 2 * s <= z
    <3>1. 2 * Traded(o) <= wallet.frozen
      BY FrozenCovers DEF Fits
    <3> QED BY <2>3, <2>4, <3>1
  <2>10. wallet'.frozen = z - 2 * r /\ wallet'.free = f + r
    <3>1. MoveMargin(2 * r, r)
      <4>1. 2 * r - r = r
        OBVIOUS
      <4> QED BY <1>1, <1>3, <2>7, <4>1
    <3>2. 2 * r <= z /\ 2 * r \in Nat /\ r \in Int
      BY <2>8, <2>9
    <3> QED BY <2>3, <3>1, <3>2, MarginMoved DEF ApiTypes
  <2>11. Traded(o)' = s - r
    BY <2>4, <2>5, <2>6
  <2>12. /\ (z - 2 * r) - z = (n - n) + (w - w) + 2 * ((s - r) - s)
         /\ ((f + r) - f) + ((z - 2 * r) - z) + (t - t) = (s - r) - s
    OBVIOUS
  <2>13. /\ wallet'.frozen - wallet.frozen =
               (Needed(o)' - Needed(o)) + (Unfired(o)' - Unfired(o)) + 2 * (Traded(o)' - Traded(o))
         /\ (wallet'.free - wallet.free) + (wallet'.frozen - wallet.frozen) + (taken' - taken) = Traded(o)' - Traded(o)
    BY <1>1, <2>2, <2>3, <2>4, <2>10, <2>11, <2>12
  <2> QED BY <1>1, <2>1, <2>13, MarginByOrder DEF Fits
<1> QED BY <1>6, <1>7, <1>8 DEF Fits

-----------------------------------------------------------------------------
(* What the books come to when nothing is under way *)

LEMMA NothingTraded ==
  ASSUME \A o \in ApiOrders, p \in ApiPrices : unsaved[o][p] = 0
  PROVE  TradedByAll = 0
<1>1. ASSUME NEW o \in ApiOrders PROVE Traded(o) = 0
  <2>1. \A p \in ApiPrices : UnsavedOf(o)[p] = 0
    <3>1. TAKE p \in ApiPrices
    <3>2. Collateral(0, p) = 0
      BY PriceNat, FrozenZero
    <3> QED BY <3>2 DEF UnsavedOf
  <2>2. SumFunctionOnSet(UnsavedOf(o), ApiPrices) = 0
    BY <2>1, SumZero, ApiAssumption
  <2> QED BY <2>2 DEF Traded
<1>2. \A o \in ApiOrders : [x \in ApiOrders |-> Traded(x)][o] = 0
  BY <1>1
<1> QED BY <1>2, SumZero, ApiAssumption DEF TradedByAll

LEMMA IdleOwesNothing ==
  ASSUME ApiTypes, \A c \in Calls : handler[c].pc = "idle"
  PROVE  OwedByAll = 0 /\ SpentByAll = 0
<1>1. ASSUME NEW c \in Calls PROVE Owed(handler[c]) = 0 /\ Spent(handler[c]) = 0
  <2>1. PICK q \in ApiCalls : q = handler[c]
    BY DEF ApiTypes
  <2>2. Owed(q) = 0 /\ Spent(q) = 0
    BY <2>1, OwedInt
  <2> QED BY <2>1, <2>2
<1>2. OwedByAll = 0
  <2>1. \A c \in Calls : [d \in Calls |-> Owed(handler[d])][c] = 0
    BY <1>1
  <2> QED BY <2>1, SumZero, ApiAssumption DEF OwedByAll
<1>3. SpentByAll = 0
  <2>1. \A c \in Calls : [d \in Calls |-> Spent(handler[d])][c] = 0
    BY <1>1
  <2> QED BY <2>1, SumZero, ApiAssumption DEF SpentByAll
<1> QED BY <1>2, <1>3

\* What went into positions was frozen before.
LEMMA SpentIsOwed ==
  ASSUME ApiTypes, CallsFit, MarginFits
  PROVE  SpentByAll <= OwedByAll
<1> DEFINE g == [d \in Calls |-> Spent(handler[d])]
           h == [d \in Calls |-> Owed(handler[d])]
<1>1. SpentByAll = SumFunctionOnSet(g, Calls) /\ OwedByAll = SumFunctionOnSet(h, Calls)
  BY DEF SpentByAll, OwedByAll
<1>2. \A d \in Calls : g[d] = Spent(handler[d]) /\ h[d] = Owed(handler[d])
  OBVIOUS
<1> HIDE DEF g, h
<1>3. ASSUME NEW d \in Calls PROVE g[d] \in Int /\ h[d] \in Int /\ g[d] <= h[d]
  <2>1. PICK q \in ApiCalls : q = handler[d]
    BY DEF ApiTypes
  <2>2. Owed(q) \in Nat
    BY <2>1, FrozenCovers
  <2>3. CASE q.pc \notin {"record", "release"}
    <3>1. Spent(q) = 0
      BY <2>3, OwedInt
    <3> QED BY <1>2, <2>1, <2>2, <3>1
  <2>4. CASE q.pc \in {"record", "release"}
    <3>1. /\ q.k \in Nat /\ q.p \in Nat /\ q.n \in Nat
          /\ Collateral(q.k, q.p) \in Nat /\ Frozen(q.k, q.p) \in Nat
          /\ Collateral(q.k, q.p) <= Frozen(q.k, q.p)
      BY <2>4, AnswerNat
    <3>2. /\ Owed(q) = (IF q.effect = "close" THEN 0 ELSE IF q.kind = "market" THEN q.frozen ELSE Frozen(q.k, q.p))
          /\ Spent(q) = (IF q.effect = "close" THEN 0 ELSE Collateral(q.k, q.p))
      BY <2>4, OwedInt
    <3>3. q.k <= q.n /\ q.frozen = Frozen(q.n, q.p)
      BY <2>1, <2>4 DEF CallsFit, CallFits, CreateFits, SweepPcs
    <3>4. PICK j \in Nat, k \in Nat, p \in Nat : k = q.k /\ p = q.p /\ q.n = k + j
      <4>1. PICK k \in Nat, n \in Nat : k = q.k /\ n = q.n
        BY <3>1
      <4>2. n - k \in Nat /\ n = k + (n - k)
        BY <3>3, <4>1
      <4> QED BY <3>1, <4>1, <4>2
    <3>5. Frozen(k + j, p) = Frozen(k, p) + Frozen(j, p) /\ Frozen(k, p) \in Nat /\ Frozen(j, p) \in Nat
      <4>1. Frozen(k + j, p) = Frozen(k, p) + Frozen(j, p)
        BY FrozenAdds
      <4>2. Frozen(k, p) \in Nat /\ Frozen(j, p) \in Nat
        BY FrozenNat
      <4> QED BY <4>1, <4>2
    <3>6. PICK a \in Nat, b \in Nat, x \in Nat : a = Frozen(k, p) /\ b = Frozen(j, p) /\ x = Collateral(k, p)
      BY <3>1, <3>4, <3>5
    <3>7. x <= a /\ q.frozen = a + b
      BY <3>1, <3>3, <3>4, <3>5, <3>6
    <3>8. \/ Spent(q) = 0 /\ Owed(q) = 0
          \/ Spent(q) = x /\ Owed(q) = a + b
          \/ Spent(q) = x /\ Owed(q) = a
      <4>1. Collateral(q.k, q.p) = x /\ Frozen(q.k, q.p) = a
        BY <3>4, <3>6
      <4> QED BY <3>2, <3>7, <4>1
    <3>9. Spent(q) \in Nat /\ Spent(q) <= Owed(q)
      BY <3>7, <3>8
    <3> QED BY <1>2, <2>1, <2>2, <3>9
  <2> QED BY <2>3, <2>4
<1>4. IsFiniteSet(Calls)
  BY ApiAssumption
<1> QED BY <1>1, <1>3, <1>4, SumMonotone

-----------------------------------------------------------------------------
(* The invariant *)

LEMMA NothingAtFirst == ApiInit => ApiInv
<1> SUFFICES ASSUME ApiInit PROVE ApiInv
  OBVIOUS
<1>1. ApiTypes
  <2>1. \A o \in ApiOrders : orders[o] \in ApiRows
    BY DEF ApiInit, NoOrder, ApiRows, ApiStatuses, AllKinds, Effects
  <2>2. orders \in [ApiOrders -> ApiRows]
    BY <2>1 DEF ApiInit
  <2>3. wallet \in [free : Int, frozen : Nat]
    BY ApiAssumption DEF ApiInit
  <2> QED BY <2>2, <2>3 DEF ApiInit, ApiTypes, ApiCalls, Done
<1>2. \A o \in ApiOrders : /\ orders[o] = NoOrder /\ orders[o].status = "none" /\ orders[o].kind = "limit"
                           /\ ~orders[o].linked /\ orders[o].price = 0
                           /\ inBook[o] = 0 /\ exchanged[o] = 0 /\ gone[o] = -1 /\ triggers[o] = "none"
                           /\ \A p \in ApiPrices : unsaved[o][p] = 0
  BY DEF ApiInit, NoOrder
<1>3. \A c \in Calls : handler[c] = Done /\ handler[c].pc = "idle"
  BY DEF ApiInit, Done
<1>4. Placed
  <2>1. OneCarrier
    BY <1>3 DEF OneCarrier, Carrying
  <2>2. CallsPlaced
    BY <1>3 DEF CallsPlaced, CallPlaced, AtRow, Sweeping, SweepPcs
  <2>3. OrdersPlaced
    BY <1>2 DEF OrdersPlaced, OrderPlaced
  <2>4. StaysGone
    BY <1>2 DEF StaysGone
  <2> QED BY <2>1, <2>2, <2>3, <2>4 DEF Placed
<1>5. OrdersFit
  BY <1>2 DEF OrdersFit, OrderFits
<1>6. CallsFit
  BY <1>3 DEF CallsFit, CallFits, Sweeping, SweepPcs
<1>7. MarginFits
  <2>1. NeededByAll = 0
    <3>1. \A o \in ApiOrders : Needed(o) = 0
      BY <1>2, FrozenZero DEF Needed
    <3> QED BY <3>1, SumZero, ApiAssumption DEF NeededByAll
  <2>2. UnfiredOfAll = 0
    <3>1. \A o \in ApiOrders : Unfired(o) = 0
      BY <1>2 DEF Unfired
    <3> QED BY <3>1, SumZero, ApiAssumption DEF UnfiredOfAll
  <2>3. TradedByAll = 0
    BY <1>2, NothingTraded
  <2>4. OwedByAll = 0 /\ SpentByAll = 0
    BY <1>1, <1>3, IdleOwesNothing
  <2>5. wallet.free = ApiDeposit /\ wallet.frozen = 0 /\ taken = 0
    BY DEF ApiInit
  <2>6. PICK D \in Nat : D = ApiDeposit
    BY ApiAssumption
  <2> QED BY <2>1, <2>2, <2>3, <2>4, <2>5, <2>6 DEF MarginFits
<1> QED BY <1>1, <1>4, <1>5, <1>6, <1>7 DEF ApiInv

\* The windows are remembered.
LEMMA OddGrows == ASSUME ApiNext PROVE odd \subseteq odd'
<1>1. ASSUME NEW w, NEW if, Note(w, if) PROVE odd \subseteq odd'
  BY <1>1 DEF Note
<1>2. ASSUME UNCHANGED apiHistory PROVE odd \subseteq odd'
  BY <1>2 DEF apiHistory
<1>3. ASSUME NEW c \in Calls, ApiCallStep(c) PROVE odd \subseteq odd'
  <2>1. CASE \/ \E o \in ApiOrders, n \in Lots, p \in ApiPrices :
                  ModifyOrder(c, o, n, p) \/ \E kind \in ApiKinds, effect \in Effects : PlaceOrder(c, o, kind, effect, n, p)
             \/ \E o \in ApiOrders, strict \in BOOLEAN : CancelOne(c, o, strict)
             \/ CancelAllOrders(c)
    <3>1. ASSUME NEW o \in ApiOrders, NEW n \in Lots,
         NEW p \in ApiPrices, ModifyOrder(c, o, n, p) PROVE odd \subseteq odd'
      BY <1>2, <3>1 DEF ModifyOrder
    <3>2. ASSUME NEW o \in ApiOrders, NEW n \in Lots, NEW p \in ApiPrices, NEW kind \in ApiKinds,
         NEW effect \in Effects,
                 PlaceOrder(c, o, kind, effect, n, p)
          PROVE  odd \subseteq odd'
      BY <1>2, <3>2 DEF PlaceOrder
    <3>3. ASSUME NEW o \in ApiOrders, NEW strict \in BOOLEAN, CancelOne(c, o, strict) PROVE odd \subseteq odd'
      BY <1>2, <3>3 DEF CancelOne
    <3>4. ASSUME CancelAllOrders(c) PROVE odd \subseteq odd'
      BY <1>2, <3>4 DEF CancelAllOrders
    <3> QED BY <2>1, <3>1, <3>2, <3>3, <3>4
  <2>2. CASE FreezeMargin(c) \/ CreateTrigger(c) \/ LinkTrigger(c)
    BY SMTT(30), <1>2, <2>2 DEF FreezeMargin, CreateTrigger, LinkTrigger
  <2>3. CASE SubmitOrder(c) \/ ShrinkMargin(c) \/ MarkCancelled(c) \/ RefundOne(c)
    BY ZenonT(40), <1>2, <2>3 DEF SubmitOrder, ShrinkMargin, MarkCancelled, RefundOne
  <2>4. CASE RefundAllOrders(c) \/ Reshape(c) \/ ResubmitOrder(c)
    BY <1>2, <2>4 DEF RefundAllOrders, Reshape, ResubmitOrder
  <2>5. CASE Abandon(c) \/ RecordAnswer(c) \/ PullOne(c)
    BY SMTT(30), <1>1, <2>5 DEF Abandon, RecordAnswer, PullOne
  <2>6. CASE ReleaseUnused(c) \/ PullNext(c) \/ InsertRow(c)
    BY <1>1, <2>6 DEF ReleaseUnused, PullNext, InsertRow
  <2>7. CASE MarkAll(c) \/ Repull(c) \/ CutCall(c) \/ SkipStatement(c)
    BY <1>1, <2>7 DEF MarkAll, Repull, CutCall, SkipStatement
  <2> QED BY <1>3, <2>1, <2>2, <2>3, <2>4, <2>5, <2>6, <2>7 DEF ApiCallStep
<1>4. ASSUME NEW o \in ApiOrders, Hit(o) \/ Fire(o) \/ \E p \in ApiPrices : SaveFill(o, p) PROVE odd \subseteq odd'
  BY <1>1, <1>2, <1>4 DEF Hit, Fire, SaveFill
<1>5. ASSUME ApiRestart PROVE odd \subseteq odd'
  BY <1>1, <1>5 DEF ApiRestart
<1> QED BY <1>3, <1>4, <1>5 DEF ApiNext

LEMMA PlacedByCallStep ==
  ASSUME ApiTypes, Placed, NEW c \in Calls, ApiCallStep(c)
  PROVE  ApiTypes' /\ Placed'
<1>1. CASE /\ handler[c].pc = "idle"
           /\ \/ \E o \in ApiOrders, n \in Lots, p \in ApiPrices :
                    ModifyOrder(c, o, n, p) \/ \E kind \in ApiKinds, effect \in Effects : PlaceOrder(c, o, kind, effect, n, p)
              \/ \E o \in ApiOrders, strict \in BOOLEAN : CancelOne(c, o, strict)
              \/ CancelAllOrders(c)
  BY <1>1, ModifyOrderPlaced, PlaceOrderPlaced, CancelOnePlaced, CancelAllOrdersPlaced
<1>2. CASE FreezeMargin(c) \/ InsertRow(c) \/ Abandon(c) \/ CreateTrigger(c) \/ LinkTrigger(c)
  BY <1>2, FreezeMarginPlaced, InsertRowPlaced, AbandonPlaced, CreateTriggerPlaced, LinkTriggerPlaced
<1>3. CASE SubmitOrder(c) \/ RecordAnswer(c) \/ ReleaseUnused(c) \/ ShrinkMargin(c)
  BY <1>3, SubmitOrderPlaced, RecordAnswerPlaced, ReleaseUnusedPlaced, ShrinkMarginPlaced
<1>4. CASE PullOne(c) \/ MarkCancelled(c) \/ RefundOne(c)
  BY <1>4, PullOnePlaced, MarkCancelledPlaced, RefundOnePlaced
<1>5. CASE PullNext(c) \/ MarkAll(c) \/ RefundAllOrders(c)
  BY <1>5, PullNextPlaced, MarkAllPlaced, RefundAllOrdersPlaced
<1>6. CASE Repull(c) \/ Reshape(c) \/ ResubmitOrder(c)
  BY <1>6, RepullPlaced, ReshapePlaced, ResubmitOrderPlaced
<1>7. CASE CutCall(c) \/ SkipStatement(c)
  BY <1>7, CutCallPlaced, SkipStatementPlaced
<1> QED BY <1>1, <1>2, <1>3, <1>4, <1>5, <1>6, <1>7 DEF ApiCallStep

LEMMA FitsByCallStep ==
  ASSUME ApiTypes, Placed, Fits, NEW c \in Calls, ApiCallStep(c), odd' = {}
  PROVE  Fits'
<1>1. CASE /\ handler[c].pc = "idle"
           /\ \/ \E o \in ApiOrders, n \in Lots, p \in ApiPrices :
                    ModifyOrder(c, o, n, p) \/ \E kind \in ApiKinds, effect \in Effects : PlaceOrder(c, o, kind, effect, n, p)
              \/ \E o \in ApiOrders, strict \in BOOLEAN : CancelOne(c, o, strict)
              \/ CancelAllOrders(c)
  BY <1>1, ModifyOrderFits, PlaceOrderFits, CancelOneFits, CancelAllOrdersFits
<1>2. CASE FreezeMargin(c) \/ InsertRow(c) \/ Abandon(c) \/ CreateTrigger(c) \/ LinkTrigger(c)
  BY <1>2, FreezeMarginFits, InsertRowFits, AbandonFits, CreateTriggerFits, LinkTriggerFits
<1>3. CASE SubmitOrder(c) \/ RecordAnswer(c) \/ ReleaseUnused(c) \/ ShrinkMargin(c)
  BY <1>3, SubmitOrderFits, RecordAnswerFits, ReleaseUnusedFits, ShrinkMarginFits
<1>4. CASE PullOne(c) \/ MarkCancelled(c) \/ RefundOne(c)
  BY <1>4, PullOneFits, MarkCancelledFits, RefundOneFits
<1>5. CASE PullNext(c) \/ MarkAll(c) \/ RefundAllOrders(c)
  BY <1>5, PullNextFits, MarkAllFits, RefundAllOrdersFits
<1>6. CASE Repull(c) \/ Reshape(c) \/ ResubmitOrder(c)
  BY <1>6, RepullFits, ReshapeFits, ResubmitOrderFits
<1>7. CASE CutCall(c) \/ SkipStatement(c)
  BY <1>7, CutCallDoes, SkipStatementDoes
<1> QED BY <1>1, <1>2, <1>3, <1>4, <1>5, <1>6, <1>7 DEF ApiCallStep

LEMMA ApiStep == ApiInv /\ ApiNext => ApiInv'
<1> SUFFICES ASSUME ApiInv, ApiNext PROVE ApiInv'
  OBVIOUS
<1>0. ApiTypes /\ Placed /\ (odd = {} => Fits)
  BY DEF ApiInv, Fits
<1>1. ApiTypes' /\ Placed'
  <2>1. ASSUME NEW c \in Calls, ApiCallStep(c) PROVE ApiTypes' /\ Placed'
    BY <1>0, <2>1, PlacedByCallStep
  <2>2. ASSUME NEW o \in ApiOrders, Hit(o) \/ Fire(o) \/ \E p \in ApiPrices : SaveFill(o, p)
        PROVE  ApiTypes' /\ Placed'
    BY <1>0, <2>2, HitPlaced, FirePlaced, SaveFillPlaced
  <2>3. ASSUME ApiRestart PROVE ApiTypes' /\ Placed'
    BY <1>0, <2>3, ApiRestartPlaced
  <2> QED BY <2>1, <2>2, <2>3 DEF ApiNext
<1>2. ASSUME odd' = {} PROVE Fits'
  <2>0. Fits
    BY <1>0, <1>2, OddGrows
  <2>1. ASSUME NEW c \in Calls, ApiCallStep(c) PROVE Fits'
    BY <1>0, <1>2, <2>0, <2>1, FitsByCallStep
  <2>2. ASSUME NEW o \in ApiOrders, Hit(o) \/ Fire(o) \/ \E p \in ApiPrices : SaveFill(o, p)
        PROVE  Fits'
    BY <1>0, <1>2, <2>0, <2>2, HitFits, FireFits, SaveFillFits
  <2>3. ASSUME ApiRestart PROVE Fits'
    BY <1>0, <1>2, <2>3, ApiRestartDoes
  <2> QED BY <2>1, <2>2, <2>3 DEF ApiNext
<1> QED BY <1>1, <1>2 DEF ApiInv, Fits

\* At every step of new order, cancel, cancel all, batch cancel and modify the
\* calls keep apart and, until a refund does not fit, the margin is accounted for.
THEOREM ApiInvariant == ApiSpec => []ApiInv
<1>1. ApiInv /\ UNCHANGED apiVars => ApiInv'
  <2> SUFFICES ASSUME ApiInv, UNCHANGED apiVars PROVE ApiInv'
    OBVIOUS
  <2>1. UNCHANGED <<orders, wallet, inBook, unsaved, triggers, handler, exchanged, taken, gone, revived, odd>>
    BY DEF apiVars
  <2>2. ApiTypes' /\ Placed'
    <3>1. ApiTypes' = ApiTypes
      BY <2>1 DEF ApiTypes
    <3>2. OneCarrier' = OneCarrier
      BY <2>1 DEF OneCarrier, Carrying
    <3>3. CallsPlaced' = CallsPlaced
      BY <2>1 DEF CallsPlaced, CallPlaced, AtRow, Sweeping
    <3>4. OrdersPlaced' = OrdersPlaced
      BY <2>1 DEF OrdersPlaced, OrderPlaced
    <3>5. StaysGone' = StaysGone
      BY <2>1 DEF StaysGone, GoneFor, Carrying
    <3> QED BY <3>1, <3>2, <3>3, <3>4, <3>5 DEF ApiInv, Placed
  <2>3. OrdersFit' = OrdersFit /\ CallsFit' = CallsFit
    BY <2>1 DEF OrdersFit, OrderFits, CallsFit, CallFits, Sweeping
  <2>4. MarginFits' = MarginFits
    <3>1. NeededByAll' = NeededByAll /\ UnfiredOfAll' = UnfiredOfAll /\ TradedByAll' = TradedByAll
      BY <2>1 DEF NeededByAll, Needed, UnfiredOfAll, Unfired, TradedByAll, Traded, UnsavedOf
    <3>2. OwedByAll' = OwedByAll /\ SpentByAll' = SpentByAll
      BY <2>1 DEF OwedByAll, SpentByAll
    <3> QED BY <2>1, <3>1, <3>2 DEF MarginFits
  <2> QED BY <2>1, <2>2, <2>3, <2>4 DEF ApiInv
<1> QED BY NothingAtFirst, ApiStep, <1>1, PTL DEF ApiSpec

LEMMA BooksFollow == ApiInv => ApiKeepsBooks
<1> SUFFICES ASSUME ApiInv PROVE ApiKeepsBooks
  OBVIOUS
<1>0. ApiTypes /\ StaysGone /\ (odd = {} => CallsFit /\ MarginFits)
  BY DEF ApiInv, Placed
<1>1. GoneIsGone
  BY <1>0 DEF GoneIsGone, StaysGone, GoneFor
<1>2. ApiCovered
  <2> SUFFICES ASSUME odd = {} PROVE wallet.free + taken + NeededByAll <= ApiDeposit
    BY DEF ApiCovered
  <2>1. CallsFit /\ MarginFits
    BY <1>0
  <2>2. PICK N \in Nat, W \in Nat, T \in Nat, O \in Nat, S \in Nat, D \in Nat :
          /\ N = NeededByAll /\ W = UnfiredOfAll /\ T = TradedByAll /\ O = OwedByAll /\ S = SpentByAll
          /\ D = ApiDeposit
    BY <1>0, <2>1, HeldCounts, FrozenCovers, ApiAssumption
  <2>3. PICK f \in Int, z \in Nat, t \in Nat : f = wallet.free /\ z = wallet.frozen /\ t = taken
    BY <1>0 DEF ApiTypes
  <2>4. S <= O
    BY <1>0, <2>1, <2>2, SpentIsOwed
  <2>5. z = N + W + 2 * T + O /\ f + z + t = D + T + S
    BY <2>1, <2>2, <2>3 DEF MarginFits
  <2>6. f + t + N <= D
    BY <2>4, <2>5
  <2> QED BY <2>2, <2>3, <2>6
<1>3. ApiBalanced
  <2> SUFFICES ASSUME odd = {}, \A c \in Calls : handler[c].pc = "idle",
                      \A o \in ApiOrders, p \in ApiPrices : unsaved[o][p] = 0
               PROVE  /\ wallet.free + wallet.frozen + taken = ApiDeposit
                      /\ wallet.frozen = NeededByAll + UnfiredOfAll
    BY DEF ApiBalanced
  <2>1. OwedByAll = 0 /\ SpentByAll = 0 /\ TradedByAll = 0
    BY <1>0, IdleOwesNothing, NothingTraded
  <2>2. PICK N \in Nat, W \in Nat, D \in Nat : N = NeededByAll /\ W = UnfiredOfAll /\ D = ApiDeposit
    BY <1>0, HeldCounts, ApiAssumption
  <2> QED BY <1>0, <2>1, <2>2 DEF MarginFits
<1> QED BY <1>1, <1>2, <1>3 DEF ApiKeepsBooks

\* An order that a cancel of the API found in the engine never rests or trades
\* again; and until a refund does not fit what was frozen, the deposit covers what
\* may be spent, what is in positions and what resting orders need, and between
\* requests nothing is frozen but for live orders.
THEOREM ApiBooksKept == ApiSpec => []ApiKeepsBooks
BY ApiInvariant, BooksFollow, PTL
=============================================================================
