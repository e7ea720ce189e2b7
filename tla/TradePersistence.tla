-------------------------- MODULE TradePersistence --------------------------
(***************************************************************************)
(* The way of a trade from the matching engine to the database             *)
(* (services/matching/orchestrator.rs): a bounded in-memory queue with an  *)
(* overflow path, a pool of persistence tasks that retry, a dead letter    *)
(* table, the position updates that follow the commit, and the recovery    *)
(* pass that applies what the tasks left undone.  Every step is one        *)
(* database statement or transaction, or one operation on the queue or the *)
(* permits.  Statements may fail, a commit may be acknowledged too late,   *)
(* tasks may panic and the process may crash; the database survives.       *)
(***************************************************************************)
EXTENDS Integers, Sequences, FiniteSets

CONSTANTS
    Trades,         \* trade ids
    Recovery,       \* the recovery worker
    QueueCap,       \* capacity of the persistence queue
    MaxConcurrent,  \* persistence permits
    MaxAttempts,    \* RetryConfig.max_attempts
    MaxTries,       \* position update tries per persisted trade
    RecoveryRuns,   \* FALSE: the minutes before the first recovery pass
    MaxFaults,      \* bound: failing statements
    MaxPanics,      \* bound: panics
    MaxCrashes,     \* bound: crashes of the process
    None            \* absence of a value

Legs == {"maker", "taker"}
Updaters == Trades \cup {Recovery}

ASSUME UpdaterAssumption == Recovery \notin Trades /\ None \notin Updaters
ASSUME RetryAssumption == MaxAttempts \in Nat \ {0} /\ MaxTries \in Nat \ {0}
ASSUME BoundAssumption ==
    /\ MaxFaults \in Nat /\ MaxPanics \in Nat /\ MaxCrashes \in Nat
    /\ RecoveryRuns \in BOOLEAN

VARIABLES
    rows,      \* trades: persisted trade rows
    fills,     \* trade -> times it was added to its maker order's filled_amount
    legs,      \* trade -> leg -> times increase_position took effect
    synced,    \* trade_position_sync: the durable marker
    flagged,   \* trades.position_synced, the older marker
    dlq,       \* dead_letter_trades
    queue,     \* the persistence channel
    pc,        \* updater -> next step
    attempts,  \* trade -> failed persist attempts
    tries,     \* trade -> failed position updates
    made,      \* updater -> whether its maker leg returned Ok
    batch,     \* trades the recovery pass has still to visit
    target,    \* the trade the recovery pass is at
    faults, panics, crashes,
    disturbed  \* history: trades whose update was cut, failed or overlapped

db     == <<rows, fills, legs, synced, flagged, dlq>>
memory == <<queue, pc, attempts, tries, made, batch, target>>
env    == <<faults, panics, crashes>>
vars   == <<db, memory, env, disturbed>>

Waiting == {"overflow", "queued", "spawned"}
Updating == {"guard", "maker", "taker", "record", "flag"}
Running == {t \in Trades : pc[t] \in {"persist", "dlq"} \cup Updating}

Init ==
    /\ rows = {} /\ synced = {} /\ flagged = {} /\ dlq = {}
    /\ fills = [t \in Trades |-> 0]
    /\ legs = [t \in Trades |-> [l \in Legs |-> 0]]
    /\ queue = <<>>
    /\ pc = [u \in Updaters |-> IF u = Recovery THEN "idle" ELSE "unborn"]
    /\ attempts = [t \in Trades |-> 0]
    /\ tries = [t \in Trades |-> 0]
    /\ made = [u \in Updaters |-> FALSE]
    /\ batch = {} /\ target = None
    /\ faults = 0 /\ panics = 0 /\ crashes = 0
    /\ disturbed = {}

Goto(u, label) == pc' = [pc EXCEPT ![u] = label]

\* A statement fails, or reports a failure.
Fails == faults < MaxFaults /\ faults' = faults + 1 /\ UNCHANGED <<panics, crashes>>
Works == UNCHANGED env

-----------------------------------------------------------------------------
(* From the engine to a persistence task. *)

\* Mutated: a trade that finds the queue full is dropped.
EmitOrDrop(t) ==
    /\ pc[t] = "unborn"
    /\ IF Len(queue) < QueueCap
       THEN queue' = Append(queue, t) /\ Goto(t, "queued")
       ELSE Goto(t, "done") /\ UNCHANGED queue
    /\ UNCHANGED <<db, attempts, tries, made, batch, target, env, disturbed>>

\* submit_order hands the trade to the queue with try_send; if it is full, to a
\* task that awaits send.
Emit(t) ==
    /\ pc[t] = "unborn"
    /\ IF Len(queue) < QueueCap
       THEN queue' = Append(queue, t) /\ Goto(t, "queued")
       ELSE Goto(t, "overflow") /\ UNCHANGED queue
    /\ UNCHANGED <<db, attempts, tries, made, batch, target, env, disturbed>>

\* The awaited send of an overflowed trade finds room.
Send(t) ==
    /\ pc[t] = "overflow" /\ Len(queue) < QueueCap
    /\ queue' = Append(queue, t) /\ Goto(t, "queued")
    /\ UNCHANGED <<db, attempts, tries, made, batch, target, env, disturbed>>

\* The worker takes a trade off the queue and spawns its task.
Receive ==
    /\ queue # <<>>
    /\ queue' = Tail(queue) /\ Goto(Head(queue), "spawned")
    /\ UNCHANGED <<db, attempts, tries, made, batch, target, env, disturbed>>

\* The task gets a permit.
Acquire(t) ==
    /\ pc[t] = "spawned" /\ Cardinality(Running) < MaxConcurrent
    /\ Goto(t, "persist")
    /\ UNCHANGED <<db, queue, attempts, tries, made, batch, target, env, disturbed>>

-----------------------------------------------------------------------------
(* persist_trade_with_tx under with_retry. *)

\* The transaction's effects: the trade row, and with it the maker's fill and
\* the release of its frozen margin.
Commit(t) ==
    /\ rows' = rows \cup {t}
    /\ fills' = [fills EXCEPT ![t] = @ + 1]

\* Mutated: the maker's fill is booked whether or not the row is new.
PersistTwice(t) ==
    /\ pc[t] = "persist"
    /\ \/ Commit(t) /\ Goto(t, "guard") /\ Works /\ UNCHANGED attempts
       \/ /\ Fails /\ (Commit(t) \/ UNCHANGED <<rows, fills>>)
          /\ attempts' = [attempts EXCEPT ![t] = @ + 1]
          /\ Goto(t, IF attempts[t] + 1 < MaxAttempts THEN "persist" ELSE "dlq")
    /\ UNCHANGED <<legs, synced, flagged, dlq, queue, tries, made, batch, target, disturbed>>

\* One attempt.  A row that is already there ends the attempt with Ok, before
\* any position update.  A failing attempt may have committed all the same (the
\* acknowledgement was lost); the last one goes to the dead letter table.
Persist(t) ==
    /\ pc[t] = "persist"
    /\ \/ /\ Works /\ UNCHANGED attempts
          /\ IF t \in rows
             THEN Goto(t, "done") /\ UNCHANGED <<rows, fills>>
             ELSE Goto(t, "guard") /\ Commit(t)
       \/ /\ Fails
          /\ \/ UNCHANGED <<rows, fills>>
             \/ t \notin rows /\ Commit(t)
          /\ attempts' = [attempts EXCEPT ![t] = @ + 1]
          /\ Goto(t, IF attempts[t] + 1 < MaxAttempts THEN "persist" ELSE "dlq")
    /\ UNCHANGED <<legs, synced, flagged, dlq, queue, tries, made, batch, target, disturbed>>

\* write_to_dead_letter_queue; if that fails too the trade is only logged.
DeadLetter(t) ==
    /\ pc[t] = "dlq"
    /\ \/ Works /\ dlq' = dlq \cup {t}
       \/ Fails /\ UNCHANGED dlq
    /\ Goto(t, "done")
    /\ UNCHANGED <<rows, fills, legs, synced, flagged, queue, attempts, tries,
                   made, batch, target, disturbed>>

-----------------------------------------------------------------------------
(* update_positions_after_trade, called by a trade's task and by recovery. *)

TradeOf(u) == IF u = Recovery THEN target ELSE u

\* Another updater is past the guard with the same trade.
Overlaps(u) ==
    \E v \in Updaters \ {u} :
        pc[v] \in {"maker", "taker", "record"} /\ TradeOf(v) = TradeOf(u)

\* is_trade_position_synced: a failing query reads as "not synced".
Guard(u) ==
    LET t == TradeOf(u) IN
    /\ pc[u] = "guard"
    /\ \/ Works /\ t \in synced /\ Goto(u, "flag") /\ UNCHANGED disturbed
       \/ /\ Works /\ t \notin synced /\ Goto(u, "maker")
          /\ disturbed' = IF Overlaps(u) THEN disturbed \cup {t} ELSE disturbed
       \/ Fails /\ Goto(u, "maker") /\ disturbed' = disturbed \cup {t}
    /\ UNCHANGED <<db, queue, attempts, tries, made, batch, target>>

\* Mutated: the trade is marked although its tries ran out.
GiveBackMarked(u) ==
    /\ Goto(u, IF u # Recovery /\ tries[u] + 1 < MaxTries THEN "guard" ELSE "flag")
    /\ tries' = IF u = Recovery THEN tries ELSE [tries EXCEPT ![u] = @ + 1]

\* The attempt to update the positions of u's trade failed: a task tries again
\* up to MaxTries times and then leaves the trade to recovery; recovery goes on
\* to its next trade.
GiveBack(u) ==
    IF u = Recovery THEN Goto(u, "pick") /\ UNCHANGED tries
    ELSE /\ tries' = [tries EXCEPT ![u] = @ + 1]
         /\ Goto(u, IF tries[u] + 1 < MaxTries THEN "guard" ELSE "done")

\* increase_position for one leg.  It commits its lock transaction after its
\* writes, so that a failure may come with or without the effect.
LegEffect(t, l) == legs' = [legs EXCEPT ![t][l] = @ + 1]

MakerLeg(u) ==
    LET t == TradeOf(u) IN
    /\ pc[u] = "maker"
    /\ \/ /\ Works /\ LegEffect(t, "maker")
          /\ made' = [made EXCEPT ![u] = TRUE] /\ UNCHANGED disturbed
       \/ /\ Fails /\ (LegEffect(t, "maker") \/ UNCHANGED legs)
          /\ made' = [made EXCEPT ![u] = FALSE] /\ disturbed' = disturbed \cup {t}
    /\ Goto(u, "taker")
    /\ UNCHANGED <<rows, fills, synced, flagged, dlq, queue, attempts, tries, batch, target>>

\* Mutated: one leg is enough.
BothLegsOr(maker, taker) == maker \/ taker
BothLegs(maker, taker) == maker /\ taker

TakerLeg(u) ==
    LET t == TradeOf(u) IN
    /\ pc[u] = "taker"
    /\ \E ok \in BOOLEAN :
          /\ IF ok
             THEN Works /\ LegEffect(t, "taker") /\ UNCHANGED disturbed
             ELSE /\ Fails /\ (LegEffect(t, "taker") \/ UNCHANGED legs)
                  /\ disturbed' = disturbed \cup {t}
          /\ IF BothLegs(made[u], ok)
             THEN Goto(u, "record") /\ UNCHANGED tries
             ELSE GiveBack(u)
    /\ made' = [made EXCEPT ![u] = FALSE]
    /\ UNCHANGED <<rows, fills, synced, flagged, dlq, queue, attempts, batch, target>>

\* Mutated: the marker is never written.
RecordForgotten(u) ==
    /\ pc[u] = "record" /\ Goto(u, "flag")
    /\ UNCHANGED <<db, queue, attempts, tries, made, batch, target, env, disturbed>>

\* record_trade_position_synced; its failure is only logged.
Record(u) ==
    LET t == TradeOf(u) IN
    /\ pc[u] = "record"
    /\ \/ Works /\ synced' = synced \cup {t} /\ UNCHANGED disturbed
       \/ Fails /\ UNCHANGED synced /\ disturbed' = disturbed \cup {t}
    /\ Goto(u, "flag")
    /\ UNCHANGED <<rows, fills, legs, flagged, dlq, queue, attempts, tries, made, batch, target>>

\* mark_trade_position_synced; its failure is only logged.
Flag(u) ==
    /\ pc[u] = "flag"
    /\ \/ Works /\ flagged' = flagged \cup {TradeOf(u)}
       \/ Fails /\ UNCHANGED flagged
    /\ Goto(u, IF u = Recovery THEN "pick" ELSE "done")
    /\ UNCHANGED <<rows, fills, legs, synced, dlq, queue, attempts, tries, made,
                   batch, target, disturbed>>

-----------------------------------------------------------------------------
(* recover_unsynced_trades: at start-up and then periodically. *)

\* What a pass still has to apply, by both markers.
Unsynced == {t \in rows : t \notin flagged /\ t \notin synced}

\* The pass reads its batch in one statement; the row locks go with it.
Fetch ==
    /\ pc[Recovery] = "idle" /\ RecoveryRuns /\ Unsynced # {}
    /\ batch' = Unsynced
    /\ Goto(Recovery, "pick")
    /\ UNCHANGED <<db, queue, attempts, tries, made, target, env, disturbed>>

\* Mutated: the end of the batch is not noticed.
PickBlindly ==
    /\ pc[Recovery] = "pick"
    /\ target' = IF batch = {} THEN None ELSE CHOOSE t \in batch : TRUE
    /\ batch' = batch \ {target'} /\ Goto(Recovery, "guard")
    /\ UNCHANGED <<db, queue, attempts, tries, made, env, disturbed>>

\* The pass moves on to a trade of its batch, or ends.
Pick ==
    /\ pc[Recovery] = "pick"
    /\ \/ \E t \in batch : /\ target' = t /\ batch' = batch \ {t}
                           /\ Goto(Recovery, "guard")
       \/ batch = {} /\ target' = None /\ Goto(Recovery, "idle") /\ UNCHANGED batch
    /\ UNCHANGED <<db, queue, attempts, tries, made, env, disturbed>>

-----------------------------------------------------------------------------
(* Panics and crashes. *)

\* The arithmetic of a leg panics.  A task catches it and ends; the recovery
\* worker has nothing around it and is gone until the process restarts.
Panic(u) ==
    /\ panics < MaxPanics /\ pc[u] \in {"maker", "taker"}
    /\ panics' = panics + 1
    /\ Goto(u, IF u = Recovery THEN "dead" ELSE "done")
    /\ disturbed' = disturbed \cup {TradeOf(u)}
    /\ UNCHANGED <<db, queue, attempts, tries, made, batch, target, faults, crashes>>

\* The process dies and starts again: queue, tasks and the recovery pass are
\* gone, the database stays.
Crash ==
    /\ crashes < MaxCrashes
    /\ crashes' = crashes + 1
    /\ queue' = <<>>
    /\ pc' = [u \in Updaters |->
                IF u = Recovery THEN "idle" ELSE IF pc[u] = "unborn" THEN "unborn" ELSE "done"]
    /\ attempts' = [t \in Trades |-> 0]
    /\ tries' = [t \in Trades |-> 0]
    /\ made' = [u \in Updaters |-> FALSE]
    /\ batch' = {} /\ target' = None
    /\ disturbed' = disturbed \cup
         {TradeOf(u) : u \in {v \in Updaters : pc[v] \in {"maker", "taker", "record"}}}
    /\ UNCHANGED <<db, faults, panics>>

Update(u) == Guard(u) \/ MakerLeg(u) \/ TakerLeg(u) \/ Record(u) \/ Flag(u)
Task(t) == Send(t) \/ Acquire(t) \/ Persist(t) \/ DeadLetter(t) \/ Update(t)
RecoveryPass == Fetch \/ Pick \/ Update(Recovery)

Next ==
    \/ \E t \in Trades : Emit(t) \/ Task(t)
    \/ Receive
    \/ RecoveryPass
    \/ \E u \in Updaters : Panic(u)
    \/ Crash

Spec == Init /\ [][Next]_vars

-----------------------------------------------------------------------------
(* Properties *)

TaskLabels == {"unborn", "persist", "dlq", "done"} \cup Waiting \cup Updating
RecoveryLabels == {"idle", "pick", "dead"} \cup Updating

\* What the database holds, and the bounds' counters.
StoreOK ==
    /\ rows \subseteq Trades /\ synced \subseteq Trades /\ flagged \subseteq Trades
    /\ dlq \subseteq Trades /\ disturbed \subseteq Trades
    /\ fills \in [Trades -> Nat]
    /\ legs \in [Trades -> [Legs -> Nat]]
    /\ faults \in Nat /\ panics \in Nat /\ crashes \in Nat

\* Where the tasks and the recovery worker may be.
StepOK ==
    /\ pc \in [Updaters -> TaskLabels \cup RecoveryLabels]
    /\ \A t \in Trades : pc[t] \in TaskLabels
    /\ pc[Recovery] \in RecoveryLabels

\* Every variable has its type, and a recovery pass that updates has a trade.
TypeOK ==
    /\ StoreOK /\ StepOK
    /\ queue \in Seq(Trades)
    /\ attempts \in [Trades -> Nat] /\ tries \in [Trades -> Nat]
    /\ made \in [Updaters -> BOOLEAN]
    /\ batch \subseteq Trades /\ target \in Trades \cup {None}
    /\ pc[Recovery] \in Updating => target \in Trades

\* A trade is added to its maker order's filled amount exactly once if its row
\* exists and never otherwise, whatever attempts failed, committed unseen or
\* were repeated.
FilledOncePerTrade == \A t \in Trades : fills[t] = IF t \in rows THEN 1 ELSE 0

Applied(t) == \A l \in Legs : legs[t][l] > 0

\* A marker is only ever set on a trade that was persisted and whose both legs
\* took effect: recovery never skips a trade that still needs it.
MarkedMeansApplied == \A t \in synced \cup flagged : t \in rows /\ Applied(t)

\* A leg takes effect twice only if the trade's update failed part way, was cut
\* by a panic or crash, or overlapped another one of the same trade.
AppliedOnceUnlessDisturbed ==
    \A t \in Trades \ disturbed : \A l \in Legs : legs[t][l] <= 1

\* The trade is still on its way to the database.
InFlight(t) == pc[t] \in Waiting \cup {"persist", "dlq"}

\* What the idempotency guard is there for: no leg takes effect twice.
AppliedOnce == \A t \in Trades : \A l \in Legs : legs[t][l] <= 1

\* No emitted trade is ever lost: it is on its way, persisted or dead-lettered.
\* (Not so when the process stops.)
NoTradeLost == \A t \in Trades : pc[t] = "unborn" \/ InFlight(t) \/ t \in rows \cup dlq

\* The runtime runs every spawned task, the queue and the permits are served in
\* order, and the recovery timer fires.
Fairness ==
    /\ \A t \in Trades : WF_vars(Task(t))
    /\ WF_vars(Receive)
    /\ WF_vars(RecoveryPass)
FairSpec == Spec /\ Fairness

\* Back-pressure never drops or strands a trade: what was emitted ends up
\* persisted or dead-lettered while the process lives.
EmittedIsSettled ==
    \A t \in Trades : pc[t] # "unborn" ~> t \in rows \cup dlq \/ crashes > 0

\* Every persisted trade is eventually applied to both positions, through
\* failing statements, crashes and the panic of a task; a panic of the recovery
\* worker, which nothing catches, ends it for the life of the process.
PersistedIsApplied == \A t \in Trades : t \in rows ~> Applied(t) \/ pc[Recovery] = "dead"

\* A trade of the engine ends in both positions or in the dead-letter table.
EventuallySettled == EmittedIsSettled /\ PersistedIsApplied
=============================================================================
