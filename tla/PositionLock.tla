---------------------------- MODULE PositionLock ----------------------------
(***************************************************************************)
(* The connections increase_position needs (services/position/mod.rs,      *)
(* db/mod.rs).  A call opens a transaction on one pooled connection, takes *)
(* the advisory lock of its user and market there, and keeps both while    *)
(* every statement of the inner work asks the pool for another connection. *)
(* Timeouts of the pool and of the lock end a wait.                        *)
(***************************************************************************)
EXTENDS Naturals, FiniteSets

CONSTANTS
    Callers,      \* tasks that call increase_position
    KeyOf,        \* caller -> lock key of its user and market
    Connections,  \* size of the pool
    NoCaller

ASSUME PoolAssumption == Connections \in Nat \ {0}
ASSUME CallerAssumption == IsFiniteSet(Callers) /\ NoCaller \notin Callers

VARIABLES
    at,      \* caller -> what it waits for or does
    holder   \* lock key -> caller that holds the advisory lock

poolVars == <<at, holder>>

Keys == {KeyOf[c] : c \in Callers}

PoolInit ==
    /\ at = [c \in Callers |-> "away"]
    /\ holder = [k \in Keys |-> NoCaller]

\* The transaction keeps one connection, a running statement takes a second.
InTx == {c \in Callers : at[c] \in {"lock", "work", "statement", "end"}}
Free == Connections - Cardinality(InTx) - Cardinality({c \in Callers : at[c] = "statement"})

GoTo(c, label) == at' = [at EXCEPT ![c] = label]

EnterIncrease(c) == at[c] = "away" /\ GoTo(c, "begin") /\ UNCHANGED holder

BeginTx(c) == at[c] = "begin" /\ Free > 0 /\ GoTo(c, "lock") /\ UNCHANGED holder

\* pool.begin() gives up; nothing is held yet.
BeginTimeout(c) == at[c] = "begin" /\ GoTo(c, "failed") /\ UNCHANGED holder

TakeAdvisory(c) ==
    /\ at[c] = "lock" /\ holder[KeyOf[c]] = NoCaller
    /\ holder' = [holder EXCEPT ![KeyOf[c]] = c]
    /\ GoTo(c, "work")

\* lock_timeout: the transaction is dropped and its connection returned.
LockTimeout(c) == at[c] = "lock" /\ GoTo(c, "failed") /\ UNCHANGED holder

StartStatement(c) == at[c] = "work" /\ Free > 0 /\ GoTo(c, "statement") /\ UNCHANGED holder

EndStatement(c) ==
    /\ at[c] = "statement"
    /\ GoTo(c, "work") \/ GoTo(c, "end")
    /\ UNCHANGED holder

LetGo(c) == holder' = [holder EXCEPT ![KeyOf[c]] = NoCaller]

\* Mutated: the error path neither commits nor rolls back.
GiveUpHolding(c) == at[c] = "work" /\ GoTo(c, "failed") /\ UNCHANGED holder
\* Mutated: the wait for a connection is not timed.
NeverGiveUp(c) == FALSE /\ at[c] = "work" /\ LetGo(c) /\ GoTo(c, "failed")
\* The inner work gives up waiting for a connection: rollback.
GiveUp(c) == at[c] = "work" /\ LetGo(c) /\ GoTo(c, "failed")

EndTx(c) == at[c] = "end" /\ LetGo(c) /\ GoTo(c, "done")

Leave(c) == at[c] \in {"done", "failed"} /\ GoTo(c, "away") /\ UNCHANGED holder

PoolNext == \E c \in Callers :
    \/ EnterIncrease(c) \/ BeginTx(c) \/ BeginTimeout(c) \/ TakeAdvisory(c) \/ LockTimeout(c)
    \/ StartStatement(c) \/ EndStatement(c) \/ GiveUp(c) \/ EndTx(c) \/ Leave(c)

\* The timers fire and a started statement ends; a statement that ended is not
\* followed by another one for ever.  A connection or the lock may go to others.
PoolFairness == \A c \in Callers :
    /\ WF_poolVars(BeginTimeout(c)) /\ WF_poolVars(LockTimeout(c)) /\ WF_poolVars(GiveUp(c))
    /\ WF_poolVars(EndStatement(c)) /\ SF_poolVars(EndStatement(c) /\ at'[c] = "end")
    /\ WF_poolVars(EndTx(c))

PoolSpec == PoolInit /\ [][PoolNext]_poolVars /\ PoolFairness

-----------------------------------------------------------------------------
\* A call of increase_position ends, although everybody may hold a connection and
\* wait for a second one: the waits for the pool and for the lock are timed, and
\* giving up one of them returns what the call holds.
EveryIncreaseEnds == \A c \in Callers :
    at[c] \in {"begin", "lock", "work"} ~> at[c] \in {"done", "failed"}

\* Nobody waits for a lock nobody will release, and no connection is lost: a call
\* that is over holds neither, whatever timer ended it.
NothingHeld ==
    /\ Free >= 0
    /\ \A k \in Keys : holder[k] # NoCaller =>
          KeyOf[holder[k]] = k /\ at[holder[k]] \in {"work", "statement", "end"}
=============================================================================
