------------------------------- MODULE Custody -------------------------------
(* One user's account of the reserve vault, the collateral of perpetuals:      *)
(* withdrawals signed, cancelled, confirmed by the user, expired by a worker   *)
(* and released on the chain; the two listeners that follow the chain without  *)
(* a confirmation depth.  The tables have no constraint that would refuse a    *)
(* negative balance.                                                           *)
EXTENDS Integers, Sequences, FiniteSets, Functions

CONSTANTS
    Payments,         \* deposit events
    TxOf,             \* [Payments -> transactions]: two may share one
    PaymentSize,
    Withdrawals, Amounts,
    OtherLocks,       \* what else is frozen: margin of resting orders
    MaxChain,         \* bound on chain events ...
    MaxErrors         \* ... and on listener errors, failed saves and restarts

ASSUME CustodyAssumption ==
    /\ PaymentSize \in Nat \ {0} /\ Amounts \subseteq Nat \ {0} /\ OtherLocks \in Nat
    /\ DOMAIN TxOf = Payments /\ IsFiniteSet(Payments) /\ IsFiniteSet(Withdrawals)

VARIABLES
    log,              \* the vault's events: [kind, tx, from] or [kind, of, nonce, amount]
    row,              \* withdrawals: [status, nonce, amount, expired], and what
                      \* the request saw: the available balance it checked
    call,             \* the user's cancel or confirm of each row, between read and write
    overdue,          \* the expiry worker's list
    purse, locked,    \* balances: available and frozen
    recorded,         \* deposits: transactions recorded
    at, saved,        \* each listener's block in memory and in block_sync_state
    done,             \* history: release events applied
    skipped,          \* history: deposit events passed over
    errors,
    astray            \* history: the named windows that a behaviour went through

custodyVars ==
    <<log, row, call, overdue, purse, locked, recorded, at, saved, done, skipped, errors, astray>>

NoRow == [status |-> "none"]
CustodyInit ==
    /\ log = <<>> /\ row = [w \in Withdrawals |-> NoRow]
    /\ call = [w \in Withdrawals |-> "none"] /\ overdue = {}
    /\ purse = 0 /\ locked = OtherLocks /\ recorded = {}
    /\ at = [k \in {"deposit", "release"} |-> 0] /\ saved = at
    /\ done = {} /\ skipped = {} /\ errors = 0 /\ astray = {}

Releases == {b \in DOMAIN log : log[b].kind = "release"}
ContractNonce == Cardinality(Releases)
ReleasedOnChain(w) == \E b \in Releases : log[b].of = w
In(w, S) == row[w].status \in S
Slipped(names) == astray' = astray \cup names
Named(name, when) == IF when THEN {name} ELSE {}

----------------------------------------------------------------------------
(* The chain.  A signature that was handed out can be redeemed until the expiry *)
(* that is signed, while its nonce is the next one, whatever became of the row: *)
(* the contract does not know of a cancel.                                      *)

Handed(w) == ~In(w, {"none", "checked"})

PayIn(p) ==
    /\ Len(log) < MaxChain /\ \A b \in DOMAIN log : log[b].kind = "deposit" => log[b].from # p
    /\ log' = Append(log, [kind |-> "deposit", from |-> p, tx |-> TxOf[p]])
    /\ UNCHANGED <<row, call, overdue, purse, locked, recorded, at, saved, done, skipped, errors, astray>>

Release(w) ==
    /\ Len(log) < MaxChain /\ Handed(w) /\ ~row[w].expired /\ row[w].nonce = ContractNonce
    /\ log' = Append(log, [kind |-> "release", of |-> w,
                           nonce |-> row[w].nonce, amount |-> row[w].amount])
    /\ Slipped(Named("redeemed late", ~In(w, {"signed", "submitted"})))
    /\ UNCHANGED <<row, call, overdue, purse, locked, recorded, at, saved, done, skipped, errors>>

Expires(w) ==
    /\ Handed(w) /\ ~row[w].expired
    /\ row' = [row EXCEPT ![w].expired = TRUE]
    /\ UNCHANGED <<log, call, overdue, purse, locked, recorded, at, saved, done, skipped, errors, astray>>

----------------------------------------------------------------------------
(* request_withdrawal: checked and signed first, frozen in a later statement   *)
(* that has no condition.                                                      *)

\* Mutated: what is frozen counts as withdrawable.
WithdrawAny(amount) == amount <= purse + locked
Withdrawable(amount) == amount <= purse

CheckAndSign(w, amount) ==
    /\ In(w, {"none"}) /\ Withdrawable(amount)
    /\ row' = [row EXCEPT ![w] = [status |-> "checked", nonce |-> ContractNonce,
                                  amount |-> amount, expired |-> FALSE, saw |-> purse]]
    /\ UNCHANGED <<log, call, overdue, purse, locked, recorded, at, saved, done, skipped, errors, astray>>

FreezeAndStore(w) ==
    /\ In(w, {"checked"})
    /\ row' = [row EXCEPT ![w].status = "signed"]
    /\ purse' = purse - row[w].amount /\ locked' = locked + row[w].amount
    /\ Slipped(Named("raced", purse # row[w].saw /\ purse < row[w].amount))
    /\ UNCHANGED <<log, call, overdue, recorded, at, saved, done, skipped, errors>>

----------------------------------------------------------------------------
(* cancel_withdrawal and confirm_withdrawal: the status is read, then written  *)
(* without a condition; neither asks the chain.                                *)

UserReads(w, what) ==
    /\ In(w, {"signed"}) /\ call[w] = "none"
    /\ call' = [call EXCEPT ![w] = what]
    /\ UNCHANGED <<log, row, overdue, purse, locked, recorded, at, saved, done, skipped, errors, astray>>

Unlock(w) == purse' = purse + row[w].amount /\ locked' = locked - row[w].amount

Cancel(w) ==
    /\ call[w] = "cancel" /\ call' = [call EXCEPT ![w] = "none"]
    /\ row' = [row EXCEPT ![w].status = "cancelled"] /\ Unlock(w)
    /\ Slipped(Named("cancelled late", ~In(w, {"signed"}) \/ ReleasedOnChain(w)))
    /\ UNCHANGED <<log, overdue, recorded, at, saved, done, skipped, errors>>

Submit(w) ==
    /\ call[w] = "confirm" /\ call' = [call EXCEPT ![w] = "none"]
    /\ row' = [row EXCEPT ![w].status = "submitted"]
    /\ Slipped(Named("submitted late", ~In(w, {"signed"})))
    /\ UNCHANGED <<log, overdue, purse, locked, recorded, at, saved, done, skipped, errors>>

----------------------------------------------------------------------------
(* process_expired_withdrawals: a list, then a transaction for each            *)

Overdue == {w \in Withdrawals : In(w, {"signed"}) /\ row[w].expired}
ListOverdue ==
    /\ overdue = {} /\ Overdue # {} /\ overdue' = Overdue
    /\ UNCHANGED <<log, row, call, purse, locked, recorded, at, saved, done, skipped, errors, astray>>

Expire(w) ==
    /\ w \in overdue /\ overdue' = overdue \ {w}
    /\ row' = [row EXCEPT ![w].status = "expired"] /\ Unlock(w)
    /\ Slipped(Named("expired late", ~In(w, {"signed"}) \/ ReleasedOnChain(w)))
    /\ UNCHANGED <<log, call, recorded, at, saved, done, skipped, errors>>

----------------------------------------------------------------------------
(* The listeners, block by block; the cursor is saved at the end of a batch    *)

\* Mutated: a block is passed over.
SkipOne(kind) == at' = [at EXCEPT ![kind] = @ + 2]
Move(kind) == at' = [at EXCEPT ![kind] = @ + 1]
Next1(kind) == log[at[kind] + 1]

SecondOfTx(b) ==
    /\ log[b].kind = "deposit"
    /\ \E c \in 1 .. b - 1 : log[c].kind = "deposit" /\ log[c].tx = log[b].tx

\* Mutated: a transaction that was recorded is credited again.
AlwaysFresh(e) == TRUE

\* The event is known by its transaction.
IsFresh(e) == e.tx \notin recorded

ScanDeposit ==
    /\ at["deposit"] < Len(log) /\ Move("deposit")
    /\ LET e == Next1("deposit") IN
       IF e.kind = "deposit" /\ IsFresh(e)
       THEN /\ recorded' = recorded \cup {e.tx} /\ purse' = purse + PaymentSize
            /\ UNCHANGED skipped
       ELSE /\ skipped' = skipped \cup Named(at["deposit"] + 1, SecondOfTx(at["deposit"] + 1))
            /\ UNCHANGED <<recorded, purse>>
    /\ UNCHANGED <<log, row, call, overdue, locked, saved, done, errors, astray>>

\* An error in one event is logged and the batch goes on.
DepositFails ==
    /\ errors < MaxErrors /\ errors' = errors + 1
    /\ at["deposit"] < Len(log) /\ Next1("deposit").kind = "deposit" /\ Move("deposit")
    /\ skipped' = skipped \cup Named(at["deposit"] + 1,
                                     IsFresh(Next1("deposit")) \/ SecondOfTx(at["deposit"] + 1))
    /\ UNCHANGED <<log, row, call, overdue, purse, locked, recorded, saved, done, astray>>

\* Mutated: a row that the user has not confirmed is left pending.
SubmittedOnly(e) == {w \in Withdrawals : In(w, {"submitted"}) /\ row[w].nonce = e.nonce}

\* Every pending row of the nonce is confirmed; the lock is dropped whether or
\* not a row was.
Confirms(e) == {w \in Withdrawals : In(w, {"signed", "submitted"}) /\ row[w].nonce = e.nonce}
ScanRelease ==
    /\ at["release"] < Len(log) /\ Move("release")
    /\ LET e == Next1("release") IN
       IF e.kind # "release" THEN UNCHANGED <<row, locked, done, astray>>
       ELSE /\ row' = [w \in Withdrawals |->
                         IF w \in Confirms(e) THEN [row[w] EXCEPT !.status = "confirmed"] ELSE row[w]]
            /\ locked' = IF locked >= e.amount THEN locked - e.amount ELSE locked
            /\ done' = done \cup {at["release"] + 1}
            /\ Slipped(Named("same slot", Confirms(e) \ {e.of} # {})
                       \cup Named("rescanned", at["release"] + 1 \in done))
    /\ UNCHANGED <<log, call, overdue, purse, recorded, saved, skipped, errors>>

\* An error in the transaction of a release is logged too: the row stays.
ReleaseFails ==
    /\ errors < MaxErrors /\ errors' = errors + 1
    /\ at["release"] < Len(log) /\ Next1("release").kind = "release" /\ Move("release")
    /\ Slipped({"release lost"})
    /\ UNCHANGED <<log, row, call, overdue, purse, locked, recorded, saved, done, skipped>>

Save(kind) ==
    /\ saved[kind] < at[kind] /\ saved' = [saved EXCEPT ![kind] = at[kind]]
    /\ UNCHANGED <<log, row, call, overdue, purse, locked, recorded, at, done, skipped, errors, astray>>

\* The save fails, or the process restarts before it.
Rewind(kind) ==
    /\ errors < MaxErrors /\ errors' = errors + 1
    /\ saved[kind] < at[kind] /\ at' = [at EXCEPT ![kind] = saved[kind]]
    /\ UNCHANGED <<log, row, call, overdue, purse, locked, recorded, saved, done, skipped, astray>>

CustodyNext ==
    \/ \E p \in Payments : PayIn(p)
    \/ \E w \in Withdrawals :
          \/ Release(w) \/ Expires(w) \/ FreezeAndStore(w) \/ Cancel(w) \/ Submit(w) \/ Expire(w)
          \/ \E q \in Amounts : CheckAndSign(w, q)
          \/ \E what \in {"cancel", "confirm"} : UserReads(w, what)
    \/ ListOverdue \/ ScanDeposit \/ DepositFails \/ ScanRelease \/ ReleaseFails
    \/ \E kind \in DOMAIN at : Save(kind) \/ Rewind(kind)

CustodySpec == CustodyInit /\ [][CustodyNext]_custodyVars

----------------------------------------------------------------------------
(* Properties *)

CustodyTypeOK ==
    /\ \A w \in Withdrawals : row[w].status \in
          {"none", "checked", "signed", "submitted", "confirmed", "cancelled", "expired"}
    /\ overdue \subseteq Withdrawals /\ locked \in Int /\ purse \in Int
    /\ \A k \in DOMAIN at : saved[k] <= at[k] /\ at[k] <= Len(log)
    /\ recorded \subseteq {TxOf[p] : p \in Payments}

PendingRows == {w \in Withdrawals : In(w, {"signed", "submitted"})}
PendingSum == SumFunction([w \in PendingRows |-> row[w].amount])

\* What is frozen for withdrawals is the sum of the pending rows, so that the
\* release of one never eats the margin of an order, unless the account went
\* through one of the windows the actions name.
LockedIsPending == astray = {} => locked = OtherLocks + PendingSum

PaidIn == PaymentSize * Cardinality({p \in Payments :
             \E b \in DOMAIN log : log[b].kind = "deposit" /\ log[b].from = p})
PaidOut == SumFunction([b \in Releases |-> log[b].amount])
Unscanned == SumFunction([b \in Releases \ done |-> log[b].amount])

\* The available balance is never negative and, with what is frozen, never more
\* than the vault holds for the user or has paid out without a scan, unless ...
\* (as above).
PurseIsBacked ==
    astray = {} => /\ purse >= 0
                   /\ purse + PendingSum <= PaidIn - PaidOut + Unscanned

\* Every deposit behind the listener's saved block was credited, once; outside
\* are events whose handling failed and the second event of one transaction.
DepositsCredited ==
    /\ \A b \in (1 .. saved["deposit"]) \ skipped :
          log[b].kind = "deposit" => log[b].tx \in recorded
    /\ \A b, c \in (1 .. at["deposit"]) \ skipped :
          b # c /\ log[b].kind = "deposit" /\ log[c].kind = "deposit" => log[b].tx # log[c].tx
\* The account of a user agrees with the vault and with the rows of requests.
CustodyBalanced == CustodyTypeOK /\ LockedIsPending /\ PurseIsBacked /\ DepositsCredited
=============================================================================
