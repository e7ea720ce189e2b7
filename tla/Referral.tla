------------------------------ MODULE Referral ------------------------------
(* Referral commissions: a referee binds to a referrer, every trade of the     *)
(* referee earns the referrer a commission when it is persisted, a loop        *)
(* settles commissions on the reward contract in batches, and the referrer     *)
(* redeems them with a signature.                                              *)
(*                                                                             *)
(* A commission waits in two places: as a row of referral_earnings, written    *)
(* in the transaction of its trade, and in the memory of the service, queued   *)
(* while that transaction is still open.  The batch adds up both.              *)
EXTENDS Naturals

CONSTANTS
    Fees,         \* commissions: one side of one trade each
    Referees,     \* traders who bind
    Referrers,    \* owners of a code
    Forms,        \* bind and unbind requests
    TraderOf,     \* commission -> its trader
    MayRefer,     \* pairs (referrer, referee) that registered in the right order
    Nobody,
    SyncTries,    \* attempts after which a row is given up (3 in the code)
    MaxSlips,     \* bound: failed statements, transactions and lost answers
    MaxRestarts   \* bound: crashes

ASSUME ReferralAssumption ==
    /\ TraderOf \in [Fees -> Referees] /\ MayRefer \subseteq Referrers \X Referees
    /\ Nobody \notin Referrers /\ SyncTries \in Nat \ {0}

VARIABLES
    bound,     \* referral_relations: referee -> referrer
    covered,   \* commissions whose trade is not older than the trader's relation
    entitled,  \* who was the referrer at the trade, or about to be (history)
    form,      \* request -> what it read before its transaction
    saving,    \* commission -> how far the transaction of its trade is
    earning,   \* referral_earnings
    pending,   \* pending_trades: commission -> entries in memory
    syncer,    \* the batch loop
    paidMem,   \* commission -> times the contract paid it for its entry in memory ...
    paidRow,   \* ... and for its row
    ticket,    \* commissions in the last signed amount, or Nobody
    events,    \* redemptions the listener has not seen
    skipped,   \* rows marked as settled by a batch without them (history)
    reverted,  \* commissions of a batch that was mined and reverted (history)
    slips, restarts

earnVarsOf == <<saving, earning, pending>>
payVars == <<paidMem, paidRow>>
chainVars == <<payVars, ticket, events, skipped, reverted>>
bindVars == <<bound, covered, entitled, form>>
referralVars == <<bindVars, earnVarsOf, syncer, chainVars, slips, restarts>>

NoRowYet == [to |-> Nobody, sync |-> "none", attempts |-> 0, status |-> "none"]
NoForm == [pc |-> "new", who |-> Nobody, code |-> Nobody, seen |-> Nobody, old |-> {}]
Made(x) == {f \in Fees : TraderOf[f] = x /\ saving[f] # "none"}
NoEntries == [f \in Fees |-> 0]
Resting == [at |-> "idle", mem |-> NoEntries, rows |-> {}]

ReferralInit ==
    /\ bound = [x \in Referees |-> Nobody] /\ covered = {}
    /\ entitled = [f \in Fees |-> {}]
    /\ form = [r \in Forms |-> NoForm]
    /\ saving = [f \in Fees |-> "none"] /\ earning = [f \in Fees |-> NoRowYet]
    /\ pending = NoEntries /\ syncer = Resting
    /\ paidMem = NoEntries /\ paidRow = NoEntries /\ ticket = Nobody /\ events = 0
    /\ skipped = {} /\ reverted = {} /\ slips = 0 /\ restarts = 0

Slip == slips < MaxSlips /\ slips' = slips + 1
NoSlip == UNCHANGED slips

-----------------------------------------------------------------------------
(* Binding.  The handlers read the binding first and change it later in a      *)
(* transaction of their own.                                                   *)

\* bind_code up to its transaction: the binding is read, the code resolved, the
\* order of registration and the change of referrer are checked.  The time the
\* relation will bear is taken here.
AskToBind(r, x, c) ==
    /\ form[r].pc = "new" /\ <<c, x>> \in MayRefer /\ bound[x] # c
    /\ form' = [form EXCEPT ![r] = [pc |-> "bind", who |-> x, code |-> c, seen |-> bound[x],
                                        old |-> Made(x)]]
    /\ UNCHANGED <<bound, covered, entitled, earnVarsOf, syncer, chainVars, slips, restarts>>

\* unbind_code up to its transaction.
AskToUnbind(r, x) ==
    /\ form[r].pc = "new" /\ bound[x] # Nobody
    /\ form' = [form EXCEPT ![r] = [NoForm EXCEPT !.pc = "unbind", !.who = x, !.seen = bound[x]]]
    /\ UNCHANGED <<bound, covered, entitled, earnVarsOf, syncer, chainVars, slips, restarts>>

Relate(x, c, old) ==
    /\ bound' = [bound EXCEPT ![x] = c]
    /\ covered' = {f \in covered : TraderOf[f] # x} \cup (Made(x) \ old)

\* The transaction of a first bind fails on the row that another request wrote in
\* between; a rebind and an unbind delete the row of the trader, whoever wrote it.
\* An error of the statements whose result is dropped undoes the transaction too,
\* though the handler goes on and answers success.
BindTx(r) ==
    LET q == form[r] IN
    /\ q.pc \in {"bind", "unbind"}
    /\ form' = [form EXCEPT ![r].pc = "done"]
    /\ \/ q.pc = "bind" /\ q.seen = Nobody /\ bound[q.who] # Nobody
          /\ NoSlip /\ UNCHANGED <<bound, covered>>
       \/ ~(q.pc = "bind" /\ q.seen = Nobody /\ bound[q.who] # Nobody)
          /\ NoSlip /\ Relate(q.who, q.code, q.old)
       \/ Slip /\ UNCHANGED <<bound, covered>>
    /\ UNCHANGED <<entitled, earnVarsOf, syncer, chainVars, restarts>>

-----------------------------------------------------------------------------
(* The commission of a trade. *)

Trade(f) ==
    /\ saving[f] = "none"
    /\ saving' = [saving EXCEPT ![f] = "traded"]
    /\ entitled' = [entitled EXCEPT ![f] = {bound[TraderOf[f]]} \cup
                      {form[r].code : r \in {r \in Forms : form[r].pc = "bind" /\ form[r].who = TraderOf[f]}}]
    /\ covered' = covered \cup {f}
    /\ UNCHANGED <<bound, form, earning, pending, syncer, chainVars, slips, restarts>>

\* Mutated: the relation earns on trades made before it, too.
EarnsOnAll(f) == bound[TraderOf[f]]

\* The relation as the transaction reads it; one made after the trade earns nothing.
Earns(f) == IF f \in covered THEN bound[TraderOf[f]] ELSE Nobody

\* persist_trade_with_tx, the part about one side: the row is written, and the
\* memory of the service is told before the commit.
Earn(f) ==
    /\ saving[f] = "traded" /\ Earns(f) # Nobody
    /\ saving' = [saving EXCEPT ![f] = "open"]
    /\ earning' = [earning EXCEPT ![f] = [NoRowYet EXCEPT !.to = Earns(f)]]
    /\ pending' = [pending EXCEPT ![f] = @ + 1]
    /\ UNCHANGED <<bindVars, syncer, chainVars, slips, restarts>>

EarnNothing(f) ==
    /\ saving[f] = "traded" /\ Earns(f) = Nobody
    /\ saving' = [saving EXCEPT ![f] = "saved"]
    /\ UNCHANGED <<bindVars, earning, pending, syncer, chainVars, slips, restarts>>

\* The end of the transaction: a failed one is tried again from the start, what it
\* put in the memory stays.
EndTx(f) ==
    /\ saving[f] = "open"
    /\ \/ /\ saving' = [saving EXCEPT ![f] = "saved"]
          /\ earning' = [earning EXCEPT ![f].sync = "pending", ![f].status = "pending"]
          /\ NoSlip
       \/ /\ saving' = [saving EXCEPT ![f] = "traded"]
          /\ earning' = [earning EXCEPT ![f] = NoRowYet]
          /\ Slip
    /\ UNCHANGED <<bindVars, pending, syncer, chainVars, restarts>>

-----------------------------------------------------------------------------
(* submit_pending_trades, every five minutes. *)

Waits(f) == earning[f].sync = "pending"
Offered(f) == Waits(f) /\ earning[f].attempts < SyncTries

Drain ==
    /\ syncer.at = "idle"
    /\ \E f \in Fees : pending[f] > 0 \/ Offered(f)
    /\ syncer' = [at |-> "gather", mem |-> pending, rows |-> {}]
    /\ pending' = NoEntries
    /\ UNCHANGED <<bindVars, saving, earning, chainVars, slips, restarts>>

\* A failed query counts as one that found nothing.
Gather ==
    /\ syncer.at = "gather"
    /\ \E rows \in {{f \in Fees : Offered(f)}, {}} :
         /\ IF rows = {f \in Fees : Offered(f)} THEN NoSlip ELSE Slip
         /\ syncer' = IF rows = {} /\ syncer.mem = NoEntries THEN Resting
                      ELSE [syncer EXCEPT !.rows = rows, !.at = "send"]
    /\ UNCHANGED <<bindVars, earnVarsOf, chainVars, restarts>>

Refill == pending' = [f \in Fees |-> pending[f] + syncer.mem[f]]
Pay ==
    /\ paidMem' = [f \in Fees |-> paidMem[f] + syncer.mem[f]]
    /\ paidRow' = [f \in Fees |-> paidRow[f] + (IF f \in syncer.rows THEN 1 ELSE 0)]
InBatch(f) == f \in syncer.rows \/ syncer.mem[f] > 0

\* The call and its receipt, whose status is not read: a batch that was mined and
\* reverted goes on like one that was paid.  A call that was refused, a transaction
\* dropped and an error while waiting are one path; after an error the batch may
\* have been paid.
Submit ==
    /\ syncer.at = "send"
    /\ \/ /\ syncer' = [syncer EXCEPT !.at = "mark"] /\ UNCHANGED pending
          /\ \/ Pay /\ NoSlip /\ UNCHANGED reverted
             \/ Slip /\ reverted' = reverted \cup {f \in Fees : InBatch(f)} /\ UNCHANGED payVars
       \/ /\ Slip /\ Refill /\ (Pay \/ UNCHANGED payVars)
          /\ syncer' = [Resting EXCEPT !.at = "count"] /\ UNCHANGED reverted
    /\ UNCHANGED <<bindVars, saving, earning, ticket, events, skipped, restarts>>

\* The bookkeeping of a confirmed batch: every pending row, those of the batch or not.
MarkSynced ==
    /\ syncer.at = "mark"
    /\ \/ earning' = [f \in Fees |-> IF Waits(f) THEN [earning[f] EXCEPT !.sync = "synced"]
                                     ELSE earning[f]] /\ NoSlip
          /\ skipped' = skipped \cup {f \in Fees : Waits(f) /\ f \notin syncer.rows /\ syncer.mem[f] = 0}
       \/ Slip /\ UNCHANGED <<earning, skipped>>
    /\ syncer' = Resting
    /\ UNCHANGED <<bindVars, saving, pending, payVars, reverted, ticket, events, restarts>>

\* The bookkeeping of a failed one: one more attempt, then the rows that used them up.
CountAttempt ==
    /\ syncer.at = "count"
    /\ \/ earning' = [f \in Fees |-> IF Offered(f) THEN [earning[f] EXCEPT !.attempts = @ + 1]
                                     ELSE earning[f]] /\ NoSlip
       \/ Slip /\ UNCHANGED earning
    /\ syncer' = [syncer EXCEPT !.at = "giveup"]
    /\ UNCHANGED <<bindVars, saving, pending, chainVars, restarts>>

GiveUp ==
    /\ syncer.at = "giveup"
    /\ \/ earning' = [f \in Fees |-> IF Waits(f) /\ ~Offered(f) THEN [earning[f] EXCEPT !.sync = "failed"]
                                     ELSE earning[f]] /\ NoSlip
       \/ Slip /\ UNCHANGED earning
    /\ syncer' = Resting
    /\ UNCHANGED <<bindVars, saving, pending, chainVars, restarts>>

-----------------------------------------------------------------------------
(* Redeeming. *)

Claimable(p) == {f \in Fees : earning[f].to = p /\ earning[f].sync = "synced"
                               /\ earning[f].status = "pending"}

\* claim_earnings signs the sum of what is settled and unclaimed, and changes nothing.
Claim(p) ==
    /\ Claimable(p) # {} /\ ticket = Nobody
    /\ ticket' = <<p, Claimable(p)>>
    /\ UNCHANGED <<bindVars, earnVarsOf, syncer, payVars, reverted, events, skipped, slips, restarts>>

Redeem ==
    /\ ticket # Nobody /\ events = 0
    /\ events' = 1
    /\ UNCHANGED <<bindVars, earnVarsOf, syncer, payVars, reverted, ticket, skipped, slips, restarts>>

\* The listener marks all that is settled by now; a failed query skips the blocks.
Listen ==
    /\ events > 0
    /\ events' = 0 /\ ticket' = Nobody
    /\ \/ /\ earning' = [f \in Fees |-> IF f \in Claimable(ticket[1])
                                         THEN [earning[f] EXCEPT !.status = "claimed"] ELSE earning[f]]
          /\ NoSlip
       \/ Slip /\ UNCHANGED earning
    /\ UNCHANGED <<bindVars, saving, pending, syncer, payVars, reverted, skipped, restarts>>

\* A crash: memory, open transactions and events not seen yet are gone.
Restart ==
    /\ restarts < MaxRestarts
    /\ restarts' = restarts + 1
    /\ pending' = NoEntries /\ syncer' = Resting
    /\ form' = [r \in Forms |-> IF form[r].pc = "new" THEN NoForm ELSE [form[r] EXCEPT !.pc = "done"]]
    /\ saving' = [f \in Fees |-> IF saving[f] \in {"traded", "open"} THEN "lost" ELSE saving[f]]
    /\ earning' = [f \in Fees |-> IF saving[f] = "open" THEN NoRowYet ELSE earning[f]]
    /\ events' = 0 /\ ticket' = IF events > 0 THEN Nobody ELSE ticket
    /\ UNCHANGED <<bound, covered, entitled, payVars, reverted, skipped, slips>>

ReferralNext ==
    \/ \E r \in Forms, x \in Referees : AskToUnbind(r, x) \/ \E c \in Referrers : AskToBind(r, x, c)
    \/ \E r \in Forms : BindTx(r)
    \/ \E f \in Fees : Trade(f) \/ Earn(f) \/ EarnNothing(f) \/ EndTx(f)
    \/ Drain \/ Gather \/ Submit \/ MarkSynced \/ CountAttempt \/ GiveUp
    \/ \E p \in Referrers : Claim(p)
    \/ Redeem \/ Listen \/ Restart

ReferralSpec == ReferralInit /\ [][ReferralNext]_referralVars

-----------------------------------------------------------------------------
Committed(f) == earning[f].sync # "none"
Paid(f) == paidMem[f] + paidRow[f] > 0
Kept(f) == Paid(f) \/ pending[f] > 0 \/ syncer.mem[f] > 0

\* A commission belongs to who was the referrer when the trade was made, or was
\* just being bound, however often the trader rebinds before the trade is
\* persisted.  Once its row is committed it is paid or waits in memory, unless a
\* batch with it reverted; only a restart takes the memory, and then its row is
\* still pending or given up, unless a batch without it marked it as settled.
\* Without failures neither its entry in memory nor its row is paid twice (the code
\* does pay both).
CommissionFollows == \A f \in Fees :
    /\ earning[f].to \in entitled[f] \cup {Nobody}
    /\ Committed(f) => \/ Kept(f)
                       \/ f \in reverted
                       \/ restarts > 0 /\ (earning[f].sync \in {"pending", "failed"} \/ f \in skipped)
    /\ slips = 0 /\ restarts = 0 => paidMem[f] <= 1 /\ paidRow[f] <= 1
=============================================================================
