---------------------------- MODULE RewardsProofs ----------------------------
(***************************************************************************)
(* Theorems about Referral, Points and Earn, for every set of users, trades *)
(* and requests, every limit, and every number of failures and restarts.    *)
(***************************************************************************)
EXTENDS Referral, Points, Earn, SumFacts, TLAPS

(***************************************************************************)
(* Types, and what the steps of a commission and of the batch loop imply.   *)
(***************************************************************************)

BindTypes ==
    /\ bound \in [Referees -> Referrers \cup {Nobody}]
    /\ covered \subseteq Fees
    /\ DOMAIN entitled = Fees
    /\ form \in [Forms -> [pc : {"new", "bind", "unbind", "done"}, who : Referees \cup {Nobody},
                           code : Referrers \cup {Nobody}, seen : Referrers \cup {Nobody},
                           old : SUBSET Fees]]
    /\ \A r \in Forms : form[r].pc \in {"bind", "unbind"} => form[r].who \in Referees

Rows == [to : Referrers \cup {Nobody}, attempts : Nat,
         sync : {"none", "pending", "synced", "failed"},
         status : {"none", "pending", "claimed"}]

Loops == [at : {"idle", "gather", "send", "mark", "count", "giveup"},
          mem : [Fees -> Nat], rows : SUBSET Fees]

EarnTypes ==
    /\ saving \in [Fees -> {"none", "traded", "open", "saved", "lost"}]
    /\ earning \in [Fees -> Rows]
    /\ pending \in [Fees -> Nat]
    /\ paidMem \in [Fees -> Nat] /\ paidRow \in [Fees -> Nat]
    /\ syncer \in Loops
    /\ slips \in Nat /\ restarts \in Nat

\* Who a relation may pay was, at the trade, the referrer or being bound as one.
Entitled ==
    /\ \A f \in covered : saving[f] # "none" /\ bound[TraderOf[f]] \in entitled[f] \cup {Nobody}
    /\ \A r \in Forms : form[r].pc = "bind" =>
           \A f \in Made(form[r].who) \ form[r].old : form[r].code \in entitled[f]
    /\ \A r \in Forms : form[r].pc = "unbind" => form[r].code = Nobody
    /\ \A f \in Fees : earning[f].to \in entitled[f] \cup {Nobody}
    /\ \A f \in Fees : saving[f] = "none" => earning[f].to = Nobody

\* A row exists while its transaction is open and once it is saved, and what the
\* loop holds follows from the step it is at.
Batches ==
    /\ \A f \in Fees : Committed(f) => saving[f] = "saved"
    /\ syncer.at \in {"idle", "count", "giveup"} => syncer.mem = NoEntries
    /\ syncer.at \in {"send", "mark"} => \A f \in syncer.rows : earning[f].sync = "pending"
    /\ syncer.at = "mark" => \A f \in Fees :
           InBatch(f) => Paid(f) \/ f \in reverted

\* Where a commission is kept.
KeptSafe == \A f \in Fees :
    /\ saving[f] = "open" => Kept(f) \/ f \in reverted
    /\ Committed(f) => \/ Kept(f) \/ f \in reverted
                       \/ restarts > 0 /\ (earning[f].sync \in {"pending", "failed"} \/ f \in skipped)
    /\ earning[f].sync = "synced" => Paid(f) \/ f \in reverted \/ f \in skipped

\* What was paid and what may still be paid, while nothing failed.
Unpaid(f) == IF syncer.at \in {"gather", "send"} THEN syncer.mem[f] ELSE 0
RowDue(f) ==
    IF earning[f].sync \in {"none", "pending"} /\ ~(syncer.at = "mark" /\ f \in syncer.rows)
    THEN 1 ELSE 0
Budget(f) == IF saving[f] \in {"none", "traded"} THEN 0 ELSE 1
OnceEach(f) ==
    /\ paidMem[f] + pending[f] + Unpaid(f) <= Budget(f)
    /\ paidRow[f] + RowDue(f) <= 1
PaidOncePerPlace == slips = 0 /\ restarts = 0 => \A f \in Fees : OnceEach(f)

ReferralInv == BindTypes /\ EarnTypes /\ Entitled /\ Batches /\ KeptSafe /\ PaidOncePerPlace

LEMMA InitReferral == ReferralInit => ReferralInv
<1> SUFFICES ASSUME ReferralInit PROVE ReferralInv
  OBVIOUS
<1>1. BindTypes
  BY DEF ReferralInit, BindTypes, NoForm
<1>2. EarnTypes
  BY DEF ReferralInit, EarnTypes, NoRowYet, NoEntries, Resting, Rows, Loops
<1>3. Entitled
  BY DEF ReferralInit, Entitled, NoForm, NoRowYet
<1>4. Batches
  BY DEF ReferralInit, Batches, NoRowYet, NoEntries, Resting, Committed
<1>5. KeptSafe
  BY DEF ReferralInit, KeptSafe, NoRowYet, Committed
<1>6. PaidOncePerPlace
  <2>1. syncer.at = "idle" /\ \A f \in Fees : paidMem[f] = 0 /\ paidRow[f] = 0 /\ pending[f] = 0 /\ saving[f] = "none"
    BY DEF ReferralInit, NoEntries, Resting
  <2>2. \A f \in Fees : Unpaid(f) = 0 /\ Budget(f) = 0 /\ RowDue(f) \in {0, 1}
    BY <2>1 DEF Unpaid, Budget, RowDue
  <2>3. \A f \in Fees : OnceEach(f)
    <3> TAKE f \in Fees
    <3>1. RowDue(f) = 0 \/ RowDue(f) = 1
      BY <2>2
    <3> QED BY <2>1, <2>2, <3>1 DEF OnceEach
  <2> QED BY <2>3 DEF PaidOncePerPlace
<1> QED BY <1>1, <1>2, <1>3, <1>4, <1>5, <1>6 DEF ReferralInv

(***************************************************************************)
(* Types.                                                                  *)
(***************************************************************************)

LEMMA BindTypesStep ==
  ASSUME BindTypes, EarnTypes, [ReferralNext]_referralVars
  PROVE  BindTypes'
<1> USE ReferralAssumption
<1>1. ASSUME NEW r \in Forms, NEW x \in Referees, AskToUnbind(r, x)
      PROVE  BindTypes'
  BY <1>1 DEF AskToUnbind, BindTypes, NoForm
<1>2. ASSUME NEW r \in Forms, NEW x \in Referees, NEW c \in Referrers, AskToBind(r, x, c)
      PROVE  BindTypes'
  BY <1>2 DEF AskToBind, BindTypes, Made
<1>3. ASSUME NEW r \in Forms, BindTx(r)
      PROVE  BindTypes'
  <2>1. form[r].who \in Referees /\ form[r].code \in Referrers \cup {Nobody} /\ form[r].old \subseteq Fees
    BY <1>3 DEF BindTx, BindTypes
  <2>2. /\ bound' \in [Referees -> Referrers \cup {Nobody}]
        /\ covered' \subseteq Fees
    BY <1>3, <2>1 DEF BindTx, Relate, Made, BindTypes
  <2>3. /\ form' = [form EXCEPT ![r].pc = "done"] /\ entitled' = entitled
    BY <1>3 DEF BindTx
  <2> QED BY <2>2, <2>3 DEF BindTypes
<1>4. ASSUME NEW f \in Fees, Trade(f)
      PROVE  BindTypes'
  BY <1>4 DEF Trade, BindTypes
<1>5. CASE Restart
  <2> DEFINE Asked == [pc : {"new", "bind", "unbind", "done"}, who : Referees \cup {Nobody},
                       code : Referrers \cup {Nobody}, seen : Referrers \cup {Nobody},
                       old : SUBSET Fees]
  <2>1. NoForm \in Asked /\ \A r \in Forms : [form[r] EXCEPT !.pc = "done"] \in Asked
    BY DEF BindTypes, NoForm
  <2>2. form' \in [Forms -> Asked]
    BY <1>5, <2>1 DEF Restart
  <2>3. \A r \in Forms : form'[r].pc \notin {"bind", "unbind"}
    BY <1>5 DEF Restart, BindTypes, NoForm
  <2> QED BY <1>5, <2>2, <2>3 DEF Restart, BindTypes
<1>6. CASE bindVars' = bindVars
  BY <1>6 DEF bindVars, BindTypes
<1>7. CASE \/ \E f \in Fees : Earn(f) \/ EarnNothing(f) \/ EndTx(f)
           \/ Drain \/ Gather \/ Submit \/ MarkSynced \/ CountAttempt \/ GiveUp
           \/ (\E p \in Referrers : Claim(p)) \/ Redeem \/ Listen \/ UNCHANGED referralVars
  BY <1>6, <1>7 DEF Earn, EarnNothing, EndTx, Drain, Gather, Submit, MarkSynced, CountAttempt,
     GiveUp, Claim, Redeem, Listen, referralVars
<1> QED BY <1>1, <1>2, <1>3, <1>4, <1>5, <1>7 DEF ReferralNext

\* What may be done to one row.
LEMMA RowChanges ==
  ASSUME NEW e \in Rows
  PROVE  /\ [e EXCEPT !.sync = "pending", !.status = "pending"] \in Rows
         /\ [e EXCEPT !.sync = "synced"] \in Rows /\ [e EXCEPT !.sync = "failed"] \in Rows
         /\ [e EXCEPT !.attempts = @ + 1] \in Rows /\ [e EXCEPT !.status = "claimed"] \in Rows
<1>1. [e EXCEPT !.sync = "pending", !.status = "pending"] \in Rows
  BY DEF Rows
<1>2. [e EXCEPT !.sync = "synced"] \in Rows /\ [e EXCEPT !.sync = "failed"] \in Rows
  BY DEF Rows
<1>3. [e EXCEPT !.attempts = e.attempts + 1] \in Rows
  BY DEF Rows
<1>4. [e EXCEPT !.status = "claimed"] \in Rows
  BY DEF Rows
<1> QED BY <1>1, <1>2, <1>3, <1>4

\* The loop at rest, and on its way.
LEMMA LoopChanges ==
  ASSUME syncer \in Loops
  PROVE  /\ Resting \in Loops /\ [Resting EXCEPT !.at = "count"] \in Loops
         /\ [syncer EXCEPT !.at = "mark"] \in Loops /\ [syncer EXCEPT !.at = "giveup"] \in Loops
         /\ \A R \in SUBSET Fees : [syncer EXCEPT !.rows = R, !.at = "send"] \in Loops
BY DEF Loops, Resting, NoEntries

LEMMA EarnTypesStep ==
  ASSUME BindTypes, EarnTypes, [ReferralNext]_referralVars
  PROVE  EarnTypes'
<1> USE ReferralAssumption DEF EarnTypes
<1>0. slips' \in Nat
  <2>1. slips' = slips \/ slips' = slips + 1
    BY DEF ReferralNext, referralVars, AskToUnbind, AskToBind, BindTx, Trade, Earn, EarnNothing,
       EndTx, Drain, Gather, Submit, MarkSynced, CountAttempt, GiveUp, Claim, Redeem, Listen,
       Restart, Slip, NoSlip
  <2> QED BY <2>1
<1>r. NoRowYet \in Rows
  BY DEF NoRowYet, Rows
<1>1. ASSUME NEW r \in Forms, NEW x \in Referees,
             AskToUnbind(r, x) \/ (\E c \in Referrers : AskToBind(r, x, c))
      PROVE  EarnTypes'
  BY <1>1 DEF AskToUnbind, AskToBind, earnVarsOf, chainVars, payVars
<1>2. ASSUME NEW r \in Forms, BindTx(r)
      PROVE  EarnTypes'
  BY <1>0, <1>2 DEF BindTx, earnVarsOf, chainVars, payVars
<1>3. ASSUME NEW f \in Fees, Trade(f)
      PROVE  EarnTypes'
  BY <1>3 DEF Trade, chainVars, payVars
<1>4. ASSUME NEW f \in Fees, Earn(f)
      PROVE  EarnTypes'
  <2>1. Earns(f) \in Referrers \cup {Nobody}
    BY DEF Earns, BindTypes
  <2>2. [NoRowYet EXCEPT !.to = Earns(f)] \in Rows
    BY <2>1 DEF NoRowYet, Rows
  <2> QED BY <1>4, <2>2 DEF Earn, chainVars, payVars
<1>5. ASSUME NEW f \in Fees, EarnNothing(f)
      PROVE  EarnTypes'
  BY <1>5 DEF EarnNothing, chainVars, payVars
<1>6. ASSUME NEW f \in Fees, EndTx(f)
      PROVE  EarnTypes'
  <2>1. saving' \in [Fees -> {"none", "traded", "open", "saved", "lost"}]
    BY <1>6 DEF EndTx
  <2>2. earning' = [earning EXCEPT ![f] = [earning[f] EXCEPT !.sync = "pending", !.status = "pending"]]
        \/ earning' = [earning EXCEPT ![f] = NoRowYet]
    BY <1>6 DEF EndTx
  <2>3. earning' \in [Fees -> Rows]
    <3>1. [earning[f] EXCEPT !.sync = "pending", !.status = "pending"] \in Rows
      BY RowChanges
    <3> QED BY <1>r, <2>2, <3>1
  <2> QED BY <1>0, <1>6, <2>1, <2>3 DEF EndTx, chainVars, payVars
<1>7. CASE Drain
  BY <1>7 DEF Drain, NoEntries, chainVars, payVars, Loops
<1>8. CASE Gather
  <2>1. PICK R \in {{f \in Fees : Offered(f)}, {}} :
          syncer' = IF R = {} /\ syncer.mem = NoEntries THEN Resting
                    ELSE [syncer EXCEPT !.rows = R, !.at = "send"]
    BY <1>8 DEF Gather
  <2>2. syncer' \in Loops
    BY <2>1, LoopChanges
  <2> QED BY <1>0, <1>8, <2>2 DEF Gather, earnVarsOf, chainVars, payVars
<1>9. CASE Submit
  <2>1. syncer' \in Loops
    BY <1>9, LoopChanges DEF Submit
  <2>2. syncer.mem \in [Fees -> Nat]
    BY DEF Loops
  <2>3. pending' \in [Fees -> Nat] /\ paidMem' \in [Fees -> Nat] /\ paidRow' \in [Fees -> Nat]
    BY <1>9, <2>2 DEF Submit, Pay, Refill, payVars
  <2> QED BY <1>0, <1>9, <2>1, <2>3 DEF Submit
<1>10. CASE MarkSynced \/ CountAttempt \/ GiveUp
  <2>1. \/ earning' = earning
        \/ earning' = [f \in Fees |-> IF Waits(f) THEN [earning[f] EXCEPT !.sync = "synced"]
                                      ELSE earning[f]]
        \/ earning' = [f \in Fees |-> IF Offered(f) THEN [earning[f] EXCEPT !.attempts = @ + 1]
                                      ELSE earning[f]]
        \/ earning' = [f \in Fees |-> IF Waits(f) /\ ~Offered(f)
                                      THEN [earning[f] EXCEPT !.sync = "failed"] ELSE earning[f]]
    BY <1>10 DEF MarkSynced, CountAttempt, GiveUp
  <2>2. earning' \in [Fees -> Rows]
    <3>1. earning \in [Fees -> Rows] /\ \A f \in Fees : earning[f] \in Rows
      OBVIOUS
    <3>2. \A f \in Fees : /\ [earning[f] EXCEPT !.sync = "synced"] \in Rows
                          /\ [earning[f] EXCEPT !.attempts = @ + 1] \in Rows
                          /\ [earning[f] EXCEPT !.sync = "failed"] \in Rows
      BY <3>1, RowChanges
    <3>3. CASE earning' = earning
      BY <3>1, <3>3
    <3>4. CASE earning' # earning
      BY <2>1, <3>1, <3>2, <3>4
    <3> QED BY <3>3, <3>4
  <2>3. syncer' \in Loops
    BY <1>10, LoopChanges DEF MarkSynced, CountAttempt, GiveUp
  <2> QED BY <1>0, <1>10, <2>2, <2>3 DEF MarkSynced, CountAttempt, GiveUp, chainVars, payVars
<1>11. CASE Listen
  <2>1. earning' \in [Fees -> Rows]
    BY <1>11, RowChanges DEF Listen
  <2> QED BY <1>0, <1>11, <2>1 DEF Listen, payVars
<1>12. CASE Restart
  <2>1. /\ syncer' \in Loops /\ pending' \in [Fees -> Nat]
        /\ earning' \in [Fees -> Rows]
    BY <1>12, <1>r, LoopChanges DEF Restart, NoEntries
  <2> QED BY <1>12, <2>1 DEF Restart, payVars
<1>13. CASE (\E p \in Referrers : Claim(p)) \/ Redeem \/ UNCHANGED referralVars
  BY <1>13 DEF Claim, Redeem, referralVars, earnVarsOf, chainVars, payVars
<1> QED
  BY <1>1, <1>2, <1>3, <1>4, <1>5, <1>6, <1>7, <1>8, <1>9, <1>10, <1>11, <1>12, <1>13
  DEF ReferralNext

(***************************************************************************)
(* Who is paid.                                                            *)
(***************************************************************************)

\* Steps that touch neither relation nor requests nor trades, and no owner of a row.
LEMMA OwnersKept ==
  ASSUME BindTypes, EarnTypes, Entitled, bindVars' = bindVars, saving' = saving,
         \A f \in Fees : earning'[f].to = earning[f].to
  PROVE  Entitled'
BY DEF Entitled, bindVars, Made, BindTypes

LEMMA EntitledStep ==
  ASSUME BindTypes, EarnTypes, Entitled, [ReferralNext]_referralVars
  PROVE  Entitled'
<1> USE ReferralAssumption
<1>1. ASSUME NEW r \in Forms, NEW x \in Referees, AskToUnbind(r, x)
      PROVE  Entitled'
  BY <1>1 DEF AskToUnbind, Entitled, BindTypes, NoForm, Made, earnVarsOf
<1>2. ASSUME NEW r \in Forms, NEW x \in Referees, NEW c \in Referrers, AskToBind(r, x, c)
      PROVE  Entitled'
  BY <1>2 DEF AskToBind, Entitled, BindTypes, Made, earnVarsOf
<1>3. ASSUME NEW r \in Forms, BindTx(r)
      PROVE  Entitled'
  <2>1. /\ saving' = saving /\ earning' = earning /\ entitled' = entitled
        /\ form' = [form EXCEPT ![r].pc = "done"]
    BY <1>3 DEF BindTx, earnVarsOf
  <2>2. \A q \in Forms : form'[q].pc \in {"bind", "unbind"} => form'[q] = form[q]
    BY <2>1 DEF BindTypes
  <2>3. ASSUME NEW f \in covered'
        PROVE  saving[f] # "none" /\ bound'[TraderOf[f]] \in entitled[f] \cup {Nobody}
    <3>1. CASE UNCHANGED <<bound, covered>>
      BY <3>1 DEF Entitled
    <3>2. CASE Relate(form[r].who, form[r].code, form[r].old)
      <4>1. form[r].pc = "bind" \/ (form[r].pc = "unbind" /\ form[r].code = Nobody)
        BY <1>3 DEF BindTx, Entitled
      <4>2. form[r].who \in Referees /\ TraderOf[f] \in Referees
        BY <1>3, <3>2 DEF BindTx, Relate, Made, BindTypes
      <4>3. CASE f \in covered /\ TraderOf[f] # form[r].who
        BY <3>2, <4>2, <4>3 DEF Relate, Entitled, BindTypes
      <4>4. CASE f \in Made(form[r].who) \ form[r].old
        BY <3>2, <4>1, <4>2, <4>4 DEF Relate, Entitled, BindTypes, Made
      <4> QED BY <3>2, <4>3, <4>4 DEF Relate
    <3> QED BY <1>3, <3>1, <3>2 DEF BindTx
  <2> QED BY <2>1, <2>2, <2>3 DEF Entitled, Made
<1>4. ASSUME NEW f \in Fees, Trade(f)
      PROVE  Entitled'
  <2>1. /\ saving[f] = "none" /\ saving' = [saving EXCEPT ![f] = "traded"]
        /\ bound' = bound /\ form' = form /\ earning' = earning /\ covered' = covered \cup {f}
        /\ \A g \in Fees : g # f => entitled'[g] = entitled[g] /\ saving'[g] = saving[g]
    BY <1>4 DEF Trade, BindTypes, EarnTypes
  <2>2. /\ bound[TraderOf[f]] \in entitled'[f]
        /\ \A r \in Forms : form[r].pc = "bind" /\ form[r].who = TraderOf[f]
                               => form[r].code \in entitled'[f]
    BY <1>4 DEF Trade, BindTypes
  <2>3. saving'[f] = "traded"
    BY <2>1 DEF EarnTypes
  <2>4. \A r \in Forms : form[r].pc = "bind" =>
           \A g \in Made(form[r].who)' \ form[r].old : form[r].code \in entitled'[g]
    BY <2>1, <2>2 DEF Entitled, Made
  <2>5. \A g \in covered' : saving'[g] # "none" /\ bound[TraderOf[g]] \in entitled'[g] \cup {Nobody}
    BY <2>1, <2>2, <2>3 DEF Entitled, BindTypes
  <2>6. \A g \in Fees : /\ earning[g].to \in entitled'[g] \cup {Nobody}
                        /\ saving'[g] = "none" => earning[g].to = Nobody
    BY <2>1, <2>3 DEF Entitled
  <2> QED BY <2>1, <2>4, <2>5, <2>6 DEF Entitled, Made
<1>5. ASSUME NEW f \in Fees, Earn(f)
      PROVE  Entitled'
  <2>1. Earns(f) \in entitled[f] \cup {Nobody}
    BY DEF Earns, Entitled
  <2>2. /\ bindVars' = bindVars /\ saving[f] = "traded"
        /\ saving' = [saving EXCEPT ![f] = "open"]
        /\ earning'[f].to = Earns(f) /\ \A g \in Fees : g # f => earning'[g] = earning[g]
    BY <1>5 DEF Earn, EarnTypes, Rows, NoRowYet
  <2>3. \A g \in Fees : saving'[g] = "none" <=> saving[g] = "none"
    BY <2>2 DEF EarnTypes
  <2> QED BY <2>1, <2>2, <2>3 DEF Entitled, bindVars, Made, EarnTypes, BindTypes
<1>6. ASSUME NEW f \in Fees, EarnNothing(f) \/ EndTx(f)
      PROVE  Entitled'
  <2>1. /\ bindVars' = bindVars
        /\ \A g \in Fees : /\ saving'[g] = "none" <=> saving[g] = "none"
                           /\ earning'[g].to \in {earning[g].to, Nobody}
    BY <1>6 DEF EarnNothing, EndTx, EarnTypes, Rows, NoRowYet
  <2> QED BY <2>1 DEF Entitled, bindVars, Made, BindTypes
<1>7. CASE Restart
  <2>1. /\ bound' = bound /\ covered' = covered /\ entitled' = entitled
        /\ \A g \in Fees : /\ saving'[g] = "none" <=> saving[g] = "none"
                           /\ earning'[g].to \in {earning[g].to, Nobody}
        /\ \A r \in Forms : form'[r].pc \notin {"bind", "unbind"}
    BY <1>7 DEF Restart, EarnTypes, BindTypes, NoRowYet, NoForm
  <2> QED BY <2>1 DEF Entitled, BindTypes
<1>8. CASE MarkSynced \/ CountAttempt \/ GiveUp \/ Listen
  <2>1. bindVars' = bindVars /\ saving' = saving /\ \A f \in Fees : earning'[f].to = earning[f].to
    BY <1>8 DEF MarkSynced, CountAttempt, GiveUp, Listen, EarnTypes, Rows
  <2> QED BY <2>1, OwnersKept
<1>9. CASE \/ Drain \/ Gather \/ Submit \/ (\E p \in Referrers : Claim(p)) \/ Redeem
           \/ UNCHANGED referralVars
  <2>1. bindVars' = bindVars /\ saving' = saving /\ earning' = earning
    BY <1>9 DEF Drain, Gather, Submit, Claim, Redeem, referralVars, earnVarsOf
  <2> QED BY <2>1, OwnersKept
<1> QED BY <1>1, <1>2, <1>3, <1>4, <1>5, <1>6, <1>7, <1>8, <1>9 DEF ReferralNext

(***************************************************************************)
(* Where a commission is, and how often it is paid.                        *)
(***************************************************************************)

BatchInv == EarnTypes /\ Batches /\ KeptSafe /\ PaidOncePerPlace

\* The types of what the argument adds up.
LEMMA Amounts ==
  ASSUME EarnTypes, NEW f \in Fees
  PROVE  /\ paidMem[f] \in Nat /\ paidRow[f] \in Nat /\ pending[f] \in Nat /\ syncer.mem[f] \in Nat
         /\ Unpaid(f) \in Nat /\ RowDue(f) \in Nat
         /\ earning[f].sync \in {"none", "pending", "synced", "failed"}
         /\ saving[f] \in {"none", "traded", "open", "saved", "lost"}
BY DEF EarnTypes, Loops, Rows, Unpaid, RowDue

\* Steps that leave the row, the payment and the loop as they are.
LEMMA BatchKept ==
  ASSUME BatchInv, slips' = 0 => slips = 0, restarts' = restarts, skipped' = skipped,
         saving' = saving, \A f \in Fees : earning'[f].sync = earning[f].sync,
         pending' = pending, payVars' = payVars /\ reverted' = reverted, syncer' = syncer
  PROVE  Batches' /\ KeptSafe' /\ PaidOncePerPlace'
<1> USE DEF BatchInv
<1>1. Batches'
  BY DEF Batches, Committed, EarnTypes, Loops, InBatch, Paid, payVars
<1>2. KeptSafe'
  BY DEF KeptSafe, Committed, Kept, Paid, payVars
<1>3. PaidOncePerPlace'
  BY DEF PaidOncePerPlace, OnceEach, Unpaid, RowDue, Budget, payVars
<1> QED BY <1>1, <1>2, <1>3

LEMMA BatchTrade ==
  ASSUME BatchInv, NEW f \in Fees, Trade(f) \/ EarnNothing(f)
  PROVE  Batches' /\ KeptSafe' /\ PaidOncePerPlace'
<1> USE DEF BatchInv
<1>1. /\ saving[f] \in {"none", "traded"} /\ saving'[f] \in {"traded", "saved"}
      /\ saving'[f] = "traded" => saving[f] = "none"
      /\ \A g \in Fees : g # f => saving'[g] = saving[g]
  BY DEF Trade, EarnNothing, EarnTypes
<1>2. earning' = earning /\ pending' = pending /\ payVars' = payVars /\ reverted' = reverted /\ syncer' = syncer
      /\ skipped' = skipped /\ slips' = slips /\ restarts' = restarts
  BY DEF Trade, EarnNothing, chainVars, payVars
<1>3. ~Committed(f)
  BY <1>1 DEF Batches
<1>4. Batches'
  BY <1>1, <1>2, <1>3 DEF Batches, Committed, EarnTypes, Loops, InBatch, Paid, payVars
<1>5. KeptSafe'
  BY <1>1, <1>2, <1>3 DEF KeptSafe, Committed, Kept, Paid, payVars
<1>6. PaidOncePerPlace'
  <2> SUFFICES ASSUME slips' = 0, restarts' = 0, NEW g \in Fees
               PROVE  OnceEach(g)'
    BY DEF PaidOncePerPlace
  <2>1. OnceEach(g)
    BY <1>2 DEF PaidOncePerPlace
  <2>2. Unpaid(g)' = Unpaid(g) /\ RowDue(g)' = RowDue(g)
    BY <1>2 DEF Unpaid, RowDue
  <2>3. Budget(g) <= Budget(g)' /\ Budget(g) \in Nat /\ Budget(g)' \in Nat
    BY <1>1 DEF Budget
  <2>4. payVars' = payVars /\ pending' = pending
    BY <1>2
  <2> QED BY <2>1, <2>2, <2>3, <2>4, Amounts DEF OnceEach, payVars
<1> QED BY <1>4, <1>5, <1>6

LEMMA BatchEarn ==
  ASSUME BatchInv, NEW f \in Fees, Earn(f)
  PROVE  Batches' /\ KeptSafe' /\ PaidOncePerPlace'
<1> USE DEF BatchInv
<1>1. /\ saving[f] = "traded" /\ saving'[f] = "open" /\ earning'[f].sync = "none"
      /\ pending'[f] = pending[f] + 1
      /\ \A g \in Fees : g # f => /\ saving'[g] = saving[g] /\ earning'[g] = earning[g]
                                  /\ pending'[g] = pending[g]
  BY DEF Earn, EarnTypes, NoRowYet
<1>2. payVars' = payVars /\ reverted' = reverted /\ syncer' = syncer
      /\ skipped' = skipped /\ slips' = slips /\ restarts' = restarts
  BY DEF Earn, chainVars, payVars
<1>3. earning[f].sync = "none"
  BY <1>1 DEF Batches, Committed
<1>4. Batches'
  BY <1>1, <1>2, <1>3 DEF Batches, Committed, EarnTypes, Loops, InBatch, Paid, payVars
<1>5. KeptSafe'
  <2>1. \A g \in Fees : Kept(g) => Kept(g)'
    BY <1>1, <1>2, Amounts DEF Kept, Paid, payVars
  <2>2. Kept(f)'
    BY <1>1, Amounts DEF Kept
  <2>3. \A g \in Fees : Paid(g)' <=> Paid(g)
    BY <1>2 DEF Paid, payVars
  <2> QED BY <1>1, <1>2, <2>1, <2>2, <2>3 DEF KeptSafe, Committed
<1>6. PaidOncePerPlace'
  <2> SUFFICES ASSUME slips' = 0, restarts' = 0, NEW g \in Fees
               PROVE  OnceEach(g)'
    BY DEF PaidOncePerPlace
  <2>1. OnceEach(g)
    BY <1>2 DEF PaidOncePerPlace
  <2>2. Unpaid(g)' = Unpaid(g) /\ RowDue(g)' = RowDue(g)
    BY <1>1, <1>2, <1>3 DEF Unpaid, RowDue
  <2>3. CASE g = f
    <3>1. Budget(g) = 0 /\ Budget(g)' = 1
      BY <1>1, <2>3 DEF Budget
    <3> QED BY <1>1, <1>2, <2>1, <2>2, <2>3, <3>1, Amounts DEF OnceEach, payVars
  <2>4. CASE g # f
    <3>1. Budget(g)' = Budget(g)
      BY <1>1, <2>4 DEF Budget
    <3> QED BY <1>1, <1>2, <2>1, <2>2, <2>4, <3>1 DEF OnceEach, payVars
  <2> QED BY <2>3, <2>4
<1> QED BY <1>4, <1>5, <1>6

LEMMA BatchEnd ==
  ASSUME BatchInv, NEW f \in Fees, EndTx(f)
  PROVE  Batches' /\ KeptSafe' /\ PaidOncePerPlace'
<1> USE DEF BatchInv
<1>1. /\ saving[f] = "open"
      /\ \/ saving'[f] = "saved" /\ earning'[f].sync = "pending" /\ slips' = slips
         \/ saving'[f] = "traded" /\ earning'[f].sync = "none" /\ slips' # 0
      /\ \A g \in Fees : g # f => saving'[g] = saving[g] /\ earning'[g] = earning[g]
  BY DEF EndTx, EarnTypes, Rows, NoRowYet, Slip, NoSlip
<1>2. pending' = pending /\ payVars' = payVars /\ reverted' = reverted /\ syncer' = syncer
      /\ skipped' = skipped /\ restarts' = restarts
  BY DEF EndTx, chainVars, payVars
<1>3. earning[f].sync = "none"
  BY <1>1 DEF Batches, Committed
<1>4. Batches'
  BY <1>1, <1>2, <1>3 DEF Batches, Committed, EarnTypes, Loops, InBatch, Paid, payVars
<1>5. KeptSafe'
  <2>1. \A g \in Fees : (Kept(g)' <=> Kept(g)) /\ (Paid(g)' <=> Paid(g))
    BY <1>2 DEF Kept, Paid, payVars
  <2> QED BY <1>1, <1>2, <2>1 DEF KeptSafe, Committed
<1>6. PaidOncePerPlace'
  <2> SUFFICES ASSUME slips' = 0, restarts' = 0, NEW g \in Fees
               PROVE  OnceEach(g)'
    BY DEF PaidOncePerPlace
  <2>1. OnceEach(g)
    BY <1>1, <1>2 DEF PaidOncePerPlace
  <2>2. Unpaid(g)' = Unpaid(g) /\ RowDue(g)' = RowDue(g) /\ Budget(g)' = Budget(g)
    <3>1. f \notin syncer.rows \/ syncer.at # "mark"
      BY <1>3 DEF Batches
    <3> QED BY <1>1, <1>2, <1>3, <3>1 DEF Unpaid, RowDue, Budget
  <2> QED BY <1>2, <2>1, <2>2 DEF OnceEach, payVars
<1> QED BY <1>4, <1>5, <1>6

LEMMA BatchDrain ==
  ASSUME BatchInv, Drain \/ Gather
  PROVE  Batches' /\ KeptSafe' /\ PaidOncePerPlace'
<1> USE DEF BatchInv
<1>1. saving' = saving /\ earning' = earning /\ payVars' = payVars /\ reverted' = reverted
      /\ skipped' = skipped /\ restarts' = restarts /\ (slips' = 0 => slips = 0)
  BY DEF Drain, Gather, earnVarsOf, chainVars, payVars, EarnTypes, Slip, NoSlip
<1>2. /\ syncer.at \in {"idle", "gather"} /\ syncer'.at \in {"idle", "gather", "send"}
      /\ syncer'.at = "idle" => syncer'.mem = NoEntries
      /\ \A f \in syncer'.rows : syncer'.at = "send" => earning[f].sync = "pending"
  <2>1. CASE Drain
    BY <2>1 DEF Drain
  <2>2. CASE Gather
    <3>1. PICK R \in {{f \in Fees : Offered(f)}, {}} :
            syncer' = IF R = {} /\ syncer.mem = NoEntries THEN Resting
                      ELSE [syncer EXCEPT !.rows = R, !.at = "send"]
      BY <2>2 DEF Gather
    <3>2. \A f \in R : earning[f].sync = "pending"
      BY <3>1 DEF Offered, Waits
    <3> QED BY <2>2, <3>1, <3>2 DEF Gather, EarnTypes, Loops, Resting
  <2> QED BY <2>1, <2>2
<1>3. \A f \in Fees : pending'[f] + syncer'.mem[f] = pending[f] + syncer.mem[f]
                      /\ pending'[f] \in Nat /\ syncer'.mem[f] \in Nat
  <2> TAKE f \in Fees
  <2>1. CASE Drain
    <3>1. syncer.mem[f] = 0
      BY <2>1 DEF Drain, Batches, NoEntries
    <3> QED BY <2>1, <3>1, Amounts DEF Drain, NoEntries
  <2>2. CASE Gather
    <3>1. pending' = pending /\ (syncer'.mem = syncer.mem)
      BY <2>2 DEF Gather, earnVarsOf, EarnTypes, Loops, Resting
    <3> QED BY <3>1, Amounts
  <2> QED BY <2>1, <2>2
<1>4. Batches'
  BY <1>1, <1>2 DEF Batches, Committed
<1>5. KeptSafe'
  <2>1. \A f \in Fees : Kept(f) => Kept(f)'
    <3> TAKE f \in Fees
    <3> QED BY <1>1, <1>3, Amounts DEF Kept, Paid, payVars
  <2> QED BY <1>1, <2>1 DEF KeptSafe, Committed, Paid, payVars
<1>6. PaidOncePerPlace'
  <2> SUFFICES ASSUME slips' = 0, restarts' = 0, NEW f \in Fees
               PROVE  OnceEach(f)'
    BY DEF PaidOncePerPlace
  <2>1. OnceEach(f)
    BY <1>1 DEF PaidOncePerPlace
  <2>2. RowDue(f)' = RowDue(f) /\ Budget(f)' = Budget(f)
    BY <1>1, <1>2 DEF RowDue, Budget
  <2>3. Unpaid(f) = syncer.mem[f] /\ Unpaid(f)' = syncer'.mem[f]
    BY <1>2 DEF Unpaid, Batches, NoEntries
  <2>4. Budget(f) \in Nat
    BY DEF Budget
  <2> QED BY <1>1, <1>3, <2>1, <2>2, <2>3, <2>4, Amounts DEF OnceEach, payVars
<1> QED BY <1>4, <1>5, <1>6

LEMMA BatchSubmit ==
  ASSUME BatchInv, Submit
  PROVE  Batches' /\ KeptSafe' /\ PaidOncePerPlace'
<1> USE DEF BatchInv
<1>1. /\ saving' = saving /\ earning' = earning /\ skipped' = skipped /\ restarts' = restarts
      /\ syncer.at = "send" /\ reverted \subseteq reverted'
  BY DEF Submit
<1>2. Pay => \A f \in Fees :
        /\ paidMem'[f] = paidMem[f] + syncer.mem[f]
        /\ paidRow'[f] = paidRow[f] + (IF f \in syncer.rows THEN 1 ELSE 0)
        /\ Paid(f) \/ InBatch(f) => Paid(f)'
  <2> SUFFICES ASSUME Pay, NEW f \in Fees
               PROVE  /\ paidMem'[f] = paidMem[f] + syncer.mem[f]
                      /\ paidRow'[f] = paidRow[f] + (IF f \in syncer.rows THEN 1 ELSE 0)
                      /\ Paid(f) \/ InBatch(f) => Paid(f)'
    OBVIOUS
  <2>1. /\ paidMem'[f] = paidMem[f] + syncer.mem[f]
        /\ paidRow'[f] = paidRow[f] + (IF f \in syncer.rows THEN 1 ELSE 0)
    BY DEF Pay
  <2> QED BY <2>1, Amounts DEF Paid, InBatch
<1>3. CASE syncer' = [syncer EXCEPT !.at = "mark"] /\ UNCHANGED pending /\ Pay /\ NoSlip /\ UNCHANGED reverted
  <2>1. syncer'.at = "mark" /\ syncer'.mem = syncer.mem /\ syncer'.rows = syncer.rows
        /\ pending' = pending /\ slips' = slips
    BY <1>3 DEF EarnTypes, Loops, NoSlip
  <2>2. \A f \in Fees : Paid(f) \/ InBatch(f) => Paid(f)'
    BY <1>2, <1>3
  <2>3. \A f \in Fees : InBatch(f)' <=> InBatch(f)
    BY <2>1 DEF InBatch
  <2>4. Batches'
    BY <1>1, <2>1, <2>2, <2>3 DEF Batches, Committed
  <2>5. KeptSafe'
    <3>1. \A f \in Fees : Kept(f) => Kept(f)'
      BY <2>1, <2>2 DEF Kept
    <3> QED BY <1>1, <2>2, <3>1 DEF KeptSafe, Committed
  <2>6. PaidOncePerPlace'
    <3> SUFFICES ASSUME slips' = 0, restarts' = 0, NEW f \in Fees
                 PROVE  OnceEach(f)'
      BY DEF PaidOncePerPlace
    <3>1. OnceEach(f)
      BY <1>1, <2>1 DEF PaidOncePerPlace
    <3>2. Unpaid(f) = syncer.mem[f] /\ Unpaid(f)' = 0 /\ Budget(f)' = Budget(f) /\ Budget(f) \in Nat
      BY <1>1, <2>1 DEF Unpaid, Budget
    <3>3. RowDue(f)' + (IF f \in syncer.rows THEN 1 ELSE 0) = RowDue(f) /\ RowDue(f)' \in Nat
      BY <1>1, <2>1 DEF RowDue, Batches
    <3>4. /\ paidMem'[f] = paidMem[f] + syncer.mem[f]
          /\ paidRow'[f] = paidRow[f] + (IF f \in syncer.rows THEN 1 ELSE 0)
      BY <1>2, <1>3
    <3> QED BY <2>1, <3>1, <3>2, <3>3, <3>4, Amounts DEF OnceEach
  <2> QED BY <2>4, <2>5, <2>6
<1>4. CASE /\ syncer' = [syncer EXCEPT !.at = "mark"] /\ UNCHANGED pending /\ Slip
           /\ reverted' = reverted \cup {f \in Fees : InBatch(f)} /\ UNCHANGED payVars
  <2>1. slips' # 0
    BY <1>4 DEF Slip, EarnTypes
  <2>2. syncer'.at = "mark" /\ syncer'.mem = syncer.mem /\ syncer'.rows = syncer.rows /\ pending' = pending
    BY <1>4 DEF EarnTypes, Loops
  <2>3. \A f \in Fees : (InBatch(f)' => f \in reverted') /\ (Paid(f)' <=> Paid(f))
    BY <1>4, <2>2 DEF InBatch, Paid, payVars
  <2>4. Batches'
    BY <1>1, <2>2, <2>3 DEF Batches, Committed
  <2>5. KeptSafe'
    BY <1>1, <2>2, <2>3 DEF KeptSafe, Committed, Kept
  <2> QED BY <2>1, <2>4, <2>5 DEF PaidOncePerPlace
<1>5. CASE /\ Slip /\ Refill /\ (Pay \/ UNCHANGED payVars)
           /\ syncer' = [Resting EXCEPT !.at = "count"] /\ UNCHANGED reverted
  <2>1. slips' # 0
    BY <1>5 DEF Slip, EarnTypes
  <2>2. syncer'.at = "count" /\ syncer'.mem = NoEntries
    BY <1>5 DEF Resting
  <2>3. \A f \in Fees : pending'[f] = pending[f] + syncer.mem[f]
    BY <1>5 DEF Refill
  <2>4. \A f \in Fees : Paid(f) => Paid(f)'
    BY <1>2, <1>5 DEF Paid, payVars
  <2>5. Batches'
    BY <1>1, <2>2 DEF Batches, Committed
  <2>6. KeptSafe'
    <3>1. \A f \in Fees : Kept(f) => Kept(f)'
      <4> TAKE f \in Fees
      <4> QED BY <2>2, <2>3, <2>4, Amounts DEF Kept, NoEntries
    <3> QED BY <1>1, <2>4, <3>1 DEF KeptSafe, Committed
  <2> QED BY <2>1, <2>5, <2>6 DEF PaidOncePerPlace
<1> QED BY <1>3, <1>4, <1>5 DEF Submit

\* The bookkeeping after a batch.  Only a confirmed one lets a row count as settled.
LEMMA BatchBooks ==
  ASSUME BatchInv, MarkSynced \/ CountAttempt \/ GiveUp
  PROVE  Batches' /\ KeptSafe' /\ PaidOncePerPlace'
<1> USE DEF BatchInv
<1>1. /\ saving' = saving /\ pending' = pending /\ payVars' = payVars /\ reverted' = reverted /\ restarts' = restarts
      /\ skipped \subseteq skipped' /\ (slips' = 0 => slips' = slips)
  BY DEF MarkSynced, CountAttempt, GiveUp, chainVars, payVars, Slip, NoSlip, EarnTypes
<1>2. /\ syncer'.mem = NoEntries /\ syncer'.at \in {"idle", "giveup"}
      /\ \A f \in Fees : syncer.mem[f] > 0 => Paid(f) \/ f \in reverted
  <2>1. CASE MarkSynced
    BY <2>1 DEF MarkSynced, Resting, Batches, InBatch
  <2>2. CASE CountAttempt
    BY <2>2 DEF CountAttempt, Batches, NoEntries, EarnTypes, Loops
  <2>3. CASE GiveUp
    BY <2>3 DEF GiveUp, Resting, Batches, NoEntries
  <2> QED BY <2>1, <2>2, <2>3
<1>3. \A f \in Fees :
        \/ earning'[f].sync = earning[f].sync
        \/ earning[f].sync = "pending" /\ earning'[f].sync = "failed" /\ syncer.at # "mark"
        \/ earning[f].sync = "pending" /\ earning'[f].sync = "synced"
             /\ (Paid(f) \/ f \in reverted \/ f \in skipped')
  <2> TAKE f \in Fees
  <2>1. CASE MarkSynced
    <3>1. Waits(f) => Paid(f) \/ f \in reverted \/ (f \notin syncer.rows /\ syncer.mem[f] = 0)
      BY <2>1, Amounts DEF MarkSynced, Batches, InBatch
    <3> QED BY <2>1, <3>1 DEF MarkSynced, Waits, EarnTypes, Rows
  <2>2. CASE CountAttempt
    BY <2>2 DEF CountAttempt, EarnTypes, Rows
  <2>3. CASE GiveUp
    BY <2>3 DEF GiveUp, Waits, EarnTypes, Rows
  <2> QED BY <2>1, <2>2, <2>3
<1>4. Batches'
  BY <1>1, <1>2, <1>3 DEF Batches, Committed
<1>5. KeptSafe'
  <2>1. \A f \in Fees : (Paid(f)' <=> Paid(f)) /\ (Kept(f) => Kept(f)' \/ f \in reverted)
    BY <1>1, <1>2 DEF Kept, Paid, payVars
  <2>2. \A f \in Fees : Paid(f) => Kept(f)
    BY DEF Kept
  <2>3. \A f \in Fees : Kept(f)' \/ ~Paid(f)'
    BY DEF Kept
  <2> QED BY <1>1, <1>3, <2>1, <2>2, <2>3 DEF KeptSafe, Committed
<1>6. PaidOncePerPlace'
  <2> SUFFICES ASSUME slips' = 0, restarts' = 0, NEW f \in Fees
               PROVE  OnceEach(f)'
    BY DEF PaidOncePerPlace
  <2>1. OnceEach(f)
    BY <1>1 DEF PaidOncePerPlace
  <2>2. Unpaid(f)' = 0 /\ Budget(f)' = Budget(f) /\ Budget(f) \in Nat
    BY <1>1, <1>2 DEF Unpaid, Budget
  <2>3. RowDue(f)' <= RowDue(f) /\ RowDue(f)' \in Nat
    <3>1. CASE MarkSynced
      <4>1. CASE earning[f].sync = "pending"
        <5>1. earning'[f].sync = "synced"
          BY <1>1, <3>1, <4>1 DEF MarkSynced, Waits, EarnTypes, Rows, Slip
        <5> QED BY <5>1, Amounts DEF RowDue
      <4>2. CASE earning[f].sync # "pending"
        <5>1. f \notin syncer.rows \/ syncer.at # "mark"
          BY <4>2 DEF Batches
        <5>2. earning'[f].sync = earning[f].sync
          BY <1>3, <4>2
        <5> QED BY <5>1, <5>2 DEF RowDue
      <4> QED BY <4>1, <4>2
    <3>2. CASE CountAttempt \/ GiveUp
      <4>1. syncer.at # "mark"
        BY <3>2 DEF CountAttempt, GiveUp
      <4> QED BY <1>2, <1>3, <4>1 DEF RowDue
    <3> QED BY <3>1, <3>2
  <2>4. Unpaid(f) \in Nat /\ payVars' = payVars /\ pending' = pending
    BY <1>1, Amounts
  <2> QED BY <2>1, <2>2, <2>3, <2>4, Amounts DEF OnceEach, payVars
<1> QED BY <1>4, <1>5, <1>6

LEMMA BatchRestart ==
  ASSUME BatchInv, Restart
  PROVE  Batches' /\ KeptSafe' /\ PaidOncePerPlace'
<1> USE DEF BatchInv
<1>1. /\ restarts' > 0 /\ payVars' = payVars /\ reverted' = reverted /\ skipped' = skipped
      /\ syncer'.at = "idle" /\ syncer'.mem = NoEntries
  BY DEF Restart, Resting, EarnTypes
<1>2. \A f \in Fees : \/ earning'[f].sync = "none" /\ saving'[f] # "open"
                      \/ /\ earning'[f] = earning[f] /\ saving[f] # "open" /\ saving'[f] # "open"
                         /\ saving[f] = "saved" => saving'[f] = "saved"
  BY DEF Restart, NoRowYet, EarnTypes
<1>3. Batches'
  BY <1>1, <1>2 DEF Batches, Committed
<1>4. KeptSafe'
  <2> SUFFICES ASSUME NEW f \in Fees
               PROVE  /\ saving'[f] # "open"
                      /\ Committed(f)' => \/ Kept(f)'
                                          \/ earning'[f].sync \in {"pending", "failed"}
                                          \/ f \in reverted' \/ f \in skipped'
                      /\ earning'[f].sync = "synced" => Paid(f)' \/ f \in reverted' \/ f \in skipped'
    BY <1>1 DEF KeptSafe
  <2>1. earning'[f].sync \in {"none", "pending", "synced", "failed"}
    BY <1>2, Amounts
  <2> QED BY <1>1, <1>2, <2>1 DEF KeptSafe, Committed, Kept, Paid, payVars
<1>5. PaidOncePerPlace'
  BY <1>1, <1>2 DEF PaidOncePerPlace
<1> QED BY <1>3, <1>4, <1>5

LEMMA StepReferral == ReferralInv /\ [ReferralNext]_referralVars => ReferralInv'
<1> SUFFICES ASSUME ReferralInv, [ReferralNext]_referralVars PROVE ReferralInv'
  OBVIOUS
<1>1. BindTypes' /\ EarnTypes' /\ Entitled'
  BY BindTypesStep, EarnTypesStep, EntitledStep DEF ReferralInv
<1>2. BatchInv
  BY DEF ReferralInv, BatchInv
<1>3. CASE \/ \E r \in Forms, x \in Referees : AskToUnbind(r, x) \/ \E c \in Referrers : AskToBind(r, x, c)
           \/ \E r \in Forms : BindTx(r)
           \/ (\E p \in Referrers : Claim(p)) \/ Redeem \/ Listen \/ UNCHANGED referralVars
  <2>0. earning \in [Fees -> Rows] /\ slips \in Nat
    BY <1>2 DEF BatchInv, EarnTypes
  <2>1. /\ slips' = 0 => slips = 0
        /\ restarts' = restarts /\ skipped' = skipped /\ saving' = saving
        /\ pending' = pending /\ payVars' = payVars /\ reverted' = reverted /\ syncer' = syncer
    <3>1. CASE \E r \in Forms, x \in Referees : AskToUnbind(r, x) \/ \E c \in Referrers : AskToBind(r, x, c)
      BY <3>1 DEF AskToUnbind, AskToBind, earnVarsOf, chainVars, payVars
    <3>2. CASE \E r \in Forms : BindTx(r)
      BY <2>0, <3>2 DEF BindTx, earnVarsOf, chainVars, payVars, Slip, NoSlip
    <3>3. CASE (\E p \in Referrers : Claim(p)) \/ Redeem \/ UNCHANGED referralVars
      BY <3>3 DEF Claim, Redeem, referralVars, earnVarsOf, chainVars, payVars
    <3>4. CASE Listen
      BY <2>0, <3>4 DEF Listen, Slip, NoSlip
    <3> QED BY <1>3, <3>1, <3>2, <3>3, <3>4
  <2>2. \A f \in Fees : earning'[f].sync = earning[f].sync
    <3>1. CASE Listen
      BY <2>0, <3>1 DEF Listen, Rows
    <3>2. CASE ~Listen
      <4>1. earning' = earning
        BY <1>3, <3>2 DEF AskToUnbind, AskToBind, BindTx, Claim, Redeem, referralVars, earnVarsOf
      <4> QED BY <4>1
    <3> QED BY <3>1, <3>2
  <2>3. Batches' /\ KeptSafe' /\ PaidOncePerPlace'
    BY <1>2, <2>1, <2>2, BatchKept
  <2> QED BY <1>1, <2>3 DEF ReferralInv
<1>4. CASE \/ \E f \in Fees : Trade(f) \/ Earn(f) \/ EarnNothing(f) \/ EndTx(f)
           \/ Drain \/ Gather \/ Submit \/ MarkSynced \/ CountAttempt \/ GiveUp \/ Restart
  <2>1. Batches' /\ KeptSafe' /\ PaidOncePerPlace'
    BY <1>2, <1>4, BatchTrade, BatchEarn, BatchEnd, BatchDrain, BatchSubmit, BatchBooks, BatchRestart
  <2> QED BY <1>1, <2>1 DEF ReferralInv
<1> QED BY <1>3, <1>4 DEF ReferralNext

\* A commission goes to who was the referrer at the trade or was just being bound;
\* a committed one is paid or still waits unless its batch reverted or a restart
\* took the memory; and without failures its entry and its row are each paid at most
\* once: for any number of requests, commissions, failed statements and restarts.
THEOREM CommissionsFollowTrades == ReferralSpec => []CommissionFollows
<1>1. ReferralInv => CommissionFollows
  <2> SUFFICES ASSUME ReferralInv, NEW f \in Fees
               PROVE  /\ earning[f].to \in entitled[f] \cup {Nobody}
                      /\ Committed(f) => \/ Kept(f)
                                         \/ f \in reverted
                                         \/ restarts > 0 /\ (earning[f].sync \in {"pending", "failed"} \/ f \in skipped)
                      /\ slips = 0 /\ restarts = 0 => paidMem[f] <= 1 /\ paidRow[f] <= 1
    BY DEF CommissionFollows
  <2>1. slips = 0 /\ restarts = 0 => paidMem[f] <= 1 /\ paidRow[f] <= 1
    <3>1. Budget(f) \in {0, 1}
      BY DEF Budget
    <3> QED BY <3>1, Amounts DEF ReferralInv, PaidOncePerPlace, OnceEach
  <2>2. earning[f].to \in entitled[f] \cup {Nobody}
    BY DEF ReferralInv, Entitled
  <2>3. Committed(f) => \/ Kept(f)
                        \/ f \in reverted
                        \/ restarts > 0 /\ (earning[f].sync \in {"pending", "failed"} \/ f \in skipped)
    BY DEF ReferralInv, KeptSafe
  <2> QED BY <2>1, <2>2, <2>3
<1> QED BY <1>1, InitReferral, StepReferral, PTL DEF ReferralSpec

(***************************************************************************)
(* Points.  The limits are kept by who is awarded by one teller at a time: *)
(* then what a teller read is still the summary when it writes, and the    *)
(* counters of the summary are no less than what was awarded.              *)
(***************************************************************************)

Days == 1..LastDay
Counter == [used : Nat, day : 0..LastDay, week : Nat, weekDay : 0..LastDay]
Duties == [kind : Kinds \cup {"rp"}, user : Users]
Jobs == [duties : Seq(Duties),
         pc : {"look", "decide", "write", "checked", "opened", "paying"},
         seen : Counter, points : Nat, paid : Nat]

PointTypes ==
    /\ today \in Days
    /\ summary \in [Users -> [Kinds -> Counter]]
    /\ rpUsed \in [Users -> Nat]
    /\ heard \in Seq(Deals)
    /\ teller \in [Tellers -> Jobs]
    /\ awards \in [Users -> [Kinds -> [Days -> Nat]]]

\* Teller p awards points of kind k to user u.
Awarding(p, k, u) ==
    /\ teller[p].duties # <<>> /\ teller[p].pc \in {"decide", "write"}
    /\ Now(p).kind = k /\ Now(p).user = u

\* Teller p is inside its referral transaction.
Paying(p) == teller[p].duties # <<>> /\ teller[p].pc \in Open

\* Only the hourly batch has duties for open positions; what a teller does is
\* written in its duty.
DutiesApart ==
    /\ \A p \in Tellers \ {"batch"} : \A i \in 1..Len(teller[p].duties) : teller[p].duties[i].kind # "hp"
    /\ \A p \in Tellers : teller[p].duties # <<>> =>
          /\ teller[p].pc \in {"decide", "write"} => Now(p).kind \in Kinds
          /\ teller[p].pc \in {"checked", "opened", "paying"} =>
                Now(p).kind = "rp" /\ ReferrerOf[Now(p).user] \in Users

\* Two tellers that award the same are on record.
OverlapsKnown ==
    /\ \A p, q \in Tellers, u \in Users, k \in Kinds :
          p # q /\ Awarding(p, k, u) /\ Awarding(q, k, u) => <<u, k>> \in overlapped
    /\ \A p, q \in Tellers, u \in Users :
          p # q /\ Paying(p) /\ Paying(q) /\ u \in Payees(p) /\ u \in Payees(q)
             => <<u, "rp">> \in overlapped
    /\ \A u \in Users : <<u, "hp">> \notin overlapped

\* The counter of the day is no less than what the day has brought.
DayKept(s, a, cap) ==
    /\ s.day <= today /\ s.used <= cap
    /\ \A d \in Days : /\ a[d] <= cap
                       /\ d > s.day => a[d] = 0
                       /\ d = s.day => a[d] <= s.used

\* ... and the counter of the week no less than what the week has brought.
WeekKept(s, a) ==
    /\ s.week <= WeekCap /\ s.weekDay <= s.day
    /\ s.day # 0 => s.weekDay # 0 /\ WeekOf[s.weekDay] = WeekOf[s.day]
    /\ \A d \in Days : OneYear(DaysOf(WeekOf[d])) =>
          LET n == SumFunctionOnSet(a, DaysOf(WeekOf[d])) IN
          /\ n <= WeekCap
          /\ s.day # 0 /\ WeekOf[s.day] = WeekOf[d] => n <= s.week

\* What a teller is about to write keeps them so.
DayFits(k, s, t) ==
    IF k = "tp"
    THEN /\ t.seen.used <= DayCap[k] /\ t.points <= t.seen.used
         /\ s.day = today => s.used + t.points <= t.seen.used
    ELSE /\ t.points <= DayCap[k]
         /\ s.day = today => s.used + t.points <= DayCap[k]
WeekFits(s, t) ==
    /\ t.seen.week <= WeekCap /\ t.points <= t.seen.week
    /\ OneYear(DaysOf(WeekOf[today])) /\ s.weekDay # 0 /\ WeekOf[s.weekDay] = WeekOf[today]
         => s.week + t.points <= t.seen.week

JobFits(p, k, u) ==
    /\ teller[p].pc = "decide" => teller[p].seen = summary[u][k]
    /\ teller[p].pc = "write" =>
          /\ DayFits(k, summary[u][k], teller[p])
          /\ k = "tp" => WeekFits(summary[u][k], teller[p])

AwardsKept == \A u \in Users, k \in Kinds :
    <<u, k>> \notin overlapped =>
       /\ DayKept(summary[u][k], awards[u][k], DayCap[k])
       /\ k = "tp" => WeekKept(summary[u][k], awards[u][k])
       /\ \A p \in Tellers : Awarding(p, k, u) => JobFits(p, k, u)

\* What the transactions under way will add to a user's referral points.
ReferralsKept == \A u \in Users :
    <<u, "rp">> \notin overlapped =>
       /\ rpUsed[u] <= RpCap
       /\ \A p \in Tellers : Paying(p) =>
             /\ u = ReferrerOf[Now(p).user] =>
                  rpUsed[u] + (IF teller[p].pc = "opened" THEN teller[p].points ELSE teller[p].paid) <= RpCap
             /\ u = Now(p).user /\ teller[p].pc = "paying" => rpUsed[u] + teller[p].points <= RpCap

PointsInv == DutiesApart /\ OverlapsKnown /\ AwardsKept /\ ReferralsKept

LEMMA RestTyped == Fresh \in Counter /\ AtRest \in Jobs
<1>1. 0 \in Nat /\ 0 \in 0..LastDay /\ << >> \in Seq(Duties)
  BY CalendarAssumption
<1> QED BY <1>1 DEF Fresh, AtRest, NeverReset, Counter, Jobs

LEMMA InitPointTypes == PointsInit => PointTypes
<1>1. 1 \in Days
  BY CalendarAssumption DEF Days
<1> QED BY <1>1, RestTyped DEF PointsInit, PointTypes, Days

LEMMA DutyTyped ==
  ASSUME NEW k \in Kinds \cup {"rp"}, NEW u \in Users
  PROVE  Duty(k, u) \in Duties /\ Duty(k, u).kind = k /\ Duty(k, u).user = u
BY DEF Duty, Duties

LEMMA DealTyped ==
  ASSUME NEW t \in Deals
  PROVE  /\ DealDuties(t) \in Seq(Duties)
         /\ \A i \in 1..Len(DealDuties(t)) : DealDuties(t)[i].kind # "hp"
<1>1. MakerOf[t] \in Users /\ TakerOf[t] \in Users /\ "tp" \in Kinds /\ "tp" # "hp" /\ "rp" # "hp"
  BY PointsAssumption DEF Kinds
<1>2. PICK a \in Duties, b \in Duties, c \in Duties, d \in Duties :
         /\ a = Duty("tp", MakerOf[t]) /\ b = Duty("tp", TakerOf[t])
         /\ c = Duty("rp", MakerOf[t]) /\ d = Duty("rp", TakerOf[t])
         /\ a.kind # "hp" /\ b.kind # "hp" /\ c.kind # "hp" /\ d.kind # "hp"
  BY <1>1, DutyTyped
<1>3. DealDuties(t) = <<a, b, c, d>>
  BY <1>2 DEF DealDuties
<1>4. /\ <<a, b, c, d>> \in Seq(Duties) /\ Len(<<a, b, c, d>>) = 4
      /\ <<a, b, c, d>>[1] = a /\ <<a, b, c, d>>[2] = b /\ <<a, b, c, d>>[3] = c /\ <<a, b, c, d>>[4] = d
  OBVIOUS
<1>5. \A i \in 1..4 : i = 1 \/ i = 2 \/ i = 3 \/ i = 4
  OBVIOUS
<1> QED BY <1>2, <1>3, <1>4, <1>5

LEMMA NowTyped ==
  ASSUME PointTypes, NEW p \in Tellers, teller[p].duties # <<>>
  PROVE  /\ Now(p) \in Duties /\ Now(p).user \in Users /\ Now(p).kind \in Kinds \cup {"rp"}
         /\ Tail(teller[p].duties) \in Seq(Duties)
<1>1. teller[p].duties \in Seq(Duties)
  BY DEF PointTypes, Jobs
<1>2. Head(teller[p].duties) \in Duties /\ Tail(teller[p].duties) \in Seq(Duties)
  BY <1>1
<1> QED BY <1>2 DEF Now, Duties

LEMMA LessNat ==
  ASSUME NEW a \in Nat, NEW b \in Nat
  PROVE  /\ Less(a, b) \in Nat /\ Less(a, b) <= a /\ (b <= a => b + Less(a, b) <= a)
         /\ Least(a, b) \in Nat /\ Least(a, b) <= a /\ Least(a, b) <= b
BY DEF Less, Least

LEMMA UsedTyped ==
  ASSUME NEW s \in Counter
  PROVE  UsedToday(s) \in Nat /\ UsedThisWeek(s) \in Nat
BY DEF Counter, UsedToday, UsedThisWeek

\* What is allowed fits into what is left.
LEMMA AllowedFits ==
  ASSUME NEW k \in Kinds, NEW s \in Counter, NEW raw \in RawPoints
  PROVE  LET n == Allowed(k, s, raw) IN
         /\ n \in Nat
         /\ n <= DayCap[k]
         /\ UsedToday(s) <= DayCap[k] => UsedToday(s) + n <= DayCap[k]
         /\ k = "tp" => n <= WeekCap
         /\ k = "tp" /\ UsedThisWeek(s) <= WeekCap => UsedThisWeek(s) + n <= WeekCap
<1>1. PICK c \in Nat, w \in Nat, a \in Nat, b \in Nat, m \in Nat :
        c = DayCap[k] /\ w = WeekCap /\ a = UsedToday(s) /\ b = UsedThisWeek(s) /\ m = raw
  BY UsedTyped, LimitAssumption
<1>2. PICK l \in Nat, x \in Nat : l = Less(c, a) /\ x = Least(m, l) /\ l <= c /\ x <= l /\ (a <= c => a + l <= c)
  BY LessNat
<1>3. PICK v \in Nat, y \in Nat : v = Less(w, b) /\ y = Least(x, v) /\ v <= w /\ y <= v /\ y <= x /\ (b <= w => b + v <= w)
  BY LessNat
<1>4. Allowed(k, s, raw) = IF k = "tp" THEN y ELSE x
  BY <1>1, <1>2, <1>3 DEF Allowed
<1> QED BY <1>1, <1>2, <1>3, <1>4

LEMMA WrittenIs ==
  ASSUME NEW k \in Kinds, NEW s \in Counter, NEW t \in Jobs, today \in Days
  PROVE  LET w == Written(k, s, t) IN
         /\ w \in Counter /\ w.day = today
         /\ k = "tp" => /\ w.used = t.seen.used /\ w.week = t.seen.week
                        /\ w.weekDay = IF s.weekDay # 0 /\ WeekOf[s.weekDay] = WeekOf[today]
                                       THEN s.weekDay ELSE today
         /\ k # "tp" => /\ w.used = IF s.day < today THEN t.points ELSE s.used + t.points
                        /\ w.week = s.week /\ w.weekDay = s.weekDay
<1>1. /\ today \in 0..LastDay /\ s.weekDay \in 0..LastDay /\ s.day \in 0..LastDay /\ s.used \in Nat /\ s.week \in Nat
      /\ t.seen \in Counter /\ t.points \in Nat /\ t.seen.used \in Nat /\ t.seen.week \in Nat
  BY SMTT(30), CalendarAssumption DEF Counter, Jobs, Days
<1>2. CASE k = "tp"
  BY <1>1, <1>2 DEF Written, NeverReset, Counter
<1>3. CASE k # "tp"
  <2>1. (IF s.day < today THEN t.points ELSE s.used + t.points) \in Nat
    BY <1>1
  <2>2. Written(k, s, t) = [s EXCEPT !.used = IF s.day < today THEN t.points ELSE s.used + t.points,
                                     !.day = today]
    BY <1>3 DEF Written
  <2> QED BY <1>1, <1>3, <2>1, <2>2 DEF Counter
<1> QED BY <1>2, <1>3

LEMMA ProceedTyped ==
  ASSUME PointTypes, NEW p \in Tellers, NEW rest \in Seq(Duties), Proceed(p, rest)
  PROVE  /\ teller' \in [Tellers -> Jobs]
         /\ teller'[p].duties = rest /\ teller'[p].pc = "look"
         /\ \A q \in Tellers \ {p} : teller'[q] = teller[q]
<1>1. [AtRest EXCEPT !.duties = rest] \in Jobs
  BY RestTyped DEF Jobs
<1>2. [AtRest EXCEPT !.duties = rest].duties = rest /\ [AtRest EXCEPT !.duties = rest].pc = "look"
  BY DEF AtRest
<1> QED BY <1>1, <1>2 DEF Proceed, PointTypes

\* A step that sets a teller to its next duties, or leaves them all.
Turns(p) ==
    \/ \E rest \in Seq(Duties) :
          /\ p # "batch" => \A i \in 1..Len(rest) : rest[i].kind # "hp"
          /\ Proceed(p, rest)
    \/ UNCHANGED teller

LEMMA TailTurns ==
  ASSUME PointTypes, DutiesApart, NEW p \in Tellers, teller[p].duties # <<>>, NextDuty(p)
  PROVE  Turns(p)
<1>1. Tail(teller[p].duties) \in Seq(Duties) /\ teller[p].duties \in Seq(Duties)
  BY NowTyped DEF PointTypes, Jobs
<1>2. ASSUME p # "batch", NEW i \in 1..Len(Tail(teller[p].duties))
      PROVE  Tail(teller[p].duties)[i].kind # "hp"
  <2>1. \A j \in 1..Len(teller[p].duties) : teller[p].duties[j].kind # "hp"
    BY <1>2 DEF DutiesApart
  <2>2. Tail(teller[p].duties)[i] = teller[p].duties[i + 1] /\ i + 1 \in 1..Len(teller[p].duties)
    BY <1>1, <1>2
  <2> QED BY <2>1, <2>2
<1> QED BY <1>1, <1>2 DEF NextDuty, Turns

LEMMA TurnTyped ==
  ASSUME PointTypes, NEW p \in Tellers, Turns(p)
  PROVE  /\ teller' \in [Tellers -> Jobs]
         /\ \A q \in Tellers \ {p} : teller'[q] = teller[q]
         /\ teller'[p] = teller[p] \/ teller'[p].pc = "look"
         /\ teller'[p] = teller[p]
              \/ p = "batch" \/ \A i \in 1..Len(teller'[p].duties) : teller'[p].duties[i].kind # "hp"
<1>1. CASE UNCHANGED teller
  BY <1>1 DEF PointTypes
<1>2. CASE \E rest \in Seq(Duties) :
             /\ p # "batch" => \A i \in 1..Len(rest) : rest[i].kind # "hp"
             /\ Proceed(p, rest)
  <2>1. PICK rest \in Seq(Duties) :
             /\ p # "batch" => \A i \in 1..Len(rest) : rest[i].kind # "hp"
             /\ Proceed(p, rest)
    BY <1>2
  <2>2. /\ teller' \in [Tellers -> Jobs]
        /\ teller'[p].duties = rest /\ teller'[p].pc = "look"
        /\ \A q \in Tellers \ {p} : teller'[q] = teller[q]
    BY <2>1, ProceedTyped
  <2> QED BY <2>1, <2>2
<1> QED BY <1>1, <1>2 DEF Turns

\* Who only turns to the next duties disturbs nobody.
LEMMA TurnKeeps ==
  ASSUME PointTypes, PointsInv, NEW p \in Tellers, Turns(p),
         UNCHANGED <<today, summary, rpUsed, awards, overlapped>>
  PROVE  PointsInv'
<1>1. /\ \A q \in Tellers \ {p} : teller'[q] = teller[q]
      /\ teller'[p] = teller[p] \/ teller'[p].pc = "look"
      /\ teller'[p] = teller[p]
           \/ p = "batch" \/ \A i \in 1..Len(teller'[p].duties) : teller'[p].duties[i].kind # "hp"
  BY TurnTyped
<1>2. \A q \in Tellers : teller'[q] = teller[q] \/ teller'[q].pc = "look"
  BY <1>1
<1>3. \A q \in Tellers, u \in Users, k \in Kinds :
        Awarding(q, k, u)' => teller'[q] = teller[q] /\ Awarding(q, k, u)
  BY <1>2 DEF Awarding, Now
<1>4. \A q \in Tellers :
        Paying(q)' => teller'[q] = teller[q] /\ Paying(q) /\ Payees(q)' = Payees(q) /\ Now(q)' = Now(q)
  BY <1>2 DEF Paying, Open, Payees, Now
<1>5. DutiesApart'
  <2>1. ASSUME NEW q \in Tellers \ {"batch"}, NEW i \in 1..Len(teller'[q].duties)
        PROVE  teller'[q].duties[i].kind # "hp"
    BY <1>1, <2>1 DEF PointsInv, DutiesApart
  <2>2. ASSUME NEW q \in Tellers, teller'[q].duties # <<>>
        PROVE  /\ teller'[q].pc \in {"decide", "write"} => Now(q)'.kind \in Kinds
               /\ teller'[q].pc \in {"checked", "opened", "paying"} =>
                      Now(q)'.kind = "rp" /\ ReferrerOf[Now(q)'.user] \in Users
    BY <1>2, <2>2 DEF PointsInv, DutiesApart, Now
  <2> QED BY <2>1, <2>2 DEF DutiesApart
<1>6. OverlapsKnown'
  BY <1>3, <1>4 DEF PointsInv, OverlapsKnown
<1>7. AwardsKept'
  <2> SUFFICES ASSUME NEW u \in Users, NEW k \in Kinds, <<u, k>> \notin overlapped
               PROVE  /\ DayKept(summary[u][k], awards[u][k], DayCap[k])'
                      /\ k = "tp" => WeekKept(summary[u][k], awards[u][k])'
                      /\ \A q \in Tellers : Awarding(q, k, u)' => JobFits(q, k, u)'
    BY DEF AwardsKept
  <2>1. /\ DayKept(summary[u][k], awards[u][k], DayCap[k])
        /\ k = "tp" => WeekKept(summary[u][k], awards[u][k])
        /\ \A q \in Tellers : Awarding(q, k, u) => JobFits(q, k, u)
    BY DEF PointsInv, AwardsKept
  <2>2. ASSUME NEW q \in Tellers, Awarding(q, k, u)' PROVE JobFits(q, k, u)'
    <3>1. JobFits(q, k, u) /\ teller'[q] = teller[q]
      BY <1>3, <2>1, <2>2
    <3> QED BY <3>1 DEF JobFits, DayFits, WeekFits
  <2>3. DayKept(summary[u][k], awards[u][k], DayCap[k])'
    BY <2>1 DEF DayKept
  <2>4. k = "tp" => WeekKept(summary[u][k], awards[u][k])'
    BY <2>1 DEF WeekKept
  <2> QED BY <2>2, <2>3, <2>4
<1>8. ReferralsKept'
  BY <1>4 DEF PointsInv, ReferralsKept
<1> QED BY <1>5, <1>6, <1>7, <1>8 DEF PointsInv

\* A new day finds its counters unused; a new week, too.
LEMMA MidnightKeeps ==
  ASSUME PointTypes, PointsInv, Midnight
  PROVE  PointsInv'
<1>1. /\ today \in Days /\ today' = today + 1 /\ today' \in Days
      /\ UNCHANGED <<summary, rpUsed, triggered, awards, teller, overlapped>>
  BY CalendarAssumption DEF PointTypes, Days, Midnight, ledger
<1>2. DutiesApart' /\ OverlapsKnown' /\ ReferralsKept'
  BY <1>1 DEF PointsInv, DutiesApart, OverlapsKnown, ReferralsKept, Awarding, Paying, Payees, Now
<1>3. AwardsKept'
  <2> SUFFICES ASSUME NEW u \in Users, NEW k \in Kinds, <<u, k>> \notin overlapped
               PROVE  /\ DayKept(summary[u][k], awards[u][k], DayCap[k])'
                      /\ k = "tp" => WeekKept(summary[u][k], awards[u][k])'
                      /\ \A q \in Tellers : Awarding(q, k, u)' => JobFits(q, k, u)'
    BY <1>1 DEF AwardsKept
  <2> DEFINE s == summary[u][k]
  <2>1. /\ DayKept(s, awards[u][k], DayCap[k])
        /\ k = "tp" => WeekKept(s, awards[u][k])
        /\ \A q \in Tellers : Awarding(q, k, u) => JobFits(q, k, u)
    BY DEF PointsInv, AwardsKept
  <2>2. s \in Counter /\ s.day \in 0..LastDay /\ s.weekDay \in 0..LastDay
    BY DEF PointTypes, Counter
  <2>3. s.day <= today /\ s.day <= today' /\ s.day # today'
    BY <1>1, <2>1, <2>2 DEF DayKept, Days
  <2>4. DayKept(s, awards[u][k], DayCap[k])'
    BY <1>1, <2>1, <2>3 DEF DayKept
  <2>5. k = "tp" => WeekKept(s, awards[u][k])'
    BY <1>1, <2>1 DEF WeekKept
  <2>6. ASSUME NEW q \in Tellers, Awarding(q, k, u)' PROVE JobFits(q, k, u)'
    <3>1. Awarding(q, k, u) /\ JobFits(q, k, u)
      BY <1>1, <2>1, <2>6 DEF Awarding, Now
    <3>2. teller[q].pc = "decide" => teller[q].seen = s
      BY <3>1 DEF JobFits
    <3>3. CASE teller[q].pc = "write"
      <4>1. DayFits(k, s, teller[q])
        BY <3>1, <3>3 DEF JobFits
      <4>2. DayFits(k, s, teller[q])'
        BY <1>1, <2>3, <4>1 DEF DayFits
      <4>3. k = "tp" => WeekFits(s, teller[q])'
        <5> SUFFICES ASSUME k = "tp" PROVE WeekFits(s, teller[q])'
          OBVIOUS
        <5>1. WeekFits(s, teller[q]) /\ s.weekDay <= s.day
          BY <2>1, <3>1, <3>3 DEF JobFits, WeekKept
        <5>2. ASSUME s.weekDay # 0, WeekOf[s.weekDay] = WeekOf[today'] PROVE WeekOf[today'] = WeekOf[today]
          <6>1. s.weekDay \in 1..LastDay /\ s.weekDay <= today /\ today <= today'
            BY <1>1, <2>2, <2>3, <5>1, <5>2 DEF Days
          <6> QED BY <1>1, <5>2, <6>1, CalendarAssumption DEF Days
        <5> QED BY <1>1, <5>1, <5>2 DEF WeekFits, OneYear, DaysOf
      <4> QED BY <1>1, <3>3, <4>2, <4>3 DEF JobFits
    <3> QED BY <1>1, <3>2, <3>3 DEF JobFits
  <2> QED BY <1>1, <2>4, <2>5, <2>6
<1> QED BY <1>2, <1>3 DEF PointsInv

\* A step of teller p within a duty: the others' views stay.
Within(p) ==
    /\ \A q \in Tellers \ {p} : teller'[q] = teller[q]
    /\ teller'[p].duties = teller[p].duties

LEMMA WithinDuties ==
  ASSUME DutiesApart, NEW p \in Tellers, Within(p),
         teller'[p].pc \in {"decide", "write"} => Now(p).kind \in Kinds,
         teller'[p].pc \in {"checked", "opened", "paying"} =>
            Now(p).kind = "rp" /\ ReferrerOf[Now(p).user] \in Users
  PROVE  DutiesApart' /\ \A q \in Tellers : Now(q)' = Now(q)
<1>1. \A q \in Tellers : teller'[q].duties = teller[q].duties
  BY DEF Within
<1>2. \A q \in Tellers : Now(q)' = Now(q)
  BY <1>1 DEF Now
<1>3. ASSUME NEW q \in Tellers \ {"batch"}, NEW i \in 1..Len(teller'[q].duties)
      PROVE  teller'[q].duties[i].kind # "hp"
  BY <1>1 DEF DutiesApart
<1>4. ASSUME NEW q \in Tellers, teller'[q].duties # <<>>
      PROVE  /\ teller'[q].pc \in {"decide", "write"} => Now(q)'.kind \in Kinds
             /\ teller'[q].pc \in {"checked", "opened", "paying"} =>
                    Now(q)'.kind = "rp" /\ ReferrerOf[Now(q)'.user] \in Users
  <2>1. CASE q = p
    BY <1>2, <2>1
  <2>2. CASE q # p
    BY <1>1, <1>2, <1>4, <2>2 DEF Within, DutiesApart
  <2> QED BY <2>1, <2>2
<1> QED BY <1>2, <1>3, <1>4 DEF DutiesApart

LEMMA LookKeeps ==
  ASSUME PointTypes, PointsInv, NEW p \in Tellers, Look(p)
  PROVE  PointsInv' /\ teller' \in [Tellers -> Jobs]
<1> DEFINE u == Now(p).user
           k == Now(p).kind
<1>1. /\ teller[p].duties # <<>> /\ teller[p].pc = "look" /\ k \in Kinds /\ u \in Users
      /\ teller' = [teller EXCEPT ![p].pc = "decide", ![p].seen = summary[u][k]]
      /\ overlapped' = overlapped \cup
            (IF Others(p, k, u, {"decide", "write"}) # {} THEN {<<u, k>>} ELSE {})
      /\ UNCHANGED <<today, summary, rpUsed, awards>>
  BY NowTyped DEF Look, At, outside, ledger
<1>2. /\ teller'[p].pc = "decide" /\ teller'[p].seen = summary[u][k] /\ Within(p)
      /\ teller' \in [Tellers -> Jobs]
  <2>1. summary[u][k] \in Counter /\ teller[p] \in Jobs
    BY <1>1 DEF PointTypes
  <2>2. [teller[p] EXCEPT !.pc = "decide", !.seen = summary[u][k]] \in Jobs
    BY <2>1 DEF Jobs
  <2> QED BY <1>1, <2>1, <2>2 DEF PointTypes, Within, Jobs
<1>3. DutiesApart' /\ \A q \in Tellers : Now(q)' = Now(q)
  BY <1>1, <1>2, WithinDuties DEF PointsInv
<1>4. \A q \in Tellers \ {p}, v \in Users, c \in Kinds : Awarding(q, c, v)' <=> Awarding(q, c, v)
  BY <1>2, <1>3 DEF Awarding, Within
<1>5. \A v \in Users, c \in Kinds : Awarding(p, c, v)' => v = u /\ c = k
  BY <1>3 DEF Awarding
<1>6. \A q \in Tellers : Paying(q)' => Paying(q) /\ q # p /\ Payees(q)' = Payees(q) /\ teller'[q] = teller[q]
  BY <1>2, <1>3 DEF Paying, Within, Payees, Open
<1>7. ASSUME NEW q \in Tellers \ {p}, Awarding(q, k, u) PROVE <<u, k>> \in overlapped'
  <2>1. q \in Others(p, k, u, {"decide", "write"})
    BY <1>7 DEF Awarding, Others, At
  <2> QED BY <1>1, <2>1
<1>8. OverlapsKnown'
  <2>1. ASSUME NEW q \in Tellers, NEW r \in Tellers, NEW v \in Users, NEW c \in Kinds,
               q # r, Awarding(q, c, v)', Awarding(r, c, v)'
        PROVE  <<v, c>> \in overlapped'
    <3>1. CASE q # p /\ r # p
      BY <1>1, <1>4, <2>1, <3>1 DEF PointsInv, OverlapsKnown
    <3>2. CASE q = p
      BY <1>4, <1>5, <1>7, <2>1, <3>2
    <3>3. CASE r = p
      BY <1>4, <1>5, <1>7, <2>1, <3>3
    <3> QED BY <3>1, <3>2, <3>3
  <2>2. ASSUME NEW q \in Tellers, NEW r \in Tellers, NEW v \in Users,
               q # r, Paying(q)', Paying(r)', v \in Payees(q)', v \in Payees(r)'
        PROVE  <<v, "rp">> \in overlapped'
    BY <1>1, <1>6, <2>2 DEF PointsInv, OverlapsKnown
  <2>3. ASSUME NEW v \in Users PROVE <<v, "hp">> \notin overlapped'
    <3>1. <<v, "hp">> \notin overlapped
      BY DEF PointsInv, OverlapsKnown
    <3>2. CASE k = "hp"
      <4>1. p = "batch"
        <5> SUFFICES ASSUME p # "batch" PROVE FALSE
          OBVIOUS
        <5>1. teller[p].duties \in Seq(Duties)
          BY DEF PointTypes, Jobs
        <5>2. 1 \in 1..Len(teller[p].duties) /\ Now(p) = teller[p].duties[1]
          BY <1>1, <5>1 DEF Now
        <5> QED BY <3>2, <5>2 DEF PointsInv, DutiesApart
      <4>2. Others(p, k, u, {"decide", "write"}) = {}
        <5> SUFFICES ASSUME NEW q \in Tellers \ {p}, teller[q].duties # <<>>, Now(q).kind = "hp" PROVE FALSE
          BY <3>2 DEF Others, At
        <5>1. teller[q].duties \in Seq(Duties)
          BY DEF PointTypes, Jobs
        <5>2. 1 \in 1..Len(teller[q].duties) /\ Now(q) = teller[q].duties[1]
          BY <5>1 DEF Now
        <5> QED BY <4>1, <5>2 DEF PointsInv, DutiesApart
      <4> QED BY <1>1, <3>1, <4>2
    <3>3. CASE k # "hp"
      BY <1>1, <3>1, <3>3
    <3> QED BY <3>2, <3>3
  <2> QED BY <2>1, <2>2, <2>3 DEF OverlapsKnown
<1>9. AwardsKept'
  <2> SUFFICES ASSUME NEW v \in Users, NEW c \in Kinds, <<v, c>> \notin overlapped'
               PROVE  /\ DayKept(summary[v][c], awards[v][c], DayCap[c])'
                      /\ c = "tp" => WeekKept(summary[v][c], awards[v][c])'
                      /\ \A q \in Tellers : Awarding(q, c, v)' => JobFits(q, c, v)'
    BY DEF AwardsKept
  <2>1. /\ DayKept(summary[v][c], awards[v][c], DayCap[c])
        /\ c = "tp" => WeekKept(summary[v][c], awards[v][c])
        /\ \A q \in Tellers : Awarding(q, c, v) => JobFits(q, c, v)
    BY <1>1 DEF PointsInv, AwardsKept
  <2>2. ASSUME NEW q \in Tellers, Awarding(q, c, v)' PROVE JobFits(q, c, v)'
    <3>1. CASE q = p
      BY <1>1, <1>2, <1>5, <2>2, <3>1 DEF JobFits
    <3>2. CASE q # p
      <4>1. JobFits(q, c, v) /\ teller'[q] = teller[q]
        BY <1>2, <1>4, <2>1, <2>2, <3>2 DEF Within
      <4> QED BY <1>1, <4>1 DEF JobFits, DayFits, WeekFits
    <3> QED BY <3>1, <3>2
  <2>3. DayKept(summary[v][c], awards[v][c], DayCap[c])'
    BY <1>1, <2>1 DEF DayKept
  <2>4. c = "tp" => WeekKept(summary[v][c], awards[v][c])'
    BY <1>1, <2>1 DEF WeekKept
  <2> QED BY <2>2, <2>3, <2>4
<1>10. ReferralsKept'
  BY <1>1, <1>3, <1>6 DEF PointsInv, ReferralsKept
<1> QED BY <1>2, <1>3, <1>8, <1>9, <1>10 DEF PointsInv

LEMMA DecideKeeps ==
  ASSUME PointTypes, PointsInv, NEW p \in Tellers, Decide(p)
  PROVE  PointsInv' /\ teller' \in [Tellers -> Jobs]
<1>0. /\ teller[p].duties # <<>> /\ teller[p].pc = "decide" /\ Now(p).kind \in Kinds /\ Now(p).user \in Users
      /\ UNCHANGED <<today, summary, rpUsed, awards, overlapped>> /\ teller[p] \in Jobs
  BY NowTyped DEF Decide, At, outside, ledger, PointTypes
<1>1. PICK u \in Users, k \in Kinds, s \in Counter :
        u = Now(p).user /\ k = Now(p).kind /\ s = teller[p].seen
  BY <1>0 DEF Jobs
<1>2. Awarding(p, k, u) /\ today \in Days
  BY <1>0, <1>1 DEF Awarding, PointTypes
<1>3. CASE NextDuty(p)
  <2>1. Turns(p)
    BY <1>0, <1>3, TailTurns DEF PointsInv
  <2> QED BY <1>0, <2>1, TurnKeeps, TurnTyped
<1>4. ASSUME NEW raw \in RawPoints, NEW n, n = Allowed(k, s, raw),
             teller' = [teller EXCEPT ![p].pc = "write", ![p].points = n,
                                      ![p].seen.used = UsedToday(s) + n,
                                      ![p].seen.week = UsedThisWeek(s) + n]
      PROVE  PointsInv' /\ teller' \in [Tellers -> Jobs]
  <2>1. /\ n \in Nat /\ UsedToday(s) \in Nat /\ UsedThisWeek(s) \in Nat /\ n <= DayCap[k]
        /\ UsedToday(s) <= DayCap[k] => UsedToday(s) + n <= DayCap[k]
        /\ k = "tp" => n <= WeekCap
        /\ k = "tp" /\ UsedThisWeek(s) <= WeekCap => UsedThisWeek(s) + n <= WeekCap
    BY <1>0, <1>1, <1>2, <1>4, AllowedFits, UsedTyped
  <2>2. /\ teller' \in [Tellers -> Jobs] /\ Within(p)
        /\ teller'[p].pc = "write" /\ teller'[p].points = n
        /\ teller'[p].seen.used = UsedToday(s) + n /\ teller'[p].seen.week = UsedThisWeek(s) + n
    <3>1. UsedToday(s) + n \in Nat /\ UsedThisWeek(s) + n \in Nat
      BY <2>1
    <3>2. PICK x \in Nat, y \in Nat : x = UsedToday(s) + n /\ y = UsedThisWeek(s) + n
      BY <3>1
    <3>3. teller' = [teller EXCEPT ![p].pc = "write", ![p].points = n, ![p].seen.used = x, ![p].seen.week = y]
      BY <1>4, <3>2
    <3>4. teller'[p] = [teller[p] EXCEPT !.pc = "write", !.points = n,
                                         !.seen = [s EXCEPT !.used = x, !.week = y]]
      BY <1>0, <1>1, <3>3 DEF PointTypes, Jobs
    <3>5. [s EXCEPT !.used = x, !.week = y] \in Counter
      BY <1>1 DEF Counter
    <3>6. teller'[p] \in Jobs /\ teller'[p].seen = [s EXCEPT !.used = x, !.week = y]
          /\ teller'[p].pc = "write" /\ teller'[p].points = n /\ teller'[p].duties = teller[p].duties
      BY <1>0, <1>1, <2>1, <3>4, <3>5 DEF Jobs
    <3>7. \A q \in Tellers \ {p} : teller'[q] = teller[q]
      BY <3>3 DEF PointTypes
    <3>8. teller' \in [Tellers -> Jobs]
      <4>1. DOMAIN teller' = Tellers /\ teller' = [q \in Tellers |-> teller'[q]]
        <5>1. DOMAIN teller' = DOMAIN teller /\ teller' = [q \in DOMAIN teller |-> teller'[q]]
          BY <3>3
        <5> QED BY <5>1 DEF PointTypes
      <4> QED BY <3>6, <3>7, <4>1 DEF PointTypes
    <3> QED BY <1>1, <3>2, <3>6, <3>7, <3>8 DEF Within, Counter
  <2>3. DutiesApart' /\ \A q \in Tellers : Now(q)' = Now(q)
    BY <1>0, <1>1, <2>2, WithinDuties DEF PointsInv
  <2>4. \A q \in Tellers, v \in Users, c \in Kinds : Awarding(q, c, v)' <=> Awarding(q, c, v)
    BY <1>0, <1>1, <2>2, <2>3 DEF Awarding, Within
  <2>5. \A q \in Tellers : Paying(q)' => Paying(q) /\ q # p /\ Payees(q)' = Payees(q) /\ teller'[q] = teller[q]
    BY <2>2, <2>3 DEF Paying, Within, Payees, Open
  <2>6. OverlapsKnown'
    BY <1>0, <1>1, <2>4, <2>5 DEF PointsInv, OverlapsKnown
  <2>7. ASSUME NEW v \in Users, NEW c \in Kinds, <<v, c>> \notin overlapped,
               NEW q \in Tellers, Awarding(q, c, v)'
        PROVE  JobFits(q, c, v)'
    <3>1. Awarding(q, c, v) /\ JobFits(q, c, v) /\ DayKept(summary[v][c], awards[v][c], DayCap[c])
          /\ (c = "tp" => WeekKept(summary[v][c], awards[v][c]))
      BY <2>4, <2>7 DEF PointsInv, AwardsKept
    <3>2. CASE q # p
      <4>1. teller'[q] = teller[q]
        BY <2>2, <3>2 DEF Within
      <4> QED BY <1>0, <1>1, <3>1, <4>1 DEF JobFits, DayFits, WeekFits
    <3>3. CASE q = p
      <4>1. c = k /\ v = u /\ s = summary[u][k]
        BY <1>0, <1>1, <3>1, <3>3 DEF Awarding, JobFits
      <4>2. s.used \in Nat /\ s.week \in Nat /\ s.day \in 0..LastDay /\ s.weekDay \in 0..LastDay
        BY <1>1 DEF Counter
      <4>3. s.used <= DayCap[k] /\ DayCap[k] \in Nat /\ s.day <= today
        BY <3>1, <4>1, LimitAssumption DEF DayKept
      <4>4. UsedToday(s) <= DayCap[k] /\ (s.day = today => UsedToday(s) = s.used)
        BY <4>2, <4>3 DEF UsedToday
      <4>5. UsedToday(s) + n <= DayCap[k] /\ n <= UsedToday(s) + n
        BY <2>1, <4>4
      <4>6. DayFits(k, summary[u][k], teller[p])'
        <5>1. CASE s.day = today
          BY <1>0, <1>1, <2>1, <2>2, <4>1, <4>4, <4>5, <5>1 DEF DayFits
        <5>2. CASE s.day # today
          BY <1>0, <1>1, <2>1, <2>2, <4>1, <4>5, <5>2 DEF DayFits
        <5> QED BY <5>1, <5>2
      <4>7. ASSUME k = "tp" PROVE WeekFits(summary[u][k], teller[p])'
        <5>1. s.week <= WeekCap /\ s.weekDay <= s.day
          BY <3>1, <4>1, <4>7 DEF WeekKept
        <5>2. UsedThisWeek(s) <= WeekCap
          BY <4>2, <5>1, LimitAssumption DEF UsedThisWeek
        <5>3. UsedThisWeek(s) + n <= WeekCap /\ n <= UsedThisWeek(s) + n
          BY <2>1, <4>7, <5>2
        <5>4. ASSUME OneYear(DaysOf(WeekOf[today])), s.weekDay # 0, WeekOf[s.weekDay] = WeekOf[today]
              PROVE  UsedThisWeek(s) = s.week
          <6>1. s.weekDay \in 1..LastDay /\ today \in 1..LastDay
            BY <1>2, <4>2, <5>4 DEF Days
          <6>2. s.weekDay \in DaysOf(WeekOf[today]) /\ today \in DaysOf(WeekOf[today])
            BY <5>4, <6>1 DEF DaysOf
          <6>3. YearOf[s.weekDay] = YearOf[today]
            BY <5>4, <6>2 DEF OneYear
          <6> QED BY <5>4, <6>3 DEF UsedThisWeek, NeverReset
        <5>5. /\ teller'[p].seen.week = UsedThisWeek(s) + n /\ teller'[p].points = n
              /\ summary'[u][k] = s /\ today' = today
          BY <1>0, <2>2, <4>1
        <5>6. teller'[p].seen.week <= WeekCap /\ teller'[p].points <= teller'[p].seen.week
          BY <5>3, <5>5
        <5>7. OneYear(DaysOf(WeekOf[today])) /\ s.weekDay # 0 /\ WeekOf[s.weekDay] = WeekOf[today]
                => s.week + n <= UsedThisWeek(s) + n
          BY <2>1, <4>2, <5>4
        <5> QED BY <5>5, <5>6, <5>7 DEF WeekFits
      <4> QED BY <1>0, <1>1, <2>2, <3>3, <4>1, <4>6, <4>7 DEF JobFits
    <3> QED BY <3>2, <3>3
  <2>8. AwardsKept'
    <3> SUFFICES ASSUME NEW v \in Users, NEW c \in Kinds, <<v, c>> \notin overlapped
                 PROVE  /\ DayKept(summary[v][c], awards[v][c], DayCap[c])'
                        /\ c = "tp" => WeekKept(summary[v][c], awards[v][c])'
      BY <1>0, <1>1, <2>7 DEF AwardsKept
    <3>1. /\ DayKept(summary[v][c], awards[v][c], DayCap[c])
          /\ c = "tp" => WeekKept(summary[v][c], awards[v][c])
      BY DEF PointsInv, AwardsKept
    <3>2. DayKept(summary[v][c], awards[v][c], DayCap[c])'
      BY <1>0, <1>1, <3>1 DEF DayKept
    <3>3. c = "tp" => WeekKept(summary[v][c], awards[v][c])'
      BY <1>0, <1>1, <3>1 DEF WeekKept
    <3> QED BY <3>2, <3>3
  <2>9. ReferralsKept'
    BY <1>0, <1>1, <2>3, <2>5 DEF PointsInv, ReferralsKept
  <2> QED BY <2>2, <2>3, <2>6, <2>8, <2>9 DEF PointsInv
<1>5. (\E raw \in RawPoints :
         \/ NextDuty(p)
         \/ teller' = [teller EXCEPT ![p].pc = "write", ![p].points = Allowed(k, s, raw),
                                     ![p].seen.used = UsedToday(s) + Allowed(k, s, raw),
                                     ![p].seen.week = UsedThisWeek(s) + Allowed(k, s, raw)])
  BY <1>1 DEF Decide
<1> QED BY <1>3, <1>4, <1>5
LEMMA WeekFinite == ASSUME NEW w PROVE IsFiniteSet(DaysOf(w)) /\ DaysOf(w) \subseteq Days
<1>1. IsFiniteSet(1..LastDay)
  BY CalendarAssumption, FS_Interval
<1>2. DaysOf(w) \in SUBSET (1..LastDay)
  BY DEF DaysOf
<1> QED BY <1>1, <1>2, FS_Subset DEF Days


\* The first award of a week finds nothing awarded in it.
LEMMA NewWeek ==
  ASSUME NEW s \in Counter, NEW a \in [Days -> Nat], NEW d \in Days, s.day <= d,
         \A e \in Days : e > s.day => a[e] = 0,
         s.day = 0 \/ WeekOf[s.day] # WeekOf[d]
  PROVE  SumFunctionOnSet(a, DaysOf(WeekOf[d])) = 0
<1>1. ASSUME NEW e \in DaysOf(WeekOf[d]) PROVE a[e] = 0
  <2>1. e \in Days /\ WeekOf[e] = WeekOf[d] /\ s.day \in 0..LastDay
    BY DEF DaysOf, Days, Counter
  <2> SUFFICES ASSUME ~(e > s.day) PROVE FALSE
    BY <2>1
  <2>2. s.day \in 1..LastDay /\ e <= s.day
    BY <2>1 DEF Days
  <2>3. WeekOf[s.day] = WeekOf[e]
    BY <2>1, <2>2, CalendarAssumption DEF Days
  <2> QED BY <2>1, <2>2, <2>3 DEF Days
<1>2. IsFiniteSet(DaysOf(WeekOf[d]))
  BY WeekFinite
<1> QED BY <1>1, <1>2, SumZero

LEMMA WeekChange ==
  ASSUME NEW a \in [Days -> Nat], NEW b \in [Days -> Nat], NEW S, IsFiniteSet(S), S \subseteq Days,
         NEW d \in S, \A e \in Days \ {d} : b[e] = a[e]
  PROVE  SumFunctionOnSet(b, S) = SumFunctionOnSet(a, S) + b[d] - a[d]
<1>1. \A e \in S : a[e] \in Int /\ b[e] \in Int
  OBVIOUS
<1>2. \A e \in S \ {d} : b[e] = a[e]
  OBVIOUS
<1> QED BY <1>1, <1>2, SumChange

\* An award of n on day d raises the sum of its week by n and no other.
LEMMA WeekAward ==
  ASSUME NEW a \in [Days -> Nat], NEW b \in [Days -> Nat], NEW d \in Days, NEW n \in Nat,
         b[d] = a[d] + n, \A e \in Days \ {d} : b[e] = a[e], NEW w
  PROVE  /\ SumFunctionOnSet(a, DaysOf(w)) \in Nat /\ SumFunctionOnSet(b, DaysOf(w)) \in Nat
         /\ WeekOf[d] = w => SumFunctionOnSet(b, DaysOf(w)) = SumFunctionOnSet(a, DaysOf(w)) + n
         /\ WeekOf[d] # w => SumFunctionOnSet(b, DaysOf(w)) = SumFunctionOnSet(a, DaysOf(w))
<1>1. IsFiniteSet(DaysOf(w)) /\ \A e \in DaysOf(w) : e \in Days /\ a[e] \in Nat /\ b[e] \in Nat
  BY WeekFinite
<1>3. SumFunctionOnSet(a, DaysOf(w)) \in Nat /\ SumFunctionOnSet(b, DaysOf(w)) \in Nat
  BY <1>1, SumNat
<1>4. CASE WeekOf[d] = w
  <2>1. d \in DaysOf(w)
    BY <1>4 DEF DaysOf, Days
  <2>2. SumFunctionOnSet(b, DaysOf(w)) = SumFunctionOnSet(a, DaysOf(w)) + b[d] - a[d]
    <3>1. IsFiniteSet(DaysOf(w)) /\ DaysOf(w) \subseteq Days
      BY WeekFinite
    <3> QED BY <2>1, <3>1, WeekChange
  <2>3. a[d] \in Nat
    OBVIOUS
  <2> QED BY <1>3, <1>4, <2>2, <2>3
<1>5. CASE WeekOf[d] # w
  <2>1. \A e \in DaysOf(w) : a[e] \in Int /\ b[e] = a[e]
    BY <1>1, <1>5 DEF DaysOf
  <2> QED BY <1>1, <1>3, <1>5, <2>1, SumSame
<1> QED BY <1>3, <1>4, <1>5

\* The counters after a write that fits.
LEMMA DayWritten ==
  ASSUME PointTypes, NEW k \in Kinds, NEW s \in Counter, NEW t \in Jobs, NEW a \in [Days -> Nat],
         NEW b \in [Days -> Nat], NEW w, w = Written(k, s, t),
         b[today] = a[today] + t.points, \A e \in Days \ {today} : b[e] = a[e],
         DayKept(s, a, DayCap[k]), DayFits(k, s, t)
  PROVE  DayKept(w, b, DayCap[k])
<1>1. PICK n \in Nat, c \in Nat, d \in Days : n = t.points /\ c = DayCap[k] /\ d = today
  BY LimitAssumption DEF Jobs, PointTypes
<1>2. b[d] = a[d] + n /\ (\A e \in Days \ {d} : b[e] = a[e]) /\ \A e \in Days : a[e] \in Nat /\ b[e] \in Nat
  BY <1>1
<1>0. today \in Days /\ w \in Counter /\ w.day = today
  BY WrittenIs DEF PointTypes
<1>3. s.day \in Nat /\ s.used \in Nat /\ w.day = d /\ w.used \in Nat /\ t.seen.used \in Nat /\ d \in Nat
  BY <1>0, <1>1 DEF Counter, Jobs, Days
<1>4. s.day <= d /\ (\A e \in Days : e > s.day => a[e] = 0) /\ s.used <= c
      /\ (\A e \in Days : e = s.day => a[e] <= s.used) /\ (\A e \in Days : a[e] <= c)
  BY <1>1 DEF DayKept
<1>5. w.used <= c /\ b[d] <= w.used
  <2>1. CASE k = "tp"
    <3>1. w.used = t.seen.used /\ t.seen.used <= c /\ n <= t.seen.used
          /\ (s.day = d => s.used + n <= t.seen.used)
      BY <1>1, <2>1, WrittenIs DEF DayFits, PointTypes
    <3>2. CASE s.day = d
      <4>1. a[d] <= s.used
        BY <1>4, <3>2
      <4> QED BY <1>2, <1>3, <3>1, <3>2, <4>1
    <3>3. CASE s.day # d
      <4>1. a[d] = 0
        BY <1>3, <1>4, <3>3
      <4> QED BY <1>2, <1>3, <3>1, <4>1
    <3> QED BY <3>2, <3>3
  <2>2. CASE k # "tp"
    <3>1. w.used = (IF s.day < d THEN n ELSE s.used + n) /\ n <= c
          /\ (s.day = d => s.used + n <= c)
      BY <1>1, <2>2, WrittenIs DEF DayFits, PointTypes
    <3>2. CASE s.day = d
      <4>1. a[d] <= s.used
        BY <1>4, <3>2
      <4> QED BY <1>2, <1>3, <3>1, <3>2, <4>1
    <3>3. CASE s.day # d
      <4>1. a[d] = 0 /\ s.day < d
        BY <1>3, <1>4, <3>3
      <4> QED BY <1>2, <1>3, <3>1, <4>1
    <3> QED BY <3>2, <3>3
  <2> QED BY <2>1, <2>2
<1>6. \A e \in Days : b[e] <= c /\ (e > d => b[e] = 0) /\ (e = d => b[e] <= w.used)
  <2> SUFFICES ASSUME NEW e \in Days PROVE b[e] <= c /\ (e > d => b[e] = 0) /\ (e = d => b[e] <= w.used)
    OBVIOUS
  <2>1. CASE e = d
    BY <1>1, <1>2, <1>3, <1>5, <2>1
  <2>2. CASE e # d
    BY <1>1, <1>2, <1>3, <1>4, <2>2 DEF Days
  <2> QED BY <2>1, <2>2
<1> QED BY <1>1, <1>3, <1>5, <1>6 DEF DayKept

LEMMA WeekWritten ==
  ASSUME PointTypes, NEW s \in Counter, NEW t \in Jobs, NEW a \in [Days -> Nat],
         NEW b \in [Days -> Nat], NEW w, w = Written("tp", s, t),
         b[today] = a[today] + t.points, \A e \in Days \ {today} : b[e] = a[e],
         NEW c, DayKept(s, a, c), WeekKept(s, a), WeekFits(s, t)
  PROVE  WeekKept(w, b)
<1>1. PICK n \in Nat, W \in Nat, d \in Days : n = t.points /\ W = WeekCap /\ d = today
  BY LimitAssumption DEF Jobs, PointTypes
<1>0. /\ today \in Days /\ w \in Counter /\ w.day = today /\ w.week = t.seen.week
      /\ w.weekDay = IF s.weekDay # 0 /\ WeekOf[s.weekDay] = WeekOf[today] THEN s.weekDay ELSE today
  <2>1. "tp" \in Kinds /\ today \in Days
    BY DEF Kinds, PointTypes
  <2> QED BY <2>1, WrittenIs
<1>2. /\ s.day \in Nat /\ s.weekDay \in 0..LastDay /\ s.week \in Nat /\ t.seen.week \in Nat
      /\ w.day = d /\ w.week = t.seen.week /\ d \in Nat /\ d # 0
      /\ w.weekDay = IF s.weekDay # 0 /\ WeekOf[s.weekDay] = WeekOf[d] THEN s.weekDay ELSE d
  BY <1>0, <1>1 DEF Counter, Jobs, Days
<1>3. /\ s.day <= d /\ (\A e \in Days : e > s.day => a[e] = 0)
      /\ s.week <= W /\ s.weekDay <= s.day
      /\ s.day # 0 => s.weekDay # 0 /\ WeekOf[s.weekDay] = WeekOf[s.day]
  BY <1>1 DEF DayKept, WeekKept
<1>4. /\ t.seen.week <= W /\ n <= t.seen.week
      /\ OneYear(DaysOf(WeekOf[d])) /\ s.weekDay # 0 /\ WeekOf[s.weekDay] = WeekOf[d]
           => s.week + n <= t.seen.week
  BY <1>1 DEF WeekFits
<1>5. w.week <= W /\ w.weekDay <= w.day /\ w.weekDay # 0 /\ WeekOf[w.weekDay] = WeekOf[d]
  BY <1>2, <1>3, <1>4
<1>6. ASSUME NEW e \in Days, OneYear(DaysOf(WeekOf[e]))
      PROVE  /\ SumFunctionOnSet(b, DaysOf(WeekOf[e])) <= W
             /\ WeekOf[d] = WeekOf[e] => SumFunctionOnSet(b, DaysOf(WeekOf[e])) <= w.week
  <2>1. PICK x \in Nat, y \in Nat :
          /\ x = SumFunctionOnSet(a, DaysOf(WeekOf[e])) /\ y = SumFunctionOnSet(b, DaysOf(WeekOf[e]))
          /\ WeekOf[d] = WeekOf[e] => y = x + n
          /\ WeekOf[d] # WeekOf[e] => y = x
    <3>1. b[d] = a[d] + n /\ \A f \in Days \ {d} : b[f] = a[f]
      BY <1>1
    <3>2. /\ SumFunctionOnSet(a, DaysOf(WeekOf[e])) \in Nat /\ SumFunctionOnSet(b, DaysOf(WeekOf[e])) \in Nat
          /\ WeekOf[d] = WeekOf[e] => SumFunctionOnSet(b, DaysOf(WeekOf[e])) = SumFunctionOnSet(a, DaysOf(WeekOf[e])) + n
          /\ WeekOf[d] # WeekOf[e] => SumFunctionOnSet(b, DaysOf(WeekOf[e])) = SumFunctionOnSet(a, DaysOf(WeekOf[e]))
      BY <3>1, WeekAward
    <3> QED BY <3>2
  <2>2. x <= W /\ (s.day # 0 /\ WeekOf[s.day] = WeekOf[e] => x <= s.week)
    BY <1>1, <1>6, <2>1 DEF WeekKept
  <2>3. CASE WeekOf[d] # WeekOf[e]
    BY <2>1, <2>2, <2>3
  <2>4. CASE WeekOf[d] = WeekOf[e]
    <3>1. CASE s.day # 0 /\ WeekOf[s.day] = WeekOf[d]
      <4>1. s.week + n <= t.seen.week /\ x <= s.week
        BY <1>3, <1>4, <1>6, <2>2, <2>4, <3>1
      <4> QED BY <1>1, <1>2, <1>4, <2>1, <2>4, <4>1
    <3>2. CASE s.day = 0 \/ WeekOf[s.day] # WeekOf[d]
      <4>1. SumFunctionOnSet(a, DaysOf(WeekOf[d])) = 0
        BY <1>3, <3>2, NewWeek
      <4>2. x = 0
        BY <2>1, <2>4, <4>1
      <4> QED BY <1>1, <1>2, <1>4, <2>1, <2>4, <4>2
    <3> QED BY <3>1, <3>2
  <2> QED BY <2>1, <2>3, <2>4
<1> QED BY <1>1, <1>2, <1>5, <1>6 DEF WeekKept

\* What turning to the next duty leaves of a teller.
LEMMA TurnViews ==
  ASSUME PointTypes, NEW p \in Tellers, Turns(p)
  PROVE  /\ \A q \in Tellers, u \in Users, k \in Kinds :
              Awarding(q, k, u)' => teller'[q] = teller[q] /\ Awarding(q, k, u)
         /\ \A q \in Tellers :
              Paying(q)' => teller'[q] = teller[q] /\ Paying(q) /\ Payees(q)' = Payees(q) /\ Now(q)' = Now(q)
<1>1. \A q \in Tellers : teller'[q] = teller[q] \/ teller'[q].pc = "look"
  BY TurnTyped
<1> QED BY <1>1 DEF Awarding, Paying, Open, Payees, Now

LEMMA TurnDuties ==
  ASSUME PointTypes, DutiesApart, NEW p \in Tellers, Turns(p)
  PROVE  DutiesApart'
<1>1. /\ \A q \in Tellers \ {p} : teller'[q] = teller[q]
      /\ teller'[p] = teller[p] \/ teller'[p].pc = "look"
      /\ teller'[p] = teller[p]
           \/ p = "batch" \/ \A i \in 1..Len(teller'[p].duties) : teller'[p].duties[i].kind # "hp"
  BY TurnTyped
<1>2. \A q \in Tellers : teller'[q] = teller[q] \/ teller'[q].pc = "look"
  BY <1>1
<1>3. ASSUME NEW q \in Tellers \ {"batch"}, NEW i \in 1..Len(teller'[q].duties)
      PROVE  teller'[q].duties[i].kind # "hp"
  BY <1>1, <1>3 DEF DutiesApart
<1>4. ASSUME NEW q \in Tellers, teller'[q].duties # <<>>
      PROVE  /\ teller'[q].pc \in {"decide", "write"} => Now(q)'.kind \in Kinds
             /\ teller'[q].pc \in {"checked", "opened", "paying"} =>
                    Now(q)'.kind = "rp" /\ ReferrerOf[Now(q)'.user] \in Users
  BY <1>2, <1>4 DEF DutiesApart, Now
<1> QED BY <1>3, <1>4 DEF DutiesApart

LEMMA WriteKeeps ==
  ASSUME PointTypes, PointsInv, NEW p \in Tellers, Write(p)
  PROVE  PointsInv' /\ PointTypes'
<1>0. /\ teller[p].duties # <<>> /\ teller[p].pc = "write" /\ Now(p).kind \in Kinds /\ Now(p).user \in Users
      /\ UNCHANGED <<today, heard, rpUsed, overlapped>> /\ teller[p] \in Jobs /\ today \in Days
  BY NowTyped DEF Write, At, outside, PointTypes
<1>1. PICK u \in Users, k \in Kinds, t \in Jobs : u = Now(p).user /\ k = Now(p).kind /\ t = teller[p]
  BY <1>0
<1>2. PICK s \in Counter, a \in [Days -> Nat] : s = summary[u][k] /\ a = awards[u][k]
  BY DEF PointTypes
<1>3. Awarding(p, k, u)
  BY <1>0, <1>1 DEF Awarding
<1>4. Turns(p)
  <2>1. NextDuty(p) \/ Proceed(p, <<>>)
    BY <1>0 DEF Write
  <2>2. CASE NextDuty(p)
    BY <1>0, <2>2, TailTurns DEF PointsInv
  <2>3. CASE Proceed(p, <<>>)
    <3>1. <<>> \in Seq(Duties) /\ \A i \in 1..Len(<<>>) : <<>>[i].kind # "hp"
      OBVIOUS
    <3> QED BY <2>3, <3>1 DEF Turns
  <2> QED BY <2>1, <2>2, <2>3
<1>5. teller' \in [Tellers -> Jobs]
  BY <1>4, TurnTyped
<1>6. CASE UNCHANGED <<summary, awards>>
  BY <1>0, <1>4, <1>5, <1>6, TurnKeeps DEF PointTypes
<1>7. CASE /\ summary' = [summary EXCEPT ![u][k] = Written(k, @, t)]
           /\ awards' = [awards EXCEPT ![u][k][today] = @ + t.points]
           /\ NextDuty(p)
  <2>1. PICK w \in Counter, n \in Nat, d \in Days : w = Written(k, s, t) /\ n = t.points /\ d = today
    <3>1. Written(k, s, t) \in Counter
      BY <1>0, WrittenIs
    <3> QED BY <1>0, <3>1 DEF Jobs
  <2>2. PICK b \in [Days -> Nat] : b = [a EXCEPT ![d] = @ + n]
    <3>1. a[d] + n \in Nat
      OBVIOUS
    <3>2. [a EXCEPT ![d] = a[d] + n] \in [Days -> Nat]
      BY <3>1
    <3> QED BY <3>2
  <2>3. /\ summary' = [summary EXCEPT ![u] = [summary[u] EXCEPT ![k] = w]]
        /\ awards' = [awards EXCEPT ![u] = [awards[u] EXCEPT ![k] = b]]
    BY <1>2, <1>7, <2>1, <2>2 DEF PointTypes
  <2>4. /\ summary' \in [Users -> [Kinds -> Counter]] /\ awards' \in [Users -> [Kinds -> [Days -> Nat]]]
        /\ summary'[u][k] = w /\ awards'[u][k] = b
        /\ \A v \in Users, c \in Kinds :
              (v = u /\ c = k) \/ (summary'[v][c] = summary[v][c] /\ awards'[v][c] = awards[v][c])
    BY <2>3 DEF PointTypes
  <2>5. b[d] = a[d] + n /\ \A e \in Days \ {d} : b[e] = a[e]
    BY <2>2
  <2>6. /\ \A q \in Tellers, v \in Users, c \in Kinds :
              Awarding(q, c, v)' => teller'[q] = teller[q] /\ Awarding(q, c, v)
        /\ \A q \in Tellers :
              Paying(q)' => teller'[q] = teller[q] /\ Paying(q) /\ Payees(q)' = Payees(q) /\ Now(q)' = Now(q)
    BY <1>4, TurnViews
  <2>7. DutiesApart' /\ OverlapsKnown' /\ ReferralsKept'
    BY ZenonT(40), <1>0, <1>4, <2>6, TurnDuties DEF PointsInv, OverlapsKnown, ReferralsKept
  <2>8. ~Awarding(p, k, u)'
    <3>1. teller'[p].pc = "look"
      <4>1. Tail(teller[p].duties) \in Seq(Duties) /\ Proceed(p, Tail(teller[p].duties))
        BY <1>0, <1>7, NowTyped DEF NextDuty
      <4> QED BY <4>1, ProceedTyped
    <3> QED BY <3>1 DEF Awarding
  <2>9. AwardsKept'
    <3> SUFFICES ASSUME NEW v \in Users, NEW c \in Kinds, <<v, c>> \notin overlapped
                 PROVE  /\ DayKept(summary[v][c], awards[v][c], DayCap[c])'
                        /\ c = "tp" => WeekKept(summary[v][c], awards[v][c])'
                        /\ \A q \in Tellers : Awarding(q, c, v)' => JobFits(q, c, v)'
      BY <1>0 DEF AwardsKept
    <3>1. /\ DayKept(summary[v][c], awards[v][c], DayCap[c])
          /\ c = "tp" => WeekKept(summary[v][c], awards[v][c])
          /\ \A q \in Tellers : Awarding(q, c, v) => JobFits(q, c, v)
      BY DEF PointsInv, AwardsKept
    <3>2. CASE v = u /\ c = k
      <4>1. DayFits(k, s, t) /\ (k = "tp" => WeekFits(s, t))
        BY <1>0, <1>1, <1>2, <1>3, <3>1, <3>2 DEF JobFits
      <4>2. DayKept(s, a, DayCap[k]) /\ (k = "tp" => WeekKept(s, a))
        BY <1>2, <3>1, <3>2
      <4>3. DayKept(w, b, DayCap[k])
        BY <2>1, <2>5, <4>1, <4>2, DayWritten
      <4>4. k = "tp" => WeekKept(w, b)
        BY <2>1, <2>5, <4>1, <4>2, WeekWritten
      <4>5. DayKept(summary[u][k], awards[u][k], DayCap[k])'
        BY <1>0, <2>4, <4>3 DEF DayKept
      <4>6. k = "tp" => WeekKept(summary[u][k], awards[u][k])'
        BY <2>4, <4>4 DEF WeekKept
      <4>7. ASSUME NEW q \in Tellers, Awarding(q, k, u)' PROVE FALSE
        <5>1. Awarding(q, k, u) /\ q # p
          BY <2>6, <2>8, <4>7
        <5> QED BY <1>3, <3>2, <5>1 DEF PointsInv, OverlapsKnown
      <4> QED BY <3>2, <4>5, <4>6, <4>7
    <3>3. CASE ~(v = u /\ c = k)
      <4>1. summary'[v][c] = summary[v][c] /\ awards'[v][c] = awards[v][c]
        BY <2>4, <3>3
      <4>2. DayKept(summary[v][c], awards[v][c], DayCap[c])'
        BY <1>0, <3>1, <4>1 DEF DayKept
      <4>3. c = "tp" => WeekKept(summary[v][c], awards[v][c])'
        BY <3>1, <4>1 DEF WeekKept
      <4>4. ASSUME NEW q \in Tellers, Awarding(q, c, v)' PROVE JobFits(q, c, v)'
        <5>1. JobFits(q, c, v) /\ teller'[q] = teller[q]
          BY <2>6, <3>1, <4>4
        <5> QED BY <1>0, <4>1, <5>1 DEF JobFits, DayFits, WeekFits
      <4> QED BY <4>2, <4>3, <4>4
    <3> QED BY <3>2, <3>3
  <2> QED BY <1>0, <1>5, <2>4, <2>7, <2>9 DEF PointsInv, PointTypes
<1> QED BY <1>1, <1>6, <1>7, <1>0 DEF Write

\* A step of a referral disturbs no points of other kinds.
LEMMA ReferralKeeps ==
  ASSUME PointTypes, PointsInv, NEW p \in Tellers, Within(p),
         teller'[p].pc \in {"checked", "opened", "paying"},
         Now(p).kind = "rp", ReferrerOf[Now(p).user] \in Users,
         UNCHANGED <<today, summary, awards>>,
         overlapped \subseteq overlapped', \A v \in Users, k \in Kinds : <<v, k>> \in overlapped' => <<v, k>> \in overlapped
  PROVE  /\ DutiesApart' /\ AwardsKept'
         /\ \A q, r \in Tellers, v \in Users, k \in Kinds :
              q # r /\ Awarding(q, k, v)' /\ Awarding(r, k, v)' => <<v, k>> \in overlapped'
         /\ \A v \in Users : <<v, "hp">> \notin overlapped'
         /\ \A q \in Tellers : Now(q)' = Now(q) /\ Payees(q)' = Payees(q)
<1>1. teller'[p].pc \notin {"decide", "write"}
  OBVIOUS
<1>2. DutiesApart' /\ \A q \in Tellers : Now(q)' = Now(q)
  BY <1>1, WithinDuties DEF PointsInv
<1>3. \A q \in Tellers : Payees(q)' = Payees(q)
  BY <1>2 DEF Payees
<1>4. \A q \in Tellers, v \in Users, k \in Kinds :
        Awarding(q, k, v)' => Awarding(q, k, v) /\ teller'[q] = teller[q]
  BY <1>1, <1>2 DEF Awarding, Within
<1>5. \A q, r \in Tellers, v \in Users, k \in Kinds :
              q # r /\ Awarding(q, k, v)' /\ Awarding(r, k, v)' => <<v, k>> \in overlapped'
  BY <1>4 DEF PointsInv, OverlapsKnown
<1>6. \A v \in Users : <<v, "hp">> \notin overlapped'
  <2>1. "hp" \in Kinds
    BY DEF Kinds
  <2> QED BY <2>1 DEF PointsInv, OverlapsKnown
<1>7. AwardsKept'
  <2> SUFFICES ASSUME NEW v \in Users, NEW c \in Kinds, <<v, c>> \notin overlapped'
               PROVE  /\ DayKept(summary[v][c], awards[v][c], DayCap[c])'
                      /\ c = "tp" => WeekKept(summary[v][c], awards[v][c])'
                      /\ \A q \in Tellers : Awarding(q, c, v)' => JobFits(q, c, v)'
    BY DEF AwardsKept
  <2>1. /\ DayKept(summary[v][c], awards[v][c], DayCap[c])
        /\ c = "tp" => WeekKept(summary[v][c], awards[v][c])
        /\ \A q \in Tellers : Awarding(q, c, v) => JobFits(q, c, v)
    BY DEF PointsInv, AwardsKept
  <2>2. ASSUME NEW q \in Tellers, Awarding(q, c, v)' PROVE JobFits(q, c, v)'
    <3>1. JobFits(q, c, v) /\ teller'[q] = teller[q]
      BY <1>4, <2>1, <2>2
    <3> QED BY <3>1 DEF JobFits, DayFits, WeekFits
  <2>3. DayKept(summary[v][c], awards[v][c], DayCap[c])'
    BY <2>1 DEF DayKept
  <2>4. c = "tp" => WeekKept(summary[v][c], awards[v][c])'
    BY <2>1 DEF WeekKept
  <2> QED BY <2>2, <2>3, <2>4
<1> QED BY <1>2, <1>3, <1>5, <1>6, <1>7

LEMMA CheckKeeps ==
  ASSUME PointTypes, PointsInv, NEW p \in Tellers, Check(p)
  PROVE  PointsInv' /\ teller' \in [Tellers -> Jobs]
<1>0. /\ teller[p].duties # <<>> /\ teller[p].pc = "look" /\ Now(p).kind = "rp" /\ Now(p).user \in Users
      /\ UNCHANGED <<today, summary, rpUsed, awards, overlapped>> /\ teller[p] \in Jobs
  BY NowTyped DEF Check, At, outside, ledger, PointTypes
<1>1. CASE NextDuty(p)
  <2>1. Turns(p)
    BY <1>0, <1>1, TailTurns DEF PointsInv
  <2> QED BY <1>0, <2>1, TurnKeeps, TurnTyped
<1>2. CASE ReferrerOf[Now(p).user] # NoReferrer /\ teller' = [teller EXCEPT ![p].pc = "checked"]
  <2>1. /\ teller' \in [Tellers -> Jobs] /\ Within(p) /\ teller'[p].pc = "checked"
    <3>1. [teller[p] EXCEPT !.pc = "checked"] \in Jobs
      BY <1>0 DEF Jobs
    <3> QED BY <1>2, <3>1 DEF PointTypes, Within, Jobs
  <2>2. ReferrerOf[Now(p).user] \in Users
    BY <1>0, <1>2, PointsAssumption
  <2>3. /\ DutiesApart' /\ AwardsKept'
        /\ \A q, r \in Tellers, v \in Users, k \in Kinds :
             q # r /\ Awarding(q, k, v)' /\ Awarding(r, k, v)' => <<v, k>> \in overlapped'
        /\ \A v \in Users : <<v, "hp">> \notin overlapped'
        /\ \A q \in Tellers : Now(q)' = Now(q) /\ Payees(q)' = Payees(q)
    BY <1>0, <2>1, <2>2, ReferralKeeps
  <2>4. \A q \in Tellers : Paying(q)' => Paying(q) /\ teller'[q] = teller[q]
    BY <2>1 DEF Paying, Within, Open
  <2>5. OverlapsKnown' /\ ReferralsKept'
    BY <1>0, <2>3, <2>4 DEF PointsInv, OverlapsKnown, ReferralsKept
  <2> QED BY <2>1, <2>3, <2>5 DEF PointsInv
<1> QED BY <1>1, <1>2 DEF Check

LEMMA ShareFits ==
  ASSUME NEW n \in Nat
  PROVE  Share(n) \in Nat /\ (n <= RpCap => n + Share(n) <= RpCap)
<1>1. PICK r \in Nat, c \in Nat, l \in Nat, x \in Nat :
        r = RpAmount /\ c = RpCap /\ l = Less(c, n) /\ x = Least(r, l) /\ x <= l /\ (n <= c => n + l <= c)
  BY LimitAssumption, LessNat
<1> QED BY <1>1 DEF Share

\* A step into or within the transaction of a referral.
LEMMA PayingKeeps ==
  ASSUME PointTypes, PointsInv, NEW p \in Tellers, NEW pc \in Open, NEW n \in Nat, NEW m \in Nat,
         Now(p).kind = "rp", ReferrerOf[Now(p).user] \in Users, teller[p].duties # <<>>,
         Within(p), teller'[p].pc = pc, teller'[p].points = n, teller'[p].paid = m,
         UNCHANGED <<today, summary, awards, rpUsed>>,
         overlapped \subseteq overlapped',
         \A v \in Users, k \in Kinds : <<v, k>> \in overlapped' => <<v, k>> \in overlapped,
         \A q \in Tellers \ {p}, v \in Users :
            Paying(q) /\ v \in Payees(q) /\ v \in Payees(p) => <<v, "rp">> \in overlapped',
         \A v \in Users : <<v, "rp">> \notin overlapped =>
            /\ v = ReferrerOf[Now(p).user] => rpUsed[v] + (IF pc = "opened" THEN n ELSE m) <= RpCap
            /\ v = Now(p).user /\ pc = "paying" => rpUsed[v] + n <= RpCap
  PROVE  PointsInv'
<1>2. /\ DutiesApart' /\ AwardsKept'
      /\ \A q, r \in Tellers, v \in Users, k \in Kinds :
           q # r /\ Awarding(q, k, v)' /\ Awarding(r, k, v)' => <<v, k>> \in overlapped'
      /\ \A v \in Users : <<v, "hp">> \notin overlapped'
      /\ \A q \in Tellers : Now(q)' = Now(q) /\ Payees(q)' = Payees(q)
  BY ReferralKeeps DEF Open
<1>3. \A q \in Tellers \ {p} : teller'[q] = teller[q] /\ (Paying(q)' <=> Paying(q))
  BY DEF Within, Paying
<1>4. ASSUME NEW q \in Tellers, NEW r \in Tellers, NEW v \in Users,
             q # r, Paying(q)', Paying(r)', v \in Payees(q)', v \in Payees(r)'
      PROVE  <<v, "rp">> \in overlapped'
  <2>1. CASE q # p /\ r # p
    BY <1>2, <1>3, <1>4, <2>1 DEF PointsInv, OverlapsKnown
  <2>2. CASE q = p
    BY <1>2, <1>3, <1>4, <2>2
  <2>3. CASE r = p
    BY <1>2, <1>3, <1>4, <2>3
  <2> QED BY <2>1, <2>2, <2>3
<1>5. OverlapsKnown'
  BY <1>2, <1>4 DEF OverlapsKnown
<1>6. ReferralsKept'
  <2> SUFFICES ASSUME NEW v \in Users, <<v, "rp">> \notin overlapped'
               PROVE  /\ rpUsed[v] <= RpCap
                      /\ \A q \in Tellers : Paying(q)' =>
                           /\ v = ReferrerOf[Now(q)'.user] =>
                                rpUsed[v] + (IF teller'[q].pc = "opened" THEN teller'[q].points ELSE teller'[q].paid) <= RpCap
                           /\ v = Now(q)'.user /\ teller'[q].pc = "paying" => rpUsed[v] + teller'[q].points <= RpCap
    BY DEF ReferralsKept
  <2>1. <<v, "rp">> \notin overlapped
    OBVIOUS
  <2>2. rpUsed[v] <= RpCap
    BY <2>1 DEF PointsInv, ReferralsKept
  <2>3. ASSUME NEW q \in Tellers, Paying(q)'
        PROVE  /\ v = ReferrerOf[Now(q)'.user] =>
                    rpUsed[v] + (IF teller'[q].pc = "opened" THEN teller'[q].points ELSE teller'[q].paid) <= RpCap
               /\ v = Now(q)'.user /\ teller'[q].pc = "paying" => rpUsed[v] + teller'[q].points <= RpCap
    <3>1. CASE q = p
      BY <1>2, <2>1, <3>1
    <3>2. CASE q # p
      BY <1>2, <1>3, <2>1, <2>3, <3>2 DEF PointsInv, ReferralsKept
    <3> QED BY <3>1, <3>2
  <2> QED BY <2>2, <2>3
<1> QED BY <1>2, <1>5, <1>6 DEF PointsInv

LEMMA TriggerKeeps ==
  ASSUME PointTypes, PointsInv, NEW p \in Tellers, Trigger(p)
  PROVE  PointsInv' /\ teller' \in [Tellers -> Jobs]
<1>0. /\ teller[p].duties # <<>> /\ teller[p].pc = "checked" /\ Now(p).kind = "rp" /\ Now(p).user \in Users
      /\ UNCHANGED <<today, summary, rpUsed, awards>> /\ teller[p] \in Jobs /\ teller[p].paid \in Nat
  BY NowTyped DEF Trigger, At, outside, ledger, PointTypes, Jobs
<1>1. ReferrerOf[Now(p).user] \in Users
  BY <1>0 DEF PointsInv, DutiesApart
<1>2. CASE NextDuty(p) /\ UNCHANGED overlapped
  <2>1. Turns(p)
    BY <1>0, <1>2, TailTurns DEF PointsInv
  <2> QED BY <1>0, <1>2, <2>1, TurnKeeps, TurnTyped
<1>3. CASE /\ teller' = [teller EXCEPT ![p].pc = "opened", ![p].points = Share(rpUsed[ReferrerOf[Now(p).user]])]
           /\ overlapped' = overlapped \cup
                {<<u, "rp">> : u \in Payees(p) \cap UNION {Payees(q) : q \in InTx}}
  <2>1. PICK n \in Nat : n = Share(rpUsed[ReferrerOf[Now(p).user]])
    BY <1>1, ShareFits DEF PointTypes
  <2>2. PICK m \in Nat : m = teller[p].paid
    BY <1>0
  <2>3. /\ teller' \in [Tellers -> Jobs] /\ Within(p)
        /\ teller'[p].pc = "opened" /\ teller'[p].points = n /\ teller'[p].paid = m
    <3>1. [teller[p] EXCEPT !.pc = "opened", !.points = n] \in Jobs
      BY <1>0 DEF Jobs
    <3>2. teller' = [teller EXCEPT ![p].pc = "opened", ![p].points = n]
      BY <1>3, <2>1
    <3> QED BY <1>0, <2>2, <3>1, <3>2 DEF PointTypes, Within, Jobs
  <2>4. ASSUME NEW q \in Tellers \ {p}, NEW v \in Users, Paying(q), v \in Payees(q), v \in Payees(p)
        PROVE  <<v, "rp">> \in overlapped'
    <3>1. q \in InTx
      <4>1. Now(q).kind = "rp"
        BY <2>4 DEF Paying, Open, PointsInv, DutiesApart
      <4> QED BY <2>4, <4>1 DEF Paying, InTx, At
    <3> QED BY <1>3, <2>4, <3>1
  <2>5. "opened" \in Open /\ "opened" # "paying"
    BY DEF Open
  <2>6. ASSUME NEW v \in Users, <<v, "rp">> \notin overlapped, v = ReferrerOf[Now(p).user]
        PROVE  rpUsed[v] + n <= RpCap
    BY <2>1, <2>6, ShareFits DEF PointTypes, PointsInv, ReferralsKept
  <2>7. \A v \in Users, k \in Kinds : <<v, k>> \in overlapped' => <<v, k>> \in overlapped
    BY <1>3 DEF Kinds
  <2>8. overlapped \subseteq overlapped'
    BY <1>3
  <2>9. \A v \in Users : <<v, "rp">> \notin overlapped =>
            /\ v = ReferrerOf[Now(p).user] => rpUsed[v] + (IF "opened" = "opened" THEN n ELSE m) <= RpCap
            /\ v = Now(p).user /\ "opened" = "paying" => rpUsed[v] + n <= RpCap
    BY <2>5, <2>6
  <2>10. PICK pc \in Open : pc = "opened"
    BY <2>5
  <2> QED BY <1>0, <1>1, <2>3, <2>4, <2>7, <2>8, <2>9, <2>10, PayingKeeps
<1> QED BY <1>2, <1>3 DEF Trigger

LEMMA PayReferrerKeeps ==
  ASSUME PointTypes, PointsInv, NEW p \in Tellers, PayReferrer(p)
  PROVE  PointsInv' /\ teller' \in [Tellers -> Jobs]
<1>0. /\ teller[p].duties # <<>> /\ teller[p].pc = "opened" /\ Now(p).kind = "rp" /\ Now(p).user \in Users
      /\ UNCHANGED <<today, summary, rpUsed, awards, overlapped>> /\ teller[p] \in Jobs
  BY NowTyped DEF PayReferrer, At, outside, ledger, PointTypes
<1>1. ReferrerOf[Now(p).user] \in Users
  BY <1>0 DEF PointsInv, DutiesApart
<1>2. Paying(p)
  BY <1>0 DEF Paying, Open
<1>3. PICK n \in Nat : n = Share(rpUsed[Now(p).user])
  BY <1>0, ShareFits DEF PointTypes
<1>4. PICK m \in Nat : m = teller[p].points
  BY <1>0 DEF Jobs
<1>5. PICK pc \in Open : pc = "paying"
  BY DEF Open
<1>6. /\ teller' \in [Tellers -> Jobs] /\ Within(p)
      /\ teller'[p].pc = "paying" /\ teller'[p].points = n /\ teller'[p].paid = m
  <2>1. [teller[p] EXCEPT !.pc = "paying", !.paid = m, !.points = n] \in Jobs
    BY <1>0 DEF Jobs
  <2>2. teller' = [teller EXCEPT ![p].pc = "paying", ![p].paid = m, ![p].points = n]
    BY <1>3, <1>4 DEF PayReferrer
  <2> QED BY <1>0, <2>1, <2>2 DEF PointTypes, Within, Jobs
<1>7. \A q \in Tellers \ {p}, v \in Users :
        Paying(q) /\ v \in Payees(q) /\ v \in Payees(p) => <<v, "rp">> \in overlapped'
  BY <1>0, <1>2 DEF PointsInv, OverlapsKnown
<1>8. \A v \in Users : <<v, "rp">> \notin overlapped =>
            /\ v = ReferrerOf[Now(p).user] => rpUsed[v] + (IF pc = "opened" THEN n ELSE m) <= RpCap
            /\ v = Now(p).user /\ pc = "paying" => rpUsed[v] + n <= RpCap
  <2> SUFFICES ASSUME NEW v \in Users, <<v, "rp">> \notin overlapped
               PROVE  /\ v = ReferrerOf[Now(p).user] => rpUsed[v] + m <= RpCap
                      /\ v = Now(p).user => rpUsed[v] + n <= RpCap
    BY <1>5
  <2>1. v = ReferrerOf[Now(p).user] => rpUsed[v] + m <= RpCap
    BY <1>0, <1>2, <1>4 DEF PointsInv, ReferralsKept
  <2>2. v = Now(p).user => rpUsed[v] + n <= RpCap
    BY <1>3, ShareFits DEF PointTypes, PointsInv, ReferralsKept
  <2> QED BY <2>1, <2>2
<1>9. overlapped \subseteq overlapped' /\ \A v \in Users, k \in Kinds : <<v, k>> \in overlapped' => <<v, k>> \in overlapped
  BY <1>0
<1> QED BY <1>0, <1>1, <1>5, <1>6, <1>7, <1>8, <1>9, PayingKeeps

\* The commit adds what was found to fit, and no other transaction pays to the same.
LEMMA PayRefereeKeeps ==
  ASSUME PointTypes, PointsInv, NEW p \in Tellers, PayReferee(p)
  PROVE  PointsInv' /\ teller' \in [Tellers -> Jobs] /\ rpUsed' \in [Users -> Nat]
<1>0. /\ teller[p].duties # <<>> /\ teller[p].pc = "paying" /\ Now(p).kind = "rp"
      /\ UNCHANGED <<today, summary, awards, overlapped>> /\ teller[p] \in Jobs
      /\ NextDuty(p) /\ Paying(p)
  BY DEF PayReferee, At, outside, PointTypes, Paying, Open
<1>1. PICK u \in Users, r \in Users, n \in Nat, m \in Nat :
        /\ u = Now(p).user /\ r = ReferrerOf[u] /\ n = teller[p].points /\ m = teller[p].paid
        /\ u # r
  <2>1. Now(p).user \in Users /\ ReferrerOf[Now(p).user] \in Users
    BY <1>0, NowTyped DEF PointsInv, DutiesApart
  <2> QED BY <1>0, <2>1, PointsAssumption DEF Jobs
<1>2. Turns(p)
  BY <1>0, TailTurns DEF PointsInv
<1>3. teller' \in [Tellers -> Jobs]
  BY <1>2, TurnTyped
<1>4. CASE UNCHANGED rpUsed
  BY <1>0, <1>2, <1>3, <1>4, TurnKeeps DEF PointTypes
<1>5. CASE rpUsed' = [rpUsed EXCEPT ![r] = @ + m, ![u] = @ + n]
  <2>1. /\ rpUsed' \in [Users -> Nat] /\ rpUsed'[r] = rpUsed[r] + m /\ rpUsed'[u] = rpUsed[u] + n
        /\ \A v \in Users : v # u /\ v # r => rpUsed'[v] = rpUsed[v]
    <3>1. rpUsed \in [Users -> Nat] /\ rpUsed[r] \in Nat /\ rpUsed[u] \in Nat
          /\ rpUsed[r] + m \in Nat /\ rpUsed[u] + n \in Nat
      <4>1. rpUsed \in [Users -> Nat]
        BY DEF PointTypes
      <4>2. rpUsed[r] \in Nat /\ rpUsed[u] \in Nat
        BY <1>1, <4>1
      <4> QED BY <1>1, <4>1, <4>2
    <3>2. PICK x \in Nat, y \in Nat : x = rpUsed[r] + m /\ y = rpUsed[u] + n
      BY <3>1
    <3>3. rpUsed' = [rpUsed EXCEPT ![r] = x, ![u] = y]
      BY <1>1, <1>5, <3>1, <3>2
    <3> QED BY <1>1, <3>1, <3>2, <3>3
  <2>2. /\ \A q \in Tellers, v \in Users, c \in Kinds :
              Awarding(q, c, v)' => teller'[q] = teller[q] /\ Awarding(q, c, v)
        /\ \A q \in Tellers :
              Paying(q)' => teller'[q] = teller[q] /\ Paying(q) /\ Payees(q)' = Payees(q) /\ Now(q)' = Now(q)
    BY <1>2, TurnViews
  <2>3. ~Paying(p)'
    <3>1. teller'[p].pc = "look"
      <4>1. Tail(teller[p].duties) \in Seq(Duties) /\ Proceed(p, Tail(teller[p].duties))
        BY <1>0, NowTyped DEF NextDuty
      <4> QED BY <4>1, ProceedTyped
    <3> QED BY <3>1 DEF Paying, Open
  <2>4. DutiesApart' /\ OverlapsKnown'
    BY <1>0, <1>2, <2>2, TurnDuties DEF PointsInv, OverlapsKnown
  <2>5. AwardsKept'
    <3> SUFFICES ASSUME NEW v \in Users, NEW c \in Kinds, <<v, c>> \notin overlapped
                 PROVE  /\ DayKept(summary[v][c], awards[v][c], DayCap[c])'
                        /\ c = "tp" => WeekKept(summary[v][c], awards[v][c])'
                        /\ \A q \in Tellers : Awarding(q, c, v)' => JobFits(q, c, v)'
      BY <1>0 DEF AwardsKept
    <3>1. /\ DayKept(summary[v][c], awards[v][c], DayCap[c])
          /\ c = "tp" => WeekKept(summary[v][c], awards[v][c])
          /\ \A q \in Tellers : Awarding(q, c, v) => JobFits(q, c, v)
      BY DEF PointsInv, AwardsKept
    <3>2. DayKept(summary[v][c], awards[v][c], DayCap[c])'
      BY <1>0, <3>1 DEF DayKept
    <3>3. c = "tp" => WeekKept(summary[v][c], awards[v][c])'
      BY <1>0, <3>1 DEF WeekKept
    <3>4. ASSUME NEW q \in Tellers, Awarding(q, c, v)' PROVE JobFits(q, c, v)'
      <4>1. JobFits(q, c, v) /\ teller'[q] = teller[q]
        BY <2>2, <3>1, <3>4
      <4> QED BY <1>0, <4>1 DEF JobFits, DayFits, WeekFits
    <3> QED BY <3>2, <3>3, <3>4
  <2>6. ReferralsKept'
    <3> SUFFICES ASSUME NEW v \in Users, <<v, "rp">> \notin overlapped
                 PROVE  /\ rpUsed'[v] <= RpCap
                        /\ \A q \in Tellers : Paying(q)' =>
                             /\ v = ReferrerOf[Now(q)'.user] =>
                                  rpUsed'[v] + (IF teller'[q].pc = "opened" THEN teller'[q].points ELSE teller'[q].paid) <= RpCap
                             /\ v = Now(q)'.user /\ teller'[q].pc = "paying" => rpUsed'[v] + teller'[q].points <= RpCap
      BY <1>0 DEF ReferralsKept
    <3>1. /\ rpUsed[v] <= RpCap
          /\ \A q \in Tellers : Paying(q) =>
               /\ v = ReferrerOf[Now(q).user] =>
                    rpUsed[v] + (IF teller[q].pc = "opened" THEN teller[q].points ELSE teller[q].paid) <= RpCap
               /\ v = Now(q).user /\ teller[q].pc = "paying" => rpUsed[v] + teller[q].points <= RpCap
      BY DEF PointsInv, ReferralsKept
    <3>2. CASE v \in {u, r}
      <4>1. rpUsed'[v] <= RpCap
        BY <1>0, <1>1, <2>1, <3>1, <3>2
      <4>2. ASSUME NEW q \in Tellers, Paying(q)', v \in {Now(q)'.user, ReferrerOf[Now(q)'.user]} PROVE FALSE
        <5>1. Paying(q) /\ q # p /\ v \in Payees(q) /\ v \in Payees(p)
          BY <1>1, <2>2, <2>3, <3>2, <4>2 DEF Payees
        <5> QED BY <1>0, <5>1 DEF PointsInv, OverlapsKnown
      <4> QED BY <4>1, <4>2
    <3>3. CASE v \notin {u, r}
      <4>1. rpUsed'[v] = rpUsed[v]
        BY <2>1, <3>3
      <4> QED BY <2>2, <3>1, <4>1
    <3> QED BY <3>2, <3>3
  <2> QED BY <1>3, <2>1, <2>4, <2>5, <2>6 DEF PointsInv
<1> QED BY <1>1, <1>4, <1>5 DEF PayReferee

\* Who is given something to award starts from rest.
LEMMA GivenTurns ==
  ASSUME PointTypes, PointsInv, PointsNext
  PROVE  \/ /\ \E p \in Tellers : Turns(p)
            /\ UNCHANGED <<today, summary, rpUsed, awards, overlapped>>
            /\ heard' \in Seq(Deals)
         \/ Midnight
         \/ \E p \in Tellers : \/ Look(p) \/ Decide(p) \/ Write(p)
                               \/ Check(p) \/ Trigger(p) \/ PayReferrer(p) \/ PayReferee(p)
<1>0. heard \in Seq(Deals) /\ "worker" \in Tellers /\ "batch" \in Tellers /\ "worker" # "batch"
  BY DEF PointTypes, Tellers
<1>1. ASSUME NEW t \in Deals, Match(t) \/ Saved(t)
      PROVE  /\ Turns(t) \/ Turns("worker")
             /\ UNCHANGED <<today, summary, rpUsed, awards, overlapped>> /\ heard' \in Seq(Deals)
  <2>1. CASE Match(t)
    BY <1>0, <2>1 DEF Match, ledger, Turns
  <2>2. CASE Saved(t)
    <3>1. DealDuties(t) \in Seq(Duties) /\ \A i \in 1..Len(DealDuties(t)) : DealDuties(t)[i].kind # "hp"
      BY DealTyped
    <3> QED BY <1>0, <2>2, <3>1 DEF Saved, outside, ledger, Turns
  <2> QED BY <1>1, <2>1, <2>2
<1>2. ASSUME NEW c \in Closes, ClosePosition(c)
      PROVE  /\ Turns(c)
             /\ UNCHANGED <<today, summary, rpUsed, awards, overlapped>> /\ heard' \in Seq(Deals)
  <2>1. PICK a \in Duties : a = Duty("pp", CloserOf[c]) /\ a.kind = "pp"
    BY DutyTyped, PointsAssumption DEF Kinds
  <2>2. << a >> \in Seq(Duties) /\ \A i \in 1..Len(<< a >>) : << a >>[i].kind # "hp"
    BY <2>1
  <2>3. Proceed(c, << a >>)
    BY <1>2, <2>1 DEF ClosePosition
  <2> QED BY <1>0, <1>2, <2>2, <2>3 DEF ClosePosition, ledger, Turns
<1>3. ASSUME Hear
      PROVE  /\ Turns("worker")
             /\ UNCHANGED <<today, summary, rpUsed, awards, overlapped>> /\ heard' \in Seq(Deals)
  <2>1. Head(heard) \in Deals /\ Tail(heard) \in Seq(Deals)
    BY <1>0, <1>3 DEF Hear
  <2>2. DealDuties(Head(heard)) \in Seq(Duties)
        /\ \A i \in 1..Len(DealDuties(Head(heard))) : DealDuties(Head(heard))[i].kind # "hp"
    BY <2>1, DealTyped
  <2>3. Turns("worker")
    BY <1>3, <2>2 DEF Hear, Turns
  <2> QED BY <1>3, <2>1, <2>3 DEF Hear, ledger
<1>4. ASSUME Batch
      PROVE  /\ Turns("batch")
             /\ UNCHANGED <<today, summary, rpUsed, awards, overlapped>> /\ heard' \in Seq(Deals)
  <2>1. Holders \in Seq(Users) /\ "hp" \in Kinds
    BY PointsAssumption DEF Kinds
  <2>2. ASSUME NEW i \in DOMAIN Holders PROVE Duty("hp", Holders[i]) \in Duties
    BY <2>1, <2>2, DutyTyped
  <2>3. [i \in DOMAIN Holders |-> Duty("hp", Holders[i])] \in Seq(Duties)
    <3>1. PICK n \in Nat : DOMAIN Holders = 1..n
      BY <2>1
    <3> QED BY <2>2, <3>1
  <2> QED BY <1>0, <1>4, <2>3 DEF Batch, ledger, Turns
<1>5. Deals \subseteq Tellers /\ Closes \subseteq Tellers
  BY DEF Tellers
<1> QED BY <1>0, <1>1, <1>2, <1>3, <1>4, <1>5 DEF PointsNext

LEMMA PointStep ==
  ASSUME PointTypes, PointsInv, PointsNext
  PROVE  PointTypes' /\ PointsInv'
<1>1. ASSUME NEW p \in Tellers, Turns(p), UNCHANGED <<today, summary, rpUsed, awards, overlapped>>,
             heard' \in Seq(Deals)
      PROVE  PointTypes' /\ PointsInv'
  BY <1>1, TurnKeeps, TurnTyped DEF PointTypes
<1>2. CASE Midnight
  <2>1. today' \in Days
    BY <1>2, CalendarAssumption DEF Midnight, Days, PointTypes
  <2> QED BY <1>2, <2>1, MidnightKeeps DEF Midnight, ledger, PointTypes
<1>3. ASSUME NEW p \in Tellers, Look(p) PROVE PointTypes' /\ PointsInv'
  BY ZenonT(40), <1>3, LookKeeps DEF Look, outside, ledger, PointTypes
<1>4. ASSUME NEW p \in Tellers, Decide(p) PROVE PointTypes' /\ PointsInv'
  BY <1>4, DecideKeeps DEF Decide, outside, ledger, PointTypes
<1>5. ASSUME NEW p \in Tellers, Check(p) PROVE PointTypes' /\ PointsInv'
  BY <1>5, CheckKeeps DEF Check, outside, ledger, PointTypes
<1>6. ASSUME NEW p \in Tellers, Trigger(p) PROVE PointTypes' /\ PointsInv'
  BY <1>6, TriggerKeeps DEF Trigger, outside, ledger, PointTypes
<1>7. ASSUME NEW p \in Tellers, PayReferrer(p) PROVE PointTypes' /\ PointsInv'
  BY <1>7, PayReferrerKeeps DEF PayReferrer, outside, ledger, PointTypes
<1>8. ASSUME NEW p \in Tellers, PayReferee(p) PROVE PointTypes' /\ PointsInv'
  BY <1>8, PayRefereeKeeps DEF PayReferee, outside, PointTypes
<1> QED BY <1>1, <1>2, <1>3, <1>4, <1>5, <1>6, <1>7, <1>8, GivenTurns, WriteKeeps

LEMMA PointStart == PointsInit => PointTypes /\ PointsInv
<1> SUFFICES ASSUME PointsInit PROVE PointTypes /\ PointsInv
  OBVIOUS
<1>1. PointTypes
  BY InitPointTypes
<1>2. \A p \in Tellers : teller[p].duties = <<>>
  BY DEF PointsInit, AtRest
<1>3. DutiesApart /\ OverlapsKnown
  BY <1>2 DEF DutiesApart, OverlapsKnown, Awarding, Paying, PointsInit
<1>4. ReferralsKept
  BY <1>2, LimitAssumption DEF ReferralsKept, Paying, PointsInit
<1>5. AwardsKept
  <2> SUFFICES ASSUME NEW u \in Users, NEW k \in Kinds
               PROVE  DayKept(summary[u][k], awards[u][k], DayCap[k]) /\ WeekKept(summary[u][k], awards[u][k])
    BY <1>2 DEF AwardsKept, Awarding
  <2>1. PICK s \in Counter, a \in [Days -> Nat] : s = summary[u][k] /\ a = awards[u][k]
    BY <1>1 DEF PointTypes
  <2>2. /\ s.used = 0 /\ s.day = 0 /\ s.week = 0 /\ s.weekDay = 0 /\ \A d \in Days : a[d] = 0
        /\ today = 1
    BY <2>1 DEF PointsInit, Fresh, NeverReset, Days
  <2>3. DayKept(s, a, DayCap[k])
    BY <2>2, LimitAssumption DEF DayKept
  <2>4. ASSUME NEW d \in Days PROVE SumFunctionOnSet(a, DaysOf(WeekOf[d])) = 0
    <3>1. IsFiniteSet(DaysOf(WeekOf[d])) /\ \A e \in DaysOf(WeekOf[d]) : a[e] = 0
      BY <2>2, WeekFinite
    <3> QED BY <3>1, SumZero
  <2>5. WeekKept(s, a)
    BY <2>2, <2>4, LimitAssumption DEF WeekKept
  <2> QED BY <2>1, <2>3, <2>5
<1> QED BY <1>1, <1>3, <1>4, <1>5 DEF PointsInv

\* Awards that do not overlap keep the limits, by day, by week and for referrals
\* altogether, whatever the tellers read before; midnight may pass and transactions
\* may fail in between.
THEOREM LimitsKept == PointsSpec => []LimitsHold
<1>1. PointsInit => PointTypes /\ PointsInv
  BY PointStart
<1>2. PointTypes /\ PointsInv /\ [PointsNext]_pointsVars => (PointTypes /\ PointsInv)'
  <2>1. CASE PointsNext
    BY <2>1, PointStep
  <2>2. ASSUME PointTypes, PointsInv, UNCHANGED pointsVars PROVE PointTypes' /\ PointsInv'
    <3>1. "batch" \in Tellers /\ Turns("batch")
      BY <2>2 DEF Tellers, Turns, pointsVars
    <3> QED BY <2>2, <3>1, TurnKeeps DEF pointsVars, ledger, PointTypes
  <2> QED BY <2>1, <2>2
<1>3. PointTypes /\ PointsInv => LimitsHold
  <2> SUFFICES ASSUME PointTypes, PointsInv, NEW u \in Users
               PROVE  /\ \A k \in Kinds : \/ \A d \in 1..LastDay : awards[u][k][d] <= DayCap[k]
                                          \/ <<u, k>> \in overlapped /\ k # "hp"
                      /\ \/ \A d \in 1..LastDay : OneYear(DaysOf(WeekOf[d])) => Week(u, WeekOf[d]) <= WeekCap
                         \/ <<u, "tp">> \in overlapped
                      /\ rpUsed[u] <= RpCap \/ <<u, "rp">> \in overlapped
    BY DEF LimitsHold
  <2>1. ASSUME NEW k \in Kinds
        PROVE  \/ \A d \in 1..LastDay : awards[u][k][d] <= DayCap[k]
               \/ <<u, k>> \in overlapped /\ k # "hp"
    BY DEF PointsInv, AwardsKept, DayKept, OverlapsKnown, Days
  <2>2. \/ \A d \in 1..LastDay : OneYear(DaysOf(WeekOf[d])) => Week(u, WeekOf[d]) <= WeekCap
        \/ <<u, "tp">> \in overlapped
    <3>1. "tp" \in Kinds
      BY DEF Kinds
    <3>2. <<u, "tp">> \notin overlapped => WeekKept(summary[u]["tp"], awards[u]["tp"])
      BY <3>1 DEF PointsInv, AwardsKept
    <3> QED BY <3>2 DEF WeekKept, Week, Days
  <2>3. rpUsed[u] <= RpCap \/ <<u, "rp">> \in overlapped
    BY DEF PointsInv, ReferralsKept
  <2> QED BY <2>1, <2>2, <2>3
<1> QED BY <1>1, <1>2, <1>3, PTL DEF PointsSpec

-----------------------------------------------------------------------------
(* Earn: the row follows the plan on the chain, joins and settlements are booked once. *)

PlanStatuses == {"none", "created", "subscribing", "active", "settled"}
RowStatuses == PlanStatuses \cup {"ended", "cancelled"}
StageNames == {"open", "activate", "close"}
EventT == [kind : {"created", "closed"}, user : {""}] \cup [kind : {"joined", "redeemed"}, user : Savers]
SubT == [status : {"none", "active", "matured", "redeemed"}, amount : Nat]
AdminT == [pc : {"idle", "open"}] \cup [pc : {"insert"}, opened : BOOLEAN]
          \cup [pc : {"read"}, want : Wishes] \cup [pc : {"write"}, want : Wishes, saw : RowStatuses]

EarnShape ==
    /\ contract \in [status : PlanStatuses, principal : {"kept", "sent", "funded"}]
    /\ emitted \in Seq(EventT) /\ clock \in Nat
    /\ product \in [status : RowStatuses, total : Nat]
    /\ subs \in [Savers -> SubT] /\ settlements \in Nat /\ signed \subseteq Savers
    /\ claimed \subseteq DOMAIN emitted
    /\ sched \in [stage : 1 .. 3, pc : {"list", "call", "write", "mature"}]
    /\ admin \in AdminT
    /\ reader \in [pc : {"idle", "run"}, at : Nat, to : Nat, todo : SUBSET Nat]
    /\ cursor \in Nat /\ cursor <= reader.at /\ reader.at <= Len(emitted)
    /\ reader.pc = "run" => /\ reader.at <= reader.to /\ reader.to <= Len(emitted)
                            /\ reader.todo \subseteq reader.at + 1 .. reader.to

Of(kind) == {b \in DOMAIN emitted : emitted[b].kind = kind}

\* The chain's own order: events tell what the contract did before and after them.
ChainTold ==
    /\ contract.status = "none" => emitted = << >>
    /\ contract.status # "none" => Of("created") # {}
    /\ contract.status # "settled" => Of("closed") = {} /\ Of("redeemed") = {}
    /\ \A b, c \in Of("closed") : b = c
    /\ \A c \in Of("redeemed") : \A b \in Of("joined") \cup Of("closed") : b < c

\* What the scheduler and the administrator know of the chain when they write.
Sound == "reverted" \notin drift
Opened == admin.pc = "insert" /\ admin.opened
SchedKnows ==
    Sound /\ sched.pc = "write" => /\ Rank[contract.status] >= Rank[To[Stage]]
                                   /\ Stage # "close" => contract.status # "settled"
AdminKnows ==
    /\ admin.pc \in {"open", "insert"} => contract.status # "none"
    /\ Sound /\ Opened => Rank[contract.status] >= Rank["subscribing"]
    /\ Sound /\ admin.pc \in {"read", "write"} /\ admin.want \in {"subscribing", "active"} =>
          Rank[contract.status] >= Rank[admin.want]
    /\ admin.pc = "write" => IsAllowed(admin.saw, admin.want)

RowBehind == Sound /\ "manual" \notin drift =>
    product.status \in PlanStatuses /\ Rank[product.status] <= Rank[contract.status]

\* An event is still to be handled.
Unhandled(b) == b > reader.at /\ (reader.pc = "run" /\ b <= reader.to => b \in reader.todo)

\* Which writes are under way where the row and the chain differ.
Undisturbed == ignored = {} /\ drift \cap {"manual", "reverted", "cut", "overwritten"} = {}
Opening == sched.pc = "write" /\ Stage = "open"
Activating == sched.pc = "write" /\ Stage = "activate"
Closing == sched.pc = "write" /\ Stage = "close"
AdminOpens == Opened \/ (admin.pc \in {"read", "write"} /\ admin.want = "subscribing")
AdminActivates == admin.pc \in {"read", "write"} /\ admin.want = "active"
CreatedAhead == \E b \in Of("created") : Unhandled(b)
Gap ==
    \/ product.status = contract.status
    \/ product.status = "none" /\ contract.status = "created" /\ CreatedAhead
    \/ product.status = "none" /\ contract.status = "subscribing" /\ CreatedAhead /\ Opened
    \/ product.status = "created" /\ contract.status = "subscribing" /\ (Opening \/ AdminOpens)
    \/ product.status = "created" /\ contract.status = "active" /\ Opening /\ AdminActivates
    \/ product.status = "subscribing" /\ contract.status = "active" /\ (Activating \/ AdminActivates)
    \/ product.status = "active" /\ contract.status = "settled" /\ Closing
RowCalled == sched.pc \in {"call", "write"} => Rank[product.status] >= Rank[From[Stage]]
GapExplained == Undisturbed => Gap /\ RowCalled

\* Joins: each booked once, and none missed.
Booked(u) == Joins(u) \cap claimed
JoinsKept ==
    /\ \A u \in Savers : subs[u].amount = Cardinality(Booked(u))
    /\ product.total = Cardinality(Of("joined") \cap claimed)
    /\ \A b \in Of("joined") : Unhandled(b) \/ b \in claimed \cup ignored

\* The window is handled in order: what is left comes after what is done.
InOrder == reader.pc = "run" =>
    \A b \in (reader.at + 1 .. reader.to) \ reader.todo : \A c \in reader.todo : Precedes(b, c)

\* One settlement; who left stays so.
SettlesKept ==
    /\ settlements = Cardinality(Of("closed") \cap claimed)
    /\ "late" \notin drift =>
          \A b \in Of("redeemed") \ ignored :
              Unhandled(b) \/ subs[emitted[b].user].status \in {"none", "redeemed"}

EarnInv ==
    /\ EarnShape /\ ChainTold /\ SchedKnows /\ AdminKnows /\ RowBehind /\ GapExplained
    /\ JoinsKept /\ InOrder /\ SettlesKept

----------------------------------------------------------------------------
LEMMA RankFacts ==
  /\ Rank["none"] = 0 /\ Rank["created"] = 1 /\ Rank["subscribing"] = 2
  /\ Rank["active"] = 3 /\ Rank["settled"] = 4
  /\ \A x \in PlanStatuses : Rank[x] \in 0 .. 4
BY DEF Rank, PlanStatuses

LEMMA StageFacts ==
  ASSUME NEW s \in StageNames
  PROVE  /\ From[s] \in PlanStatuses /\ To[s] \in PlanStatuses
         /\ s = "open" => From[s] = "created" /\ To[s] = "subscribing"
         /\ s = "activate" => From[s] = "subscribing" /\ To[s] = "active"
         /\ s = "close" => From[s] = "active" /\ To[s] = "settled"
BY DEF From, To, PlanStatuses, StageNames

LEMMA StageIn ==
  ASSUME EarnShape
  PROVE  Stage \in StageNames /\ sched.stage \in 1 .. 3
<1>1. sched.stage \in 1 .. 3
  BY DEF EarnShape
<1>2. Stages[1] = "open" /\ Stages[2] = "activate" /\ Stages[3] = "close"
  BY DEF Stages
<1>3. sched.stage = 1 \/ sched.stage = 2 \/ sched.stage = 3
  BY <1>1
<1> QED BY <1>1, <1>2, <1>3 DEF Stage, StageNames

----------------------------------------------------------------------------
(* The contract *)

PlanT == [status : PlanStatuses, principal : {"kept", "sent", "funded"}]
Event(kind, user) == [kind |-> kind, user |-> user]
Logs(e) == emitted' = Append(emitted, e)
Advances(s) == contract.status = From[s] /\ contract'.status = To[s] /\ contract' \in PlanT

\* The ways in which the plan moves on the chain.
ContractKept == contract'.status = contract.status /\ contract' \in PlanT
ContractMoves ==
    \/ ContractKept /\ emitted' = emitted
    \/ ContractKept /\ contract.status = "subscribing" /\ \E u \in Savers : Logs(Event("joined", u))
    \/ ContractKept /\ contract.status = "settled" /\ \E u \in Savers : Logs(Event("redeemed", u))
    \/ /\ contract.status = "none" /\ contract'.status = "created" /\ contract' \in PlanT
       /\ Logs(Event("created", ""))
    \/ (Advances("open") \/ Advances("activate")) /\ emitted' = emitted
    \/ Advances("close") /\ Logs(Event("closed", ""))

LEMMA WithStatus ==
  ASSUME contract \in PlanT, NEW x \in PlanStatuses, NEW next, next = [contract EXCEPT !.status = x]
  PROVE  next \in PlanT /\ next.status = x
BY DEF PlanT

LEMMA MovedAdvances ==
  ASSUME EarnShape, NEW s \in StageNames, Accepts(s), Moved(s)
  PROVE  /\ Advances(s)
         /\ s = "close" => Logs(Event("closed", ""))
         /\ s # "close" => emitted' = emitted
         /\ ContractMoves
<1>1. contract \in PlanT /\ To[s] \in PlanStatuses
  BY StageFacts DEF EarnShape, PlanT
<1>2. PICK next : next = contract'
  OBVIOUS
<1>3. next = [contract EXCEPT !.status = To[s]]
  BY <1>2 DEF Moved
<1>4. next \in PlanT /\ next.status = To[s]
  BY <1>1, <1>3, WithStatus
<1>5. Advances(s)
  BY <1>2, <1>4 DEF Advances, Accepts
<1>6. (s = "close" => Logs(Event("closed", ""))) /\ (s # "close" => emitted' = emitted)
  BY DEF Moved, Emit, Logs, Event
<1> QED BY <1>5, <1>6 DEF ContractMoves, StageNames

\* What becomes of a call.
Went(s) == Accepts(s) /\ Moved(s) /\ drift' = drift
Reverted == UNCHANGED onChain /\ ~Sound' /\ drift \subseteq drift'
Refused == UNCHANGED <<onChain, drift>>

LEMMA CallEnds ==
  ASSUME NEW s, NEW o \in Outcomes(s) \cup {"refused"}, Called(s, o), Noted(o)
  PROVE  /\ WritesRow(o) => Went(s) \/ Reverted
         /\ ~WritesRow(o) => Refused
<1>1. CASE o = "done"
  <2>1. Accepts(s)
    BY <1>1 DEF Outcomes
  <2>2. Moved(s) /\ drift' = drift
    BY <1>1 DEF Called, Noted
  <2> QED BY <1>1, <2>1, <2>2 DEF WritesRow, Went
<1>2. CASE o = "refused"
  BY <1>2 DEF Called, Noted, WritesRow, Refused
<1>3. CASE o = "reverted"
  BY <1>3 DEF Called, Noted, WritesRow, Reverted, Sound
<1> QED BY <1>1, <1>2, <1>3 DEF Outcomes

LEMMA SchedCalls ==
  ASSUME SchedCall
  PROVE  /\ sched.pc = "call" /\ product' = product /\ admin' = admin
         /\ \/ (Went(Stage) \/ Reverted) /\ sched' = [sched EXCEPT !.pc = "write"]
            \/ Refused /\ sched' = Onto(sched.stage + 1)
<1>1. PICK o \in Outcomes(Stage) :
         /\ Called(Stage, o) /\ Noted(o)
         /\ sched' = IF WritesRow(o) THEN [sched EXCEPT !.pc = "write"] ELSE Onto(sched.stage + 1)
  BY DEF SchedCall
<1>2. (WritesRow(o) => Went(Stage) \/ Reverted) /\ (~WritesRow(o) => Refused)
  BY <1>1, CallEnds
<1> QED BY <1>1, <1>2 DEF SchedCall

LEMMA AdminOpened ==
  ASSUME AdminOpen
  PROVE  /\ admin.pc = "open" /\ product' = product /\ sched' = sched
         /\ \/ (Went("open") \/ Reverted) /\ admin' = [pc |-> "insert", opened |-> TRUE]
            \/ Refused /\ admin' = [pc |-> "insert", opened |-> FALSE]
<1>1. PICK o \in Outcomes("open") \cup {"refused"} :
         /\ Called("open", o) /\ Noted(o)
         /\ admin' = [pc |-> "insert", opened |-> WritesRow(o)]
  BY DEF AdminOpen
<1>2. (WritesRow(o) => Went("open") \/ Reverted) /\ (~WritesRow(o) => Refused)
  BY <1>1, CallEnds
<1>3. CASE WritesRow(o)
  <2>1. WritesRow(o) = TRUE
    BY <1>3 DEF WritesRow
  <2> QED BY <1>1, <1>2, <1>3, <2>1 DEF AdminOpen
<1>4. CASE ~WritesRow(o)
  <2>1. WritesRow(o) = FALSE
    BY <1>4 DEF WritesRow
  <2> QED BY <1>1, <1>2, <1>4, <2>1 DEF AdminOpen
<1> QED BY <1>3, <1>4

LEMMA AdminCalls ==
  ASSUME NEW w \in Wishes, AdminAsks(w)
  PROVE  \/ (\A s \in {"open", "activate"} : To[s] # w) /\ Refused
         \/ \E s \in {"open", "activate"} : To[s] = w /\ (Went(s) \/ Reverted)
<1>1. CASE {s \in {"open", "activate"} : To[s] = w} = {} /\ UNCHANGED <<onChain, drift>>
  BY <1>1 DEF Refused
<1>2. CASE \E s \in {s \in {"open", "activate"} : To[s] = w} : \E o \in Outcomes(s) :
             WritesRow(o) /\ Called(s, o) /\ Noted(o)
  <2>0. PICK s \in {"open", "activate"} : To[s] = w /\ \E o \in Outcomes(s) :
           WritesRow(o) /\ Called(s, o) /\ Noted(o)
    BY <1>2
  <2>1. PICK o \in Outcomes(s) : WritesRow(o) /\ Called(s, o) /\ Noted(o)
    BY <2>0
  <2>2. Went(s) \/ Reverted
    BY <2>1, CallEnds
  <2> QED BY <2>0, <2>2
<1> QED BY <1>1, <1>2 DEF AdminAsks

LEMMA PlanMoves ==
  ASSUME EarnShape, EarnNext
  PROVE  ContractMoves
<1>p. contract \in PlanT
  BY DEF EarnShape, PlanT
<1>s. Stage \in StageNames
  BY StageIn
<1>1. ASSUME NEW u \in Savers, Join(u) PROVE ContractMoves
  BY <1>p, <1>1 DEF Join, Emit, Logs, Event, ContractMoves, ContractKept
<1>2. ASSUME NEW u \in Savers, Leave(u) PROVE ContractMoves
  BY <1>p, <1>2 DEF Leave, Emit, Logs, Event, ContractMoves, ContractKept
<1>3. ASSUME MovePrincipal PROVE ContractMoves
  <2>1. contract' = [contract EXCEPT !.principal = IF contract.principal = "kept" THEN "sent" ELSE "funded"]
    BY <1>3 DEF MovePrincipal
  <2>2. PICK next : next = contract'
    OBVIOUS
  <2>3. next \in PlanT /\ next.status = contract.status
    BY <1>p, <2>1, <2>2 DEF PlanT
  <2> QED BY <1>3, <2>2, <2>3 DEF MovePrincipal, ContractMoves, ContractKept
<1>4. ASSUME SchedCall \/ SchedCallLost PROVE ContractMoves
  <2>1. CASE Accepts(Stage) /\ Moved(Stage)
    BY <1>s, <2>1, MovedAdvances
  <2>2. CASE UNCHANGED onChain
    BY <1>p, <2>2 DEF onChain, ContractMoves, ContractKept
  <2> QED BY <1>4, <2>1, <2>2, SchedCalls DEF SchedCallLost, Went, Reverted, Refused, onChain
<1>5. ASSUME AdminCreate PROVE ContractMoves
  <2>1. PICK next : next = contract'
    OBVIOUS
  <2>2. next = [contract EXCEPT !.status = "created"]
    BY <1>5, <2>1 DEF AdminCreate
  <2>3. next \in PlanT /\ next.status = "created"
    BY <1>p, <2>2 DEF PlanT, PlanStatuses
  <2> QED BY <1>5, <2>1, <2>3 DEF AdminCreate, Emit, Logs, Event, ContractMoves
<1>6. ASSUME AdminOpen PROVE ContractMoves
  <2>1. CASE Accepts("open") /\ Moved("open")
    BY <2>1, MovedAdvances DEF StageNames
  <2>2. CASE UNCHANGED onChain
    BY <1>p, <2>2 DEF onChain, ContractMoves, ContractKept
  <2> QED BY <1>6, <2>1, <2>2, AdminOpened DEF Went, Reverted, Refused, onChain
<1>7. ASSUME NEW w \in Wishes, AdminAsks(w) PROVE ContractMoves
  <2>1. CASE UNCHANGED onChain
    BY <1>p, <2>1 DEF onChain, ContractMoves, ContractKept
  <2>2. ASSUME NEW s \in {"open", "activate"}, Accepts(s), Moved(s) PROVE ContractMoves
    BY <2>2, MovedAdvances DEF StageNames
  <2> QED BY <1>7, <2>1, <2>2, AdminCalls DEF Went, Reverted, Refused, onChain
<1>8. ASSUME \/ Pass \/ \E u \in Savers : PrepareJoin(u)
             \/ SchedList \/ SchedWrite \/ SchedMature \/ SchedFails
             \/ AdminInsert \/ AdminReads \/ AdminWrites
             \/ Poll \/ (\E b \in reader.todo : HandleEvent(b) \/ HandleFails(b)) \/ PollFails \/ PollEnds
             \/ EarnRestart
      PROVE  ContractMoves
  <2>1. UNCHANGED onChain
    BY <1>8 DEF Pass, PrepareJoin, SchedList, SchedWrite, SchedMature, SchedFails, AdminInsert, AdminReads,
                AdminWrites, Poll, HandleEvent, HandleFails, PollFails, PollEnds, EarnRestart
  <2> QED BY <1>p, <2>1 DEF onChain, ContractMoves, ContractKept
<1> QED BY <1>1, <1>2, <1>3, <1>4, <1>5, <1>6, <1>7, <1>8 DEF EarnNext

LEMMA LoggedEvent ==
  ASSUME EarnShape, NEW e \in EventT, Logs(e)
  PROVE  /\ emitted' \in Seq(EventT) /\ Len(emitted') = Len(emitted) + 1
         /\ DOMAIN emitted = 1 .. Len(emitted) /\ DOMAIN emitted' = 1 .. Len(emitted) + 1 /\ Len(emitted) \in Nat
         /\ \A b \in DOMAIN emitted : emitted'[b] = emitted[b]
         /\ emitted'[Len(emitted) + 1] = e
         /\ \A k : Of(k)' = IF e.kind = k THEN Of(k) \cup {Len(emitted) + 1} ELSE Of(k)
<1>1. emitted \in Seq(EventT)
  BY DEF EarnShape
<1>n. PICK n \in Nat : n = Len(emitted) /\ DOMAIN emitted = 1 .. n
  BY <1>1
<1>2. /\ emitted' \in Seq(EventT) /\ Len(emitted') = n + 1 /\ DOMAIN emitted' = 1 .. n + 1
      /\ \A b \in 1 .. n : emitted'[b] = emitted[b]
      /\ emitted'[n + 1] = e
  BY <1>1, <1>n DEF Logs
<1>3. ASSUME NEW k PROVE Of(k)' = IF e.kind = k THEN Of(k) \cup {n + 1} ELSE Of(k)
  <2>1. DOMAIN emitted' = DOMAIN emitted \cup {n + 1} /\ n + 1 \notin DOMAIN emitted
    BY <1>n, <1>2
  <2> QED BY <1>n, <1>2, <2>1 DEF Of
<1> QED BY <1>n, <1>2, <1>3

\* Events stay, and come one at a time.
LEMMA EventsStay ==
  ASSUME EarnShape, EarnNext
  PROVE  /\ emitted' \in Seq(EventT) /\ Len(emitted) \in Nat /\ Len(emitted') \in Nat
         /\ Len(emitted') >= Len(emitted) /\ DOMAIN emitted = 1 .. Len(emitted)
         /\ DOMAIN emitted' = 1 .. Len(emitted')
         /\ \A b \in DOMAIN emitted : emitted'[b] = emitted[b] /\ b \in DOMAIN emitted'
<1>1. CASE emitted' = emitted
  BY <1>1 DEF EarnShape
<1>2. ASSUME NEW e \in EventT, Logs(e)
      PROVE  /\ emitted' \in Seq(EventT) /\ Len(emitted) \in Nat /\ Len(emitted') \in Nat
             /\ Len(emitted') >= Len(emitted) /\ DOMAIN emitted = 1 .. Len(emitted)
             /\ DOMAIN emitted' = 1 .. Len(emitted')
             /\ \A b \in DOMAIN emitted : emitted'[b] = emitted[b] /\ b \in DOMAIN emitted'
  BY <1>2, LoggedEvent
<1>3. emitted' = emitted \/ \E e \in EventT : Logs(e)
  <2>1. \A u \in Savers : Event("joined", u) \in EventT /\ Event("redeemed", u) \in EventT
    BY DEF Event, EventT
  <2>2. Event("created", "") \in EventT /\ Event("closed", "") \in EventT
    BY DEF Event, EventT
  <2> QED BY <2>1, <2>2, PlanMoves DEF ContractMoves
<1> QED BY <1>1, <1>2, <1>3

LEMMA PlanForward ==
  ASSUME EarnShape, EarnNext
  PROVE  /\ contract' \in PlanT
         /\ Rank[contract.status] <= Rank[contract'.status]
         /\ Rank[contract.status] \in Nat /\ Rank[contract'.status] \in Nat
         /\ contract.status # "none" => contract'.status # "none"
         /\ contract.status = "settled" => contract'.status = "settled"
<1>1. contract.status \in PlanStatuses
  BY DEF EarnShape
<1>2. contract' \in PlanT
  BY PlanMoves DEF ContractMoves, ContractKept, Advances
<1>3. \/ contract'.status = contract.status
      \/ contract.status = "none" /\ contract'.status = "created"
      \/ contract.status = "created" /\ contract'.status = "subscribing"
      \/ contract.status = "subscribing" /\ contract'.status = "active"
      \/ contract.status = "active" /\ contract'.status = "settled"
  BY PlanMoves, StageFacts DEF ContractMoves, ContractKept, Advances, StageNames
<1>4. contract'.status \in PlanStatuses
  BY <1>2 DEF PlanT
<1> QED BY <1>1, <1>2, <1>3, <1>4, RankFacts

LEMMA ToldSteps ==
  ASSUME EarnShape, ChainTold, EarnNext
  PROVE  ChainTold'
<1>n. PICK n \in Nat : n = Len(emitted) /\ DOMAIN emitted = 1 .. n
  BY DEF EarnShape
<1>o. \A k : Of(k) \subseteq 1 .. n
  BY <1>n DEF Of
<1>c. contract.status \in PlanStatuses /\ contract'.status \in PlanStatuses
  BY PlanForward DEF EarnShape, PlanT
<1>1. CASE ContractKept /\ emitted' = emitted
  BY <1>1 DEF ContractKept, ChainTold, Of
<1>2. ASSUME NEW u \in Savers, ContractKept, contract.status = "subscribing", Logs(Event("joined", u))
      PROVE  ChainTold'
  <2>1. Event("joined", u) \in EventT /\ Event("joined", u).kind = "joined"
    BY DEF Event, EventT
  <2>2. \A k : Of(k)' = IF "joined" = k THEN Of(k) \cup {n + 1} ELSE Of(k)
    BY <1>n, <1>2, <2>1, LoggedEvent
  <2>3. Of("closed")' = {} /\ Of("redeemed")' = {} /\ Of("created")' # {}
    BY <1>2, <2>2 DEF ChainTold
  <2> QED BY <1>2, <2>3 DEF ChainTold, ContractKept
<1>3. ASSUME NEW u \in Savers, ContractKept, contract.status = "settled", Logs(Event("redeemed", u))
      PROVE  ChainTold'
  <2>1. Event("redeemed", u) \in EventT /\ Event("redeemed", u).kind = "redeemed"
    BY DEF Event, EventT
  <2>2. \A k : Of(k)' = IF "redeemed" = k THEN Of(k) \cup {n + 1} ELSE Of(k)
    BY <1>n, <1>3, <2>1, LoggedEvent
  <2>3. \A c \in Of("redeemed")' : \A b \in Of("joined")' \cup Of("closed")' : b < c
    <3>1. \A b \in Of("joined") \cup Of("closed") : b < n + 1
      BY <1>o
    <3> QED BY <2>2, <3>1 DEF ChainTold
  <2> QED BY <1>3, <2>2, <2>3 DEF ChainTold, ContractKept
<1>4. ASSUME contract.status = "none", contract'.status = "created", Logs(Event("created", ""))
      PROVE  ChainTold'
  <2>1. Event("created", "") \in EventT /\ Event("created", "").kind = "created"
    BY DEF Event, EventT
  <2>2. \A k : Of(k)' = IF "created" = k THEN Of(k) \cup {n + 1} ELSE Of(k)
    BY <1>n, <1>4, <2>1, LoggedEvent
  <2>3. Of("closed")' = {} /\ Of("redeemed")' = {} /\ Of("created")' # {}
    BY <1>4, <2>2 DEF ChainTold
  <2> QED BY <1>4, <2>3 DEF ChainTold
<1>5. ASSUME Advances("open") \/ Advances("activate"), emitted' = emitted
      PROVE  ChainTold'
  <2>1. contract.status \in {"created", "subscribing"} /\ contract'.status \in {"subscribing", "active"}
    BY <1>5, StageFacts DEF Advances, StageNames
  <2> QED BY <1>5, <2>1 DEF ChainTold, Of
<1>6. ASSUME Advances("close"), Logs(Event("closed", ""))
      PROVE  ChainTold'
  <2>1. contract.status = "active" /\ contract'.status = "settled"
    BY <1>6, StageFacts DEF Advances, StageNames
  <2>2. Event("closed", "") \in EventT /\ Event("closed", "").kind = "closed"
    BY DEF Event, EventT
  <2>3. \A k : Of(k)' = IF "closed" = k THEN Of(k) \cup {n + 1} ELSE Of(k)
    BY <1>n, <1>6, <2>2, LoggedEvent
  <2>4. Of("closed")' = {n + 1} /\ Of("redeemed")' = {} /\ Of("created")' # {}
    BY <2>1, <2>3 DEF ChainTold
  <2> QED BY <2>1, <2>4 DEF ChainTold
<1> QED BY <1>1, <1>2, <1>3, <1>4, <1>5, <1>6, PlanMoves DEF ContractMoves

----------------------------------------------------------------------------
(* The rows, by their writers *)

LEMMA RowStatus ==
  ASSUME EarnShape, NEW x \in RowStatuses, NEW next, next = [product EXCEPT !.status = x]
  PROVE  next.status = x /\ next.total = product.total /\ next \in [status : RowStatuses, total : Nat]
BY DEF EarnShape

LEMMA WishFacts ==
  ASSUME NEW from \in RowStatuses, NEW want \in Wishes, IsAllowed(from, want)
  PROVE  /\ want = "subscribing" => from = "created"
         /\ want = "active" => from = "subscribing"
BY DEF IsAllowed, Transitions, Wishes

\* Who writes the row's status, and what.
Writes(x) == product'.status = x /\ product'.total = product.total /\ product' \in [status : RowStatuses, total : Nat]
RowKept == product'.status = product.status /\ product' \in [status : RowStatuses, total : Nat]

\* The handler of an event, case by case.
HandledOther(b) == UNCHANGED <<product, subs, claimed, settlements>>
HandledCreated(b) ==
    /\ emitted[b].kind = "created" /\ product.status = "none" /\ Writes("created")
    /\ UNCHANGED <<subs, claimed, settlements>>
HandledJoin(b) ==
    /\ emitted[b].kind = "joined" /\ emitted[b].user \in Savers /\ product.status # "none" /\ b \notin claimed
    /\ BookJoin(b, emitted[b].user) /\ RowKept /\ product'.total = product.total + 1
HandledClose(b) ==
    /\ emitted[b].kind = "closed" /\ product.status # "none" /\ b \notin claimed
    /\ BookClose(b) /\ Writes("settled")
HandledLeave(b) ==
    /\ emitted[b].kind = "redeemed" /\ emitted[b].user \in Savers /\ BookLeave(emitted[b].user)

LEMMA EventFacts ==
  ASSUME EarnShape, NEW b \in DOMAIN emitted
  PROVE  /\ emitted[b] \in EventT /\ emitted[b].kind \in {"created", "joined", "closed", "redeemed"}
         /\ emitted[b].kind \in {"joined", "redeemed"} => emitted[b].user \in Savers
<1>1. emitted[b] \in EventT
  BY DEF EarnShape
<1> QED BY <1>1 DEF EventT

LEMMA WindowFacts ==
  ASSUME EarnShape, NEW b \in reader.todo, reader.pc = "run"
  PROVE  b \in DOMAIN emitted /\ b \in reader.at + 1 .. reader.to /\ b \in Nat
<1>1. /\ emitted \in Seq(EventT) /\ reader.at \in Nat /\ reader.to \in Nat /\ reader.to <= Len(emitted)
      /\ b \in reader.at + 1 .. reader.to
  BY DEF EarnShape
<1>2. Len(emitted) \in Nat /\ DOMAIN emitted = 1 .. Len(emitted)
  BY <1>1
<1> QED BY <1>1, <1>2

LEMMA Handling ==
  ASSUME EarnShape, NEW b \in reader.todo, HandleEvent(b)
  PROVE  /\ reader.pc = "run" /\ IsNext(b) /\ b \in DOMAIN emitted
         /\ HandledOther(b) \/ HandledCreated(b) \/ HandledJoin(b) \/ HandledClose(b) \/ HandledLeave(b)
         /\ emitted[b].kind = "created" => product'.status # "none"
         /\ emitted[b].kind = "joined" => b \in claimed' \cup ignored'
         /\ emitted[b].kind = "redeemed" => HandledLeave(b)
         /\ ignored' = ignored \/ ignored' = ignored \cup {b}
         /\ UNCHANGED <<contract, emitted, sched, admin, cursor, drift>>
<1>1. /\ reader.pc = "run" /\ IsNext(b)
      /\ UNCHANGED <<contract, emitted, sched, admin, cursor, drift>>
      /\ ignored' = IF emitted[b].kind \in {"joined", "closed"} /\ ~Known THEN ignored \cup {b} ELSE ignored
  BY DEF HandleEvent, onChain
<1>2. /\ b \in DOMAIN emitted /\ emitted[b].kind \in {"created", "joined", "closed", "redeemed"}
      /\ emitted[b].kind \in {"joined", "redeemed"} => emitted[b].user \in Savers
  BY <1>1, WindowFacts, EventFacts
<1>k. Known <=> product.status # "none"
  BY DEF Known
<1>3. CASE emitted[b].kind = "created"
  <2>1. /\ product' = IF Known THEN product ELSE [product EXCEPT !.status = "created"]
        /\ UNCHANGED <<subs, claimed, settlements>>
    BY <1>3 DEF HandleEvent, booked
  <2>2. CASE Known
    BY <1>1, <1>2, <1>3, <1>k, <2>1, <2>2 DEF HandledOther
  <2>3. CASE ~Known
    <3>1. PICK next : next = product'
      OBVIOUS
    <3>2. next = [product EXCEPT !.status = "created"]
      BY <2>1, <2>3, <3>1
    <3>3. Writes("created")
      BY <3>1, <3>2, RowStatus DEF Writes, RowStatuses, PlanStatuses
    <3> QED BY <1>1, <1>2, <1>3, <1>k, <2>1, <2>3, <3>3 DEF HandledCreated, Writes
  <2> QED BY <2>2, <2>3
<1>4. CASE emitted[b].kind = "joined" /\ Known /\ IsUnclaimed(b)
  <2>1. BookJoin(b, emitted[b].user)
    BY <1>4 DEF HandleEvent
  <2>2. PICK next : next = product'
    OBVIOUS
  <2>3. next = [product EXCEPT !.total = product.total + 1]
    BY <2>1, <2>2 DEF BookJoin
  <2>4. next.status = product.status /\ next.total = product.total + 1 /\ next \in [status : RowStatuses, total : Nat]
    BY <2>3 DEF EarnShape
  <2>5. HandledJoin(b)
    BY <1>2, <1>4, <1>k, <2>1, <2>2, <2>4 DEF HandledJoin, RowKept, IsUnclaimed
  <2>6. b \in claimed'
    BY <2>1 DEF BookJoin
  <2> QED BY <1>1, <1>2, <1>4, <2>5, <2>6
<1>5. CASE emitted[b].kind = "closed" /\ Known /\ IsUnclaimed(b)
  <2>1. BookClose(b)
    BY <1>5 DEF HandleEvent
  <2>2. PICK next : next = product'
    OBVIOUS
  <2>3. next = [product EXCEPT !.status = "settled"]
    BY <2>1, <2>2 DEF BookClose
  <2>4. Writes("settled")
    BY <2>2, <2>3, RowStatus DEF Writes, RowStatuses, PlanStatuses
  <2>5. HandledClose(b)
    BY <1>5, <1>k, <2>1, <2>4 DEF HandledClose, IsUnclaimed
  <2> QED BY <1>1, <1>2, <1>5, <2>5
<1>6. CASE emitted[b].kind = "redeemed"
  <2>1. BookLeave(emitted[b].user)
    BY <1>6 DEF HandleEvent
  <2>2. HandledLeave(b)
    BY <1>2, <1>6, <2>1 DEF HandledLeave
  <2> QED BY <1>1, <1>2, <1>6, <2>2
<1>7. CASE emitted[b].kind \in {"joined", "closed"} /\ ~(Known /\ IsUnclaimed(b))
  <2>1. HandledOther(b)
    BY <1>7 DEF HandleEvent, HandledOther, booked
  <2>2. b \in claimed' \cup ignored'
    BY <1>1, <1>7, <2>1 DEF HandledOther, IsUnclaimed
  <2> QED BY <1>1, <1>2, <1>7, <2>1, <2>2
<1> QED BY <1>2, <1>3, <1>4, <1>5, <1>6, <1>7

----------------------------------------------------------------------------
(* The shapes *)

RowT == [status : RowStatuses, total : Nat]

LEMMA SchedWrote ==
  ASSUME EarnShape, SchedWrite
  PROVE  /\ Writes(To[Stage]) /\ sched.pc = "write" /\ Stage \in StageNames
         /\ drift' = drift \cup (IF product.status = "settled" THEN {} ELSE Overwrites(From[Stage]))
         /\ UNCHANGED <<contract, emitted, subs, claimed, settlements, admin, reader, cursor, ignored>>
<1>1. Stage \in StageNames
  BY StageIn
<1>2. PICK next : next = product'
  OBVIOUS
<1>3. next = [product EXCEPT !.status = To[Stage]]
  BY <1>2 DEF SchedWrite
<1>4. To[Stage] \in RowStatuses
  BY <1>1, StageFacts DEF RowStatuses
<1>5. Writes(To[Stage])
  BY <1>2, <1>3, <1>4, RowStatus DEF Writes
<1> QED BY <1>1, <1>5 DEF SchedWrite, onChain, booked

LEMMA AdminInserted ==
  ASSUME EarnShape, AdminInsert
  PROVE  /\ admin.pc = "insert"
         /\ IF product.status = "none" THEN Writes("created") ELSE product' = product
         /\ admin' = IF admin.opened THEN [pc |-> "read", want |-> "subscribing"] ELSE NoRequest
         /\ UNCHANGED <<contract, emitted, subs, claimed, settlements, sched, reader, cursor, ignored, drift>>
<1>1. CASE product.status = "none"
  <2>1. PICK next : next = product'
    OBVIOUS
  <2>2. next = [product EXCEPT !.status = "created"]
    BY <1>1, <2>1 DEF AdminInsert
  <2>3. Writes("created")
    BY <2>1, <2>2, RowStatus DEF Writes, RowStatuses, PlanStatuses
  <2> QED BY <1>1, <2>3 DEF AdminInsert, onChain, booked
<1>2. CASE product.status # "none"
  BY <1>2 DEF AdminInsert, onChain, booked
<1> QED BY <1>1, <1>2

LEMMA AdminFacts ==
  ASSUME EarnShape
  PROVE  /\ admin.pc \in {"idle", "open", "insert", "read", "write"}
         /\ admin.pc = "insert" => admin.opened \in BOOLEAN
         /\ admin.pc \in {"read", "write"} => admin.want \in Wishes
         /\ admin.pc = "write" => admin.saw \in RowStatuses
<1>1. admin \in AdminT
  BY DEF EarnShape
<1> QED BY <1>1 DEF AdminT

LEMMA AdminWrote ==
  ASSUME EarnShape, AdminWrites
  PROVE  /\ Writes(admin.want) /\ admin.pc = "write" /\ admin.want \in Wishes /\ admin.saw \in RowStatuses
         /\ drift' = drift \cup Overwrites(admin.saw)
                  \cup (IF admin.want \in {"settled", "ended", "cancelled"} THEN {"manual"} ELSE {})
         /\ admin' = NoRequest
         /\ UNCHANGED <<contract, emitted, subs, claimed, settlements, sched, reader, cursor, ignored>>
<1>1. admin.pc = "write"
  BY DEF AdminWrites
<1>2. admin.want \in Wishes /\ admin.saw \in RowStatuses
  BY <1>1, AdminFacts
<1>3. admin.want \in RowStatuses
  BY <1>2 DEF Wishes, RowStatuses, PlanStatuses
<1>4. PICK next : next = product'
  OBVIOUS
<1>5. next = [product EXCEPT !.status = admin.want]
  BY <1>4 DEF AdminWrites
<1>6. Writes(admin.want)
  BY <1>3, <1>4, <1>5, RowStatus DEF Writes
<1> QED BY <1>1, <1>2, <1>6 DEF AdminWrites, onChain, booked

LEMMA RowShape ==
  ASSUME EarnShape, EarnNext
  PROVE  product' \in RowT
<1>p. product \in RowT
  BY DEF EarnShape, RowT
<1>1. CASE SchedWrite
  BY <1>1, SchedWrote DEF Writes, RowT
<1>2. CASE AdminInsert
  BY <1>p, <1>2, AdminInserted DEF Writes, RowT
<1>3. CASE AdminWrites
  BY <1>3, AdminWrote DEF Writes, RowT
<1>4. ASSUME NEW b \in reader.todo, HandleEvent(b) PROVE product' \in RowT
  <2>1. HandledOther(b) \/ HandledCreated(b) \/ HandledJoin(b) \/ HandledClose(b) \/ HandledLeave(b)
    BY <1>4, Handling
  <2> QED BY <1>p, <2>1 DEF HandledOther, HandledCreated, HandledJoin, HandledClose, HandledLeave, BookLeave, Writes,
                   RowKept, RowT
<1>5. ASSUME \/ Pass \/ MovePrincipal \/ \E u \in Savers : PrepareJoin(u) \/ Join(u) \/ Leave(u)
             \/ SchedList \/ SchedCall \/ SchedCallLost \/ SchedMature \/ SchedFails
             \/ AdminCreate \/ AdminOpen \/ (\E w \in Wishes : AdminAsks(w)) \/ AdminReads
             \/ Poll \/ (\E b \in reader.todo : HandleFails(b)) \/ PollFails \/ PollEnds \/ EarnRestart
      PROVE  product' = product
  BY <1>5 DEF Pass, MovePrincipal, PrepareJoin, Join, Leave, SchedList, SchedCall, SchedCallLost, SchedMature,
              SchedFails, AdminCreate, AdminOpen, AdminAsks, AdminReads, Poll, HandleFails, PollFails, PollEnds,
              EarnRestart
<1> QED BY <1>p, <1>1, <1>2, <1>3, <1>4, <1>5 DEF EarnNext

LEMMA MaturedShape ==
  ASSUME subs \in [Savers -> SubT]
  PROVE  /\ Matured \in [Savers -> SubT]
         /\ \A u \in Savers : /\ Matured[u].amount = subs[u].amount
                              /\ Matured[u].status = IF subs[u].status = "none" THEN "none" ELSE "matured"
<1>1. ASSUME NEW u \in Savers
      PROVE  /\ Matured[u] \in SubT /\ Matured[u].amount = subs[u].amount
             /\ Matured[u].status = IF subs[u].status = "none" THEN "none" ELSE "matured"
  <2>1. subs[u] \in SubT
    OBVIOUS
  <2>2. Matured[u] = IF subs[u].status = "none" THEN subs[u] ELSE [subs[u] EXCEPT !.status = "matured"]
    BY DEF Matured
  <2>3. CASE subs[u].status = "none"
    BY <2>1, <2>2, <2>3
  <2>4. CASE subs[u].status # "none"
    <3>1. PICK m : m = Matured[u]
      OBVIOUS
    <3>2. m = [subs[u] EXCEPT !.status = "matured"]
      BY <2>2, <2>4, <3>1
    <3>3. m \in SubT /\ m.amount = subs[u].amount /\ m.status = "matured"
      BY <2>1, <3>2 DEF SubT
    <3> QED BY <2>4, <3>1, <3>3
  <2> QED BY <2>3, <2>4
<1>2. Matured = [u \in Savers |-> Matured[u]]
  BY DEF Matured
<1> HIDE DEF Matured
<1>3. Matured \in [Savers -> SubT]
  BY <1>1, <1>2
<1> QED BY <1>1, <1>3

LEMMA JoinShape ==
  ASSUME EarnShape, NEW b, NEW u \in Savers, BookJoin(b, u)
  PROVE  /\ subs' \in [Savers -> SubT] /\ subs'[u].amount = subs[u].amount + 1
         /\ subs'[u].status = IF subs[u].status = "none" THEN "active" ELSE subs[u].status
         /\ \A v \in Savers \ {u} : subs'[v] = subs[v]
<1>1. subs \in [Savers -> SubT] /\ subs[u] \in SubT
  BY DEF EarnShape
<1>2. PICK x : x = [status |-> IF subs[u].status = "none" THEN "active" ELSE subs[u].status,
                    amount |-> subs[u].amount + 1]
  OBVIOUS
<1>3. x \in SubT /\ x.amount = subs[u].amount + 1
      /\ x.status = IF subs[u].status = "none" THEN "active" ELSE subs[u].status
  BY <1>1, <1>2 DEF SubT
<1>4. subs' = [subs EXCEPT ![u] = x]
  BY <1>2 DEF BookJoin
<1> QED BY <1>1, <1>3, <1>4

LEMMA LeaveShape ==
  ASSUME EarnShape, NEW u \in Savers, BookLeave(u)
  PROVE  /\ subs' \in [Savers -> SubT] /\ subs'[u].amount = subs[u].amount
         /\ subs'[u].status \in {"none", "redeemed"}
         /\ \A v \in Savers \ {u} : subs'[v] = subs[v]
<1>1. subs \in [Savers -> SubT] /\ subs[u] \in SubT
  BY DEF EarnShape
<1>2. PICK x : x = [subs[u] EXCEPT !.status = IF subs[u].status = "none" THEN "none" ELSE "redeemed"]
  OBVIOUS
<1>3. x \in SubT /\ x.amount = subs[u].amount /\ x.status \in {"none", "redeemed"}
  BY <1>1, <1>2 DEF SubT
<1>4. subs' = [subs EXCEPT ![u] = x]
  BY <1>2 DEF BookLeave
<1> QED BY <1>1, <1>3, <1>4

BooksShape == subs \in [Savers -> SubT] /\ settlements \in Nat /\ claimed \subseteq DOMAIN emitted /\ signed \subseteq Savers

LEMMA BooksShapeSteps ==
  ASSUME EarnShape, EarnNext
  PROVE  BooksShape'
<1>i. BooksShape
  BY DEF EarnShape, BooksShape
<1>e. DOMAIN emitted \subseteq DOMAIN emitted'
  BY EventsStay
<1>1. CASE SchedMature
  <2>1. subs' = Matured /\ UNCHANGED <<settlements, claimed, signed>>
    BY <1>1 DEF SchedMature
  <2> QED BY <1>e, <1>i, <2>1, MaturedShape DEF BooksShape
<1>2. ASSUME NEW b \in reader.todo, HandleEvent(b) PROVE BooksShape'
  <2>1. /\ b \in DOMAIN emitted
        /\ HandledOther(b) \/ HandledCreated(b) \/ HandledJoin(b) \/ HandledClose(b) \/ HandledLeave(b)
    BY <1>2, Handling
  <2>s. signed' = signed
    BY <1>2 DEF HandleEvent
  <2>2. CASE HandledOther(b) \/ HandledCreated(b)
    BY <1>e, <1>i, <2>s, <2>2 DEF HandledOther, HandledCreated, BooksShape
  <2>3. CASE HandledJoin(b)
    <3>1. subs' \in [Savers -> SubT]
      BY <2>3, JoinShape DEF HandledJoin
    <3>2. claimed' = claimed \cup {b} /\ settlements' = settlements
      BY <2>3 DEF HandledJoin, BookJoin
    <3> QED BY <1>e, <1>i, <2>1, <2>s, <3>1, <3>2 DEF BooksShape
  <2>4. CASE HandledClose(b)
    <3>1. claimed' = claimed \cup {b} /\ settlements' = settlements + 1 /\ subs' = Matured
      BY <2>4 DEF HandledClose, BookClose
    <3> QED BY <1>e, <1>i, <2>1, <2>s, <3>1, MaturedShape DEF BooksShape
  <2>5. CASE HandledLeave(b)
    <3>1. subs' \in [Savers -> SubT]
      BY <2>5, LeaveShape DEF HandledLeave
    <3>2. claimed' = claimed /\ settlements' = settlements
      BY <2>5 DEF HandledLeave, BookLeave
    <3> QED BY <1>e, <1>i, <2>1, <2>s, <3>1, <3>2 DEF BooksShape
  <2> QED BY <2>1, <2>2, <2>3, <2>4, <2>5
<1>3. ASSUME \/ Pass \/ MovePrincipal \/ \E u \in Savers : PrepareJoin(u) \/ Join(u) \/ Leave(u)
             \/ SchedList \/ SchedCall \/ SchedCallLost \/ SchedWrite \/ SchedFails
             \/ AdminCreate \/ AdminOpen \/ AdminInsert \/ (\E w \in Wishes : AdminAsks(w)) \/ AdminReads
             \/ AdminWrites
             \/ Poll \/ (\E b \in reader.todo : HandleFails(b)) \/ PollFails \/ PollEnds \/ EarnRestart
      PROVE  BooksShape'
  <2>1. UNCHANGED <<subs, claimed, settlements>> /\ signed' \subseteq Savers
    BY <1>i, <1>3 DEF Pass, MovePrincipal, PrepareJoin, Join, Leave, SchedList, SchedCall, SchedCallLost, SchedWrite,
              SchedFails, AdminCreate, AdminOpen, AdminInsert, AdminAsks, AdminReads, AdminWrites, Poll, HandleFails,
              PollFails, PollEnds, EarnRestart, booked, BooksShape
  <2> QED BY <1>e, <1>i, <2>1 DEF BooksShape
<1> QED BY <1>1, <1>2, <1>3 DEF EarnNext

SchedT == [stage : 1 .. 3, pc : {"list", "call", "write", "mature"}]

LEMMA OntoShape ==
  ASSUME NEW n \in 1 .. 3
  PROVE  /\ Onto(n + 1) \in SchedT /\ Onto(n + 1).pc = "list" /\ Onto(4) \in SchedT /\ Onto(4).pc = "list"
         /\ Stopped \in SchedT /\ Stopped.pc = "list"
BY DEF Onto, SchedT, Stopped

\* The scheduler goes to a label of the same stage, or to a list.
SchedAt(pc) == sched' \in SchedT /\ sched'.pc = pc /\ sched'.stage = sched.stage

LEMMA SchedGoes ==
  ASSUME EarnShape, NEW pc \in {"list", "call", "write", "mature"}, sched' = [sched EXCEPT !.pc = pc]
  PROVE  SchedAt(pc) /\ Stage' = Stage
<1>1. PICK next : next = sched'
  OBVIOUS
<1>2. next \in SchedT /\ next.pc = pc /\ next.stage = sched.stage
  BY <1>1 DEF EarnShape, SchedT
<1> QED BY <1>1, <1>2 DEF SchedAt, Stage

\* What each of its steps does.
LEMMA SchedMoves ==
  ASSUME EarnShape, EarnNext
  PROVE  \/ sched' = sched /\ Stage' = Stage
         \/ sched' \in SchedT /\ sched'.pc = "list"
         \/ /\ SchedList /\ SchedAt("call") /\ Stage' = Stage /\ product.status = From[Stage]
         \/ /\ SchedCall /\ SchedAt("write") /\ Stage' = Stage
            /\ (Accepts(Stage) /\ Moved(Stage)) \/ ~Sound'
         \/ /\ SchedWrite /\ SchedAt("mature") /\ Stage' = Stage
<1>s. sched.stage \in 1 .. 3
  BY StageIn
<1>o. /\ Onto(sched.stage + 1) \in SchedT /\ Onto(sched.stage + 1).pc = "list"
      /\ Onto(4) \in SchedT /\ Onto(4).pc = "list" /\ Stopped \in SchedT /\ Stopped.pc = "list"
  BY <1>s, OntoShape
<1>1. CASE SchedList
  <2>1. \/ product.status = From[Stage] /\ sched' = [sched EXCEPT !.pc = "call"]
        \/ sched' = Onto(sched.stage + 1)
    BY <1>1 DEF SchedList
  <2> QED BY <1>1, <1>o, <2>1, SchedGoes
<1>2. CASE SchedCall
  <2>1. \/ ((Accepts(Stage) /\ Moved(Stage)) \/ ~Sound') /\ sched' = [sched EXCEPT !.pc = "write"]
        \/ sched' = Onto(sched.stage + 1)
    BY <1>2, SchedCalls DEF Went, Reverted
  <2> QED BY <1>2, <1>o, <2>1, SchedGoes
<1>3. CASE SchedWrite
  <2>1. sched' = [sched EXCEPT !.pc = "mature"] \/ sched' = Onto(sched.stage + 1)
    BY <1>3 DEF SchedWrite
  <2> QED BY <1>3, <1>o, <2>1, SchedGoes
<1>4. CASE SchedCallLost \/ SchedMature \/ SchedFails \/ EarnRestart
  BY <1>4, <1>o DEF SchedCallLost, SchedMature, SchedFails, EarnRestart
<1>5. ASSUME \/ Pass \/ MovePrincipal \/ \E u \in Savers : PrepareJoin(u) \/ Join(u) \/ Leave(u)
             \/ AdminCreate \/ AdminOpen \/ AdminInsert \/ (\E w \in Wishes : AdminAsks(w)) \/ AdminReads
             \/ AdminWrites
             \/ Poll \/ (\E b \in reader.todo : HandleEvent(b) \/ HandleFails(b)) \/ PollFails \/ PollEnds
      PROVE  sched' = sched /\ Stage' = Stage
  BY <1>5 DEF Pass, MovePrincipal, PrepareJoin, Join, Leave, AdminCreate, AdminOpen, AdminInsert, AdminAsks,
              AdminReads, AdminWrites, Poll, HandleEvent, HandleFails, PollFails, PollEnds, Stage
<1> QED BY <1>1, <1>2, <1>3, <1>4, <1>5 DEF EarnNext

LEMMA SchedShape ==
  ASSUME EarnShape, EarnNext
  PROVE  sched' \in SchedT
BY SchedMoves DEF EarnShape, SchedT, SchedAt

\* What each step of the administrator does.
LEMMA AdminMoves ==
  ASSUME EarnShape, EarnNext
  PROVE  /\ admin' \in AdminT
         /\ \/ admin' = admin
            \/ admin'.pc = "idle"
            \/ AdminCreate /\ admin'.pc = "open"
            \/ /\ AdminOpen /\ admin.pc = "open" /\ admin'.pc = "insert"
               /\ \/ admin'.opened /\ ((Accepts("open") /\ Moved("open")) \/ Reverted)
                  \/ ~admin'.opened /\ UNCHANGED onChain
            \/ AdminInsert /\ admin.opened /\ admin'.pc = "read" /\ admin'.want = "subscribing"
            \/ \E w \in Wishes : AdminAsks(w) /\ admin'.pc = "read" /\ admin'.want = w
            \/ /\ AdminReads /\ IsAllowed(product.status, admin.want)
               /\ admin.pc = "read" /\ admin'.pc = "write" /\ admin'.want = admin.want /\ admin'.saw = product.status
<1>a. admin \in AdminT
  BY DEF EarnShape
<1>r. NoRequest \in AdminT /\ NoRequest.pc = "idle"
  BY DEF NoRequest, AdminT
<1>1. CASE AdminCreate
  <2>1. admin' = [pc |-> "open"]
    BY <1>1 DEF AdminCreate
  <2> QED BY <1>1, <2>1 DEF AdminT
<1>2. CASE AdminOpen
  <2>1. PICK o \in BOOLEAN :
           /\ admin' = [pc |-> "insert", opened |-> o]
           /\ o => (Accepts("open") /\ Moved("open")) \/ Reverted
           /\ ~o => UNCHANGED onChain
    <3>1. CASE (Went("open") \/ Reverted) /\ admin' = [pc |-> "insert", opened |-> TRUE]
      BY <3>1 DEF Went
    <3>2. CASE Refused /\ admin' = [pc |-> "insert", opened |-> FALSE]
      BY <3>2 DEF Refused
    <3> QED BY <1>2, <3>1, <3>2, AdminOpened
  <2>2. admin' \in AdminT /\ admin'.pc = "insert" /\ admin'.opened = o
    BY <2>1 DEF AdminT
  <2>3. admin.pc = "open"
    BY <1>2 DEF AdminOpen
  <2> QED BY <1>2, <2>1, <2>2, <2>3
<1>3. CASE AdminInsert
  <2>1. admin' = IF admin.opened THEN [pc |-> "read", want |-> "subscribing"] ELSE NoRequest
    BY <1>3 DEF AdminInsert
  <2>2. "subscribing" \in Wishes
    BY DEF Wishes
  <2> QED BY <1>3, <1>r, <2>1, <2>2 DEF AdminT
<1>4. ASSUME NEW w \in Wishes, AdminAsks(w) PROVE admin' \in AdminT /\ admin'.pc = "read" /\ admin'.want = w
  BY <1>4 DEF AdminAsks, AdminT
<1>5. CASE AdminReads
  <2>0. admin.pc = "read" /\ admin.want \in Wishes /\ product.status \in RowStatuses
    BY <1>5, AdminFacts DEF AdminReads, EarnShape
  <2>1. \/ IsAllowed(product.status, admin.want) /\ admin' = [pc |-> "write", want |-> admin.want, saw |-> product.status]
        \/ admin' = NoRequest
    BY <1>5 DEF AdminReads
  <2> QED BY <1>5, <1>r, <2>0, <2>1 DEF AdminT
<1>6. CASE AdminWrites \/ EarnRestart
  <2>1. admin' = NoRequest
    BY <1>6 DEF AdminWrites, EarnRestart
  <2> QED BY <1>r, <2>1
<1>7. ASSUME \/ Pass \/ MovePrincipal \/ \E u \in Savers : PrepareJoin(u) \/ Join(u) \/ Leave(u)
             \/ SchedList \/ SchedCall \/ SchedCallLost \/ SchedWrite \/ SchedMature \/ SchedFails
             \/ Poll \/ (\E b \in reader.todo : HandleEvent(b) \/ HandleFails(b)) \/ PollFails \/ PollEnds
      PROVE  admin' = admin
  BY <1>7 DEF Pass, MovePrincipal, PrepareJoin, Join, Leave, SchedList, SchedCall, SchedCallLost, SchedWrite,
              SchedMature, SchedFails, Poll, HandleEvent, HandleFails, PollFails, PollEnds
<1> QED BY <1>a, <1>1, <1>2, <1>3, <1>4, <1>5, <1>6, <1>7 DEF EarnNext

ReaderT == [pc : {"idle", "run"}, at : Nat, to : Nat, todo : SUBSET Nat]
ReaderShape ==
    /\ reader \in ReaderT
    /\ cursor \in Nat /\ cursor <= reader.at /\ reader.at <= Len(emitted)
    /\ reader.pc = "run" => /\ reader.at <= reader.to /\ reader.to <= Len(emitted)
                            /\ reader.todo \subseteq reader.at + 1 .. reader.to

\* What each step does to the listener.
Taken(b) == /\ reader'.pc = "run" /\ reader.pc = "run" /\ reader'.at = reader.at /\ reader'.to = reader.to
            /\ reader'.todo = reader.todo \ {b} /\ reader' \in ReaderT
Restarts == reader'.pc = "idle" /\ reader'.at <= reader.at /\ reader' \in ReaderT /\ cursor' \in Nat /\ cursor' <= reader'.at
Polled == /\ reader.pc = "idle" /\ reader'.pc = "run" /\ reader'.at = reader.at /\ reader'.to = Len(emitted)
          /\ reader'.todo = reader.at + 1 .. Len(emitted) /\ reader' \in ReaderT
Ended == /\ reader.pc = "run" /\ reader.todo = {} /\ reader'.pc = "idle" /\ reader'.at = reader.to /\ reader' \in ReaderT

LEMMA ReaderMoves ==
  ASSUME EarnShape, EarnNext
  PROVE  \/ reader' = reader /\ cursor' = cursor
         \/ \E b \in reader.todo : IsNext(b) /\ Taken(b) /\ cursor' = cursor /\ (HandleEvent(b) \/ HandleFails(b))
         \/ Restarts
         \/ Polled /\ emitted' = emitted /\ cursor' = cursor
         \/ Ended /\ emitted' = emitted /\ cursor' \in {cursor, reader.to}
<1>r. ReaderShape
  BY DEF EarnShape, ReaderShape, ReaderT
<1>t. reader \in ReaderT
  BY <1>r DEF ReaderShape
<1>p. PICK next : next = reader'
  OBVIOUS
<1>1. CASE Poll
  <2>1. reader.pc = "idle" /\ emitted' = emitted /\ cursor' = cursor
    BY <1>1 DEF Poll, onChain
  <2>2. next = [reader EXCEPT !.pc = "run", !.to = Len(emitted), !.todo = NextEvents]
    BY <1>1, <1>p DEF Poll
  <2>3. NextEvents = reader.at + 1 .. Len(emitted) /\ NextEvents \in SUBSET Nat /\ Len(emitted) \in Nat
    BY <1>t DEF NextEvents, EarnShape, ReaderT
  <2>4. next \in ReaderT /\ next.pc = "run" /\ next.at = reader.at /\ next.to = Len(emitted) /\ next.todo = NextEvents
    BY <1>t, <2>2, <2>3 DEF ReaderT
  <2> QED BY <1>p, <2>1, <2>3, <2>4 DEF Polled
<1>2. ASSUME NEW b \in reader.todo, HandleEvent(b) \/ HandleFails(b)
      PROVE  IsNext(b) /\ Taken(b) /\ cursor' = cursor
  <2>1. reader.pc = "run" /\ IsNext(b) /\ cursor' = cursor
    BY <1>2 DEF HandleEvent, HandleFails
  <2>2. next = [reader EXCEPT !.todo = reader.todo \ {b}]
    BY <1>2, <1>p DEF HandleEvent, HandleFails
  <2>3. next \in ReaderT /\ next.pc = "run" /\ next.at = reader.at /\ next.to = reader.to /\ next.todo = reader.todo \ {b}
    BY <1>t, <2>1, <2>2 DEF ReaderT
  <2> QED BY <1>p, <2>1, <2>3 DEF Taken
<1>3. CASE PollFails
  <2>1. next = [reader EXCEPT !.pc = "idle", !.todo = {}] /\ cursor' = cursor
    BY <1>3, <1>p DEF PollFails
  <2>2. next \in ReaderT /\ next.pc = "idle" /\ next.at = reader.at
    BY <1>t, <2>1 DEF ReaderT
  <2> QED BY <1>p, <1>r, <2>1, <2>2 DEF Restarts, ReaderShape, ReaderT
<1>4. CASE PollEnds
  <2>1. reader.pc = "run" /\ reader.todo = {} /\ emitted' = emitted /\ cursor' \in {cursor, reader.to}
    BY <1>4 DEF PollEnds, onChain
  <2>2. next = [reader EXCEPT !.pc = "idle", !.at = reader.to]
    BY <1>4, <1>p DEF PollEnds
  <2>3. next \in ReaderT /\ next.pc = "idle" /\ next.at = reader.to
    BY <1>t, <2>2 DEF ReaderT
  <2> QED BY <1>p, <2>1, <2>3 DEF Ended
<1>5. CASE EarnRestart
  <2>1. next = [pc |-> "idle", at |-> cursor, to |-> cursor, todo |-> {}] /\ cursor' = cursor
    BY <1>5, <1>p DEF EarnRestart
  <2>2. cursor \in Nat /\ cursor <= reader.at
    BY <1>r DEF ReaderShape
  <2>3. next \in ReaderT /\ next.pc = "idle" /\ next.at = cursor
    BY <2>1, <2>2 DEF ReaderT
  <2> QED BY <1>p, <2>1, <2>2, <2>3 DEF Restarts
<1>6. ASSUME \/ Pass \/ MovePrincipal \/ \E u \in Savers : PrepareJoin(u) \/ Join(u) \/ Leave(u)
             \/ SchedList \/ SchedCall \/ SchedCallLost \/ SchedWrite \/ SchedMature \/ SchedFails
             \/ AdminCreate \/ AdminOpen \/ AdminInsert \/ (\E w \in Wishes : AdminAsks(w)) \/ AdminReads
             \/ AdminWrites
      PROVE  reader' = reader /\ cursor' = cursor
  BY <1>6 DEF Pass, MovePrincipal, PrepareJoin, Join, Leave, SchedList, SchedCall, SchedCallLost, SchedWrite,
              SchedMature, SchedFails, AdminCreate, AdminOpen, AdminInsert, AdminAsks, AdminReads, AdminWrites
<1> QED BY <1>1, <1>2, <1>3, <1>4, <1>5, <1>6 DEF EarnNext

LEMMA ReaderShapeSteps ==
  ASSUME EarnShape, EarnNext
  PROVE  ReaderShape'
<1>r. ReaderShape
  BY DEF EarnShape, ReaderShape, ReaderT
<1>e. Len(emitted) \in Nat /\ Len(emitted') \in Nat /\ Len(emitted') >= Len(emitted)
  BY EventsStay
<1>t. reader \in ReaderT /\ reader.at \in Nat /\ reader.to \in Nat
  BY <1>r DEF ReaderShape, ReaderT
<1>1. CASE reader' = reader /\ cursor' = cursor
  BY <1>1, <1>e, <1>r, <1>t DEF ReaderShape
<1>2. ASSUME NEW b \in reader.todo, Taken(b), cursor' = cursor PROVE ReaderShape'
  BY <1>2, <1>e, <1>r, <1>t DEF ReaderShape, Taken
<1>3. CASE Restarts
  <2>1. reader'.at \in Nat
    BY <1>3 DEF Restarts, ReaderT
  <2> QED BY <1>3, <1>e, <1>r, <1>t, <2>1 DEF ReaderShape, Restarts
<1>4. CASE Polled /\ emitted' = emitted /\ cursor' = cursor
  BY <1>4, <1>e, <1>r, <1>t DEF ReaderShape, Polled
<1>5. CASE Ended /\ emitted' = emitted /\ cursor' \in {cursor, reader.to}
  BY <1>5, <1>e, <1>r, <1>t DEF ReaderShape, Ended
<1> QED BY <1>1, <1>2, <1>3, <1>4, <1>5, ReaderMoves

LEMMA EarnShapeSteps ==
  ASSUME EarnShape, EarnNext
  PROVE  EarnShape'
<1>1. contract' \in PlanT
  BY PlanForward
<1>2. emitted' \in Seq(EventT)
  BY EventsStay
<1>3. clock' \in Nat
  <2>1. clock \in Nat
    BY DEF EarnShape
  <2>2. clock' = clock + 1 \/ clock' = clock
    BY DEF EarnNext, Pass, MovePrincipal, PrepareJoin, Join, Leave, SchedList, SchedCall, SchedCallLost, SchedWrite,
           SchedMature, SchedFails, AdminCreate, AdminOpen, AdminInsert, AdminAsks, AdminReads, AdminWrites, Poll,
           HandleEvent, HandleFails, PollFails, PollEnds, EarnRestart
  <2> QED BY <2>1, <2>2
<1>4. product' \in RowT
  BY RowShape
<1>5. BooksShape'
  BY BooksShapeSteps
<1>6. sched' \in SchedT /\ admin' \in AdminT
  BY SchedShape, AdminMoves
<1>7. ReaderShape'
  BY ReaderShapeSteps
<1> QED BY <1>1, <1>2, <1>3, <1>4, <1>5, <1>6, <1>7
        DEF EarnShape, PlanT, RowT, BooksShape, SchedT, ReaderShape, ReaderT

----------------------------------------------------------------------------
(* What the writers know of the chain *)

LEMMA AskedFor ==
  ASSUME EarnShape, NEW w \in Wishes, AdminAsks(w)
  PROVE  /\ admin.pc = "idle" /\ product.status # "none" /\ UNCHANGED <<product, sched, ignored>>
         /\ \/ contract' = contract /\ (~Sound' \/ w \notin {"subscribing", "active"})
            \/ w = "subscribing" /\ contract.status = "created" /\ contract'.status = "subscribing"
            \/ w = "active" /\ contract.status = "subscribing" /\ contract'.status = "active"
<1>1. admin.pc = "idle" /\ product.status # "none" /\ UNCHANGED <<product, sched, ignored>>
  BY DEF AdminAsks
<1>2. To["open"] = "subscribing" /\ To["activate"] = "active"
  BY StageFacts DEF StageNames
<1>3. CASE (\A s \in {"open", "activate"} : To[s] # w) /\ Refused
  <2>1. w \notin {"subscribing", "active"}
    BY <1>2, <1>3
  <2> QED BY <1>1, <1>3, <2>1 DEF Refused, onChain
<1>4. ASSUME NEW s \in {"open", "activate"}, To[s] = w, Went(s)
      PROVE  \/ w = "subscribing" /\ contract.status = "created" /\ contract'.status = "subscribing"
             \/ w = "active" /\ contract.status = "subscribing" /\ contract'.status = "active"
  <2>1. Advances(s)
    BY <1>4, MovedAdvances DEF StageNames, Went
  <2> QED BY <1>4, <2>1, StageFacts DEF Advances, StageNames
<1>5. Reverted => contract' = contract /\ ~Sound'
  BY DEF Reverted, onChain
<1> QED BY <1>1, <1>3, <1>4, <1>5, AdminCalls

LEMMA OpenedByAdmin ==
  ASSUME EarnShape, Accepts("open"), Moved("open")
  PROVE  contract.status = "created" /\ contract'.status = "subscribing"
<1>1. Advances("open")
  BY MovedAdvances DEF StageNames
<1> QED BY <1>1, StageFacts DEF Advances, StageNames

\* Only the scheduler closes the plan.
LEMMA ClosedBySched ==
  ASSUME EarnShape, EarnNext, contract.status # "settled", contract'.status = "settled"
  PROVE  SchedCall \/ SchedCallLost
<1>1. contract'.status # contract.status
  OBVIOUS
<1>2. ASSUME NEW w \in Wishes, AdminAsks(w) PROVE FALSE
  BY <1>1, <1>2, AskedFor
<1>3. ASSUME AdminOpen PROVE FALSE
  <2>1. CASE Accepts("open") /\ Moved("open")
    BY <2>1, OpenedByAdmin
  <2>2. CASE UNCHANGED onChain
    BY <1>1, <2>2 DEF onChain
  <2> QED BY <1>3, <2>1, <2>2, AdminOpened DEF Went, Reverted, Refused, onChain
<1>4. ASSUME AdminCreate PROVE FALSE
  <2>1. contract.status = "none" /\ contract' = [contract EXCEPT !.status = "created"]
    BY <1>4 DEF AdminCreate
  <2>2. PICK next : next = contract'
    OBVIOUS
  <2>3. next.status = "created"
    BY <2>1, <2>2 DEF EarnShape
  <2> QED BY <2>2, <2>3
<1>5. ASSUME MovePrincipal PROVE FALSE
  <2>1. contract.status = "active"
         /\ contract' = [contract EXCEPT !.principal = IF contract.principal = "kept" THEN "sent" ELSE "funded"]
    BY <1>5 DEF MovePrincipal
  <2>2. PICK next : next = contract'
    OBVIOUS
  <2>3. next.status = contract.status
    BY <2>1, <2>2 DEF EarnShape
  <2> QED BY <1>1, <2>2, <2>3
<1>6. ASSUME \/ Pass \/ \E u \in Savers : PrepareJoin(u) \/ Join(u) \/ Leave(u)
             \/ SchedList \/ SchedWrite \/ SchedMature \/ SchedFails
             \/ AdminInsert \/ AdminReads \/ AdminWrites
             \/ Poll \/ (\E b \in reader.todo : HandleEvent(b) \/ HandleFails(b)) \/ PollFails \/ PollEnds
             \/ EarnRestart
      PROVE  FALSE
  <2>1. contract' = contract
    BY <1>6 DEF Pass, PrepareJoin, Join, Leave, SchedList, SchedWrite, SchedMature, SchedFails, AdminInsert,
                AdminReads, AdminWrites, Poll, HandleEvent, HandleFails, PollFails, PollEnds, EarnRestart, onChain
  <2> QED BY <1>1, <2>1
<1> QED BY <1>2, <1>3, <1>4, <1>5, <1>6 DEF EarnNext

LEMMA HistoryGrows ==
  ASSUME EarnNext
  PROVE  ignored \subseteq ignored' /\ drift \subseteq drift'
<1>1. ASSUME NEW b \in reader.todo, HandleEvent(b) \/ HandleFails(b)
      PROVE  ignored \subseteq ignored' /\ drift \subseteq drift'
  BY <1>1 DEF HandleEvent, HandleFails
<1>3. ASSUME SchedCall \/ AdminOpen \/ \E w \in Wishes : AdminAsks(w)
      PROVE  ignored \subseteq ignored' /\ drift \subseteq drift'
  BY <1>3 DEF SchedCall, AdminOpen, AdminAsks, Noted
<1>2. ASSUME \/ Pass \/ MovePrincipal \/ \E u \in Savers : PrepareJoin(u) \/ Join(u) \/ Leave(u)
             \/ SchedList \/ SchedCallLost \/ SchedWrite \/ SchedMature \/ SchedFails
             \/ AdminCreate \/ AdminInsert \/ AdminReads
             \/ AdminWrites \/ Poll \/ PollFails \/ PollEnds \/ EarnRestart
      PROVE  ignored \subseteq ignored' /\ drift \subseteq drift'
  BY <1>2 DEF Pass, MovePrincipal, PrepareJoin, Join, Leave, SchedList, SchedCall, SchedCallLost, SchedWrite,
              SchedMature, SchedFails, AdminCreate, AdminInsert, AdminReads, AdminWrites,
              Poll, PollFails, PollEnds, EarnRestart
<1> QED BY <1>1, <1>2, <1>3 DEF EarnNext

LEMMA SchedKnowsSteps ==
  ASSUME EarnShape, SchedKnows, EarnNext
  PROVE  SchedKnows'
<1> SUFFICES ASSUME Sound' PROVE SchedKnows'
  BY DEF SchedKnows
<1>d. Sound
  BY HistoryGrows DEF Sound
<1>f. /\ Rank[contract.status] <= Rank[contract'.status]
      /\ Rank[contract.status] \in Nat /\ Rank[contract'.status] \in Nat
  BY PlanForward
<1>s. Stage \in StageNames /\ To[Stage] \in PlanStatuses
  BY StageIn, StageFacts
<1>k. Rank[To[Stage]] \in 0 .. 4
  BY <1>s, RankFacts
<1>1. CASE sched' = sched /\ Stage' = Stage
  <2>1. ASSUME sched.pc = "write"
        PROVE  Rank[contract'.status] >= Rank[To[Stage]]
    BY <1>d, <1>f, <1>k, <2>1 DEF SchedKnows
  <2>2. ASSUME sched.pc = "write", Stage # "close"
        PROVE  contract'.status # "settled"
    <3>1. contract.status # "settled"
      BY <1>d, <2>2 DEF SchedKnows
    <3>2. ~SchedCall /\ ~SchedCallLost
      BY <2>2 DEF SchedCall, SchedCallLost
    <3> QED BY <3>1, <3>2, ClosedBySched
  <2> QED BY <1>1, <2>1, <2>2 DEF SchedKnows
<1>2. CASE SchedAt("write") /\ Stage' = Stage /\ ((Accepts(Stage) /\ Moved(Stage)) \/ ~Sound')
  <2>1. contract'.status = To[Stage]
    BY <1>2, <1>s, MovedAdvances DEF Advances
  <2>2. Stage # "close" => To[Stage] # "settled"
    BY <1>s, StageFacts DEF StageNames
  <2>3. Rank[contract'.status] >= Rank[To[Stage]]
    BY <1>k, <2>1
  <2> QED BY <1>2, <2>1, <2>2, <2>3 DEF SchedKnows
<1>3. CASE sched'.pc # "write"
  BY <1>3 DEF SchedKnows
<1> QED BY <1>1, <1>2, <1>3, SchedMoves DEF SchedAt

LEMMA AdminKnowsSteps ==
  ASSUME EarnShape, AdminKnows, EarnNext
  PROVE  AdminKnows'
<1>f. /\ Rank[contract.status] <= Rank[contract'.status]
      /\ Rank[contract.status] \in Nat /\ Rank[contract'.status] \in Nat
      /\ contract.status # "none" => contract'.status # "none"
  BY PlanForward
<1>d. Sound' => Sound
  BY HistoryGrows DEF Sound
<1>k. Rank["subscribing"] = 2 /\ Rank["active"] = 3
  BY RankFacts
<1>1. CASE admin' = admin
  <2>1. admin.pc \in {"open", "insert"} => contract'.status # "none"
    BY <1>f DEF AdminKnows
  <2>2. Sound' /\ Opened => Rank[contract'.status] >= Rank["subscribing"]
    BY <1>d, <1>f, <1>k DEF AdminKnows
  <2>3. ASSUME Sound', admin.pc \in {"read", "write"}, admin.want \in {"subscribing", "active"}
        PROVE  Rank[contract'.status] >= Rank[admin.want]
    <3>1. Rank[contract.status] >= Rank[admin.want] /\ Rank[admin.want] \in Nat
      BY <1>d, <1>k, <2>3 DEF AdminKnows
    <3> QED BY <1>f, <3>1
  <2>4. admin.pc = "write" => IsAllowed(admin.saw, admin.want)
    BY DEF AdminKnows
  <2> QED BY <1>1, <2>1, <2>2, <2>3, <2>4 DEF AdminKnows, Opened
<1>2. CASE admin'.pc = "idle"
  BY <1>2 DEF AdminKnows, Opened
<1>3. CASE AdminCreate /\ admin'.pc = "open"
  <2>1. contract.status = "none" /\ contract' = [contract EXCEPT !.status = "created"]
    BY <1>3 DEF AdminCreate
  <2>2. PICK next : next = contract'
    OBVIOUS
  <2>3. next.status = "created"
    BY <2>1, <2>2 DEF EarnShape
  <2> QED BY <1>3, <2>2, <2>3 DEF AdminKnows, Opened
<1>4. CASE /\ AdminOpen /\ admin.pc = "open" /\ admin'.pc = "insert"
           /\ \/ admin'.opened /\ ((Accepts("open") /\ Moved("open")) \/ Reverted)
              \/ ~admin'.opened /\ UNCHANGED onChain
  <2>1. contract'.status # "none"
    BY <1>4, <1>f DEF AdminKnows
  <2>2. Sound' /\ admin'.opened => contract'.status = "subscribing"
    BY <1>4, OpenedByAdmin DEF Reverted
  <2>3. Sound' /\ admin'.opened => Rank[contract'.status] >= Rank["subscribing"]
    BY <1>k, <2>2
  <2> QED BY <1>4, <2>1, <2>3 DEF AdminKnows, Opened
<1>5. CASE AdminInsert /\ admin.opened /\ admin'.pc = "read" /\ admin'.want = "subscribing"
  <2>1. admin.pc = "insert"
    BY <1>5, AdminInserted
  <2>2. Sound' => Rank[contract'.status] >= Rank["subscribing"]
    BY <1>5, <1>d, <1>f, <1>k, <2>1 DEF AdminKnows, Opened
  <2> QED BY <1>5, <2>2 DEF AdminKnows, Opened
<1>6. ASSUME NEW w \in Wishes, AdminAsks(w), admin'.pc = "read", admin'.want = w PROVE AdminKnows'
  <2>1. Sound' /\ w \in {"subscribing", "active"} => contract'.status = w
    BY <1>6, AskedFor
  <2>2. Sound' /\ w \in {"subscribing", "active"} => Rank[contract'.status] >= Rank[w]
    BY <1>k, <2>1
  <2> QED BY <1>6, <2>2 DEF AdminKnows, Opened
<1>7. CASE /\ AdminReads /\ IsAllowed(product.status, admin.want)
           /\ admin.pc = "read" /\ admin'.pc = "write" /\ admin'.want = admin.want /\ admin'.saw = product.status
  <2>1. Sound' /\ admin.want \in {"subscribing", "active"} => Rank[contract.status] >= Rank[admin.want]
    BY <1>7, <1>d DEF AdminKnows
  <2>2. contract' = contract
    BY <1>7 DEF AdminReads, onChain
  <2>3. Sound' /\ admin'.want \in {"subscribing", "active"} => Rank[contract'.status] >= Rank[admin'.want]
    BY <1>7, <2>1, <2>2
  <2>4. IsAllowed(admin'.saw, admin'.want)
    BY <1>7
  <2> QED BY <1>7, <2>3, <2>4 DEF AdminKnows, Opened, IsAllowed, Transitions
<1> QED BY <1>1, <1>2, <1>3, <1>4, <1>5, <1>6, <1>7, AdminMoves

----------------------------------------------------------------------------
(* The row behind the chain *)

\* Who writes the status of the row.
LEMMA RowWriters ==
  ASSUME EarnShape, EarnNext
  PROVE  \/ product'.status = product.status
         \/ SchedWrite \/ AdminWrites
         \/ AdminInsert /\ product.status = "none" /\ Writes("created")
         \/ \E b \in reader.todo : HandleEvent(b) /\ (HandledCreated(b) \/ HandledClose(b))
<1>1. ASSUME NEW b \in reader.todo, HandleEvent(b)
      PROVE  product'.status = product.status \/ HandledCreated(b) \/ HandledClose(b)
  <2>1. HandledOther(b) \/ HandledCreated(b) \/ HandledJoin(b) \/ HandledClose(b) \/ HandledLeave(b)
    BY <1>1, Handling
  <2> QED BY <2>1 DEF HandledOther, HandledJoin, HandledLeave, BookLeave, RowKept
<1>2. ASSUME AdminInsert
      PROVE  product'.status = product.status \/ (product.status = "none" /\ Writes("created"))
  BY <1>2, AdminInserted
<1>3. ASSUME \/ Pass \/ MovePrincipal \/ \E u \in Savers : PrepareJoin(u) \/ Join(u) \/ Leave(u)
             \/ SchedList \/ SchedCall \/ SchedCallLost \/ SchedMature \/ SchedFails
             \/ AdminCreate \/ AdminOpen \/ (\E w \in Wishes : AdminAsks(w)) \/ AdminReads
             \/ Poll \/ (\E b \in reader.todo : HandleFails(b)) \/ PollFails \/ PollEnds \/ EarnRestart
      PROVE  product' = product
  BY <1>3 DEF Pass, MovePrincipal, PrepareJoin, Join, Leave, SchedList, SchedCall, SchedCallLost, SchedMature,
              SchedFails, AdminCreate, AdminOpen, AdminAsks, AdminReads, Poll, HandleFails, PollFails, PollEnds,
              EarnRestart
<1> QED BY <1>1, <1>2, <1>3 DEF EarnNext

LEMMA RowBehindSteps ==
  ASSUME EarnShape, ChainTold, SchedKnows, AdminKnows, RowBehind, EarnNext
  PROVE  RowBehind'
<1> SUFFICES ASSUME Sound', "manual" \notin drift'
             PROVE  product'.status \in PlanStatuses /\ Rank[product'.status] <= Rank[contract'.status]
  BY DEF RowBehind
<1>d. Sound /\ "manual" \notin drift
  BY HistoryGrows DEF Sound
<1>b. product.status \in PlanStatuses /\ Rank[product.status] <= Rank[contract.status]
  BY <1>d DEF RowBehind
<1>f. /\ Rank[contract.status] <= Rank[contract'.status]
      /\ Rank[contract.status] \in Nat /\ Rank[contract'.status] \in Nat
  BY PlanForward
<1>c. contract.status \in PlanStatuses
  BY DEF EarnShape
<1>r. \A x \in PlanStatuses : Rank[x] \in 0 .. 4
  BY RankFacts
<1>1. CASE product'.status = product.status
  <2>1. Rank[product'.status] = Rank[product.status] /\ Rank[product.status] \in 0 .. 4
    BY <1>1, <1>b, <1>r
  <2>2. PICK x, y, z \in Int : /\ x = Rank[product.status] /\ y = Rank[contract.status]
                              /\ z = Rank[contract'.status]
    BY <1>f, <2>1
  <2>3. x <= y /\ y <= z
    BY <1>b, <1>f, <2>2
  <2>4. x <= z
    BY <2>3
  <2> QED BY <1>1, <1>b, <2>1, <2>2, <2>4
<1>2. CASE SchedWrite
  <2>1. product'.status = To[Stage] /\ contract' = contract /\ Stage \in StageNames
    BY <1>2, SchedWrote DEF Writes
  <2>2. To[Stage] \in PlanStatuses
    BY <2>1, StageFacts
  <2>3. Rank[contract.status] >= Rank[To[Stage]]
    BY <1>2, <1>d, SchedWrote DEF SchedKnows
  <2> QED BY <1>r, <1>f, <2>1, <2>2, <2>3
<1>3. CASE AdminWrites
  <2>1. /\ product'.status = admin.want /\ contract' = contract /\ admin.pc = "write" /\ admin.want \in Wishes
        /\ admin.want \notin {"settled", "ended", "cancelled"}
    BY <1>3, AdminWrote DEF Writes
  <2>2. admin.want \in {"subscribing", "active"}
    BY <2>1 DEF Wishes
  <2>3. Rank[contract.status] >= Rank[admin.want]
    BY <1>d, <2>1, <2>2 DEF AdminKnows
  <2>4. admin.want \in PlanStatuses
    BY <2>2 DEF PlanStatuses
  <2> QED BY <1>r, <1>f, <2>1, <2>3, <2>4
<1>4. ASSUME product'.status = "created", contract.status # "none", contract' = contract
      PROVE  product'.status \in PlanStatuses /\ Rank[product'.status] <= Rank[contract'.status]
  <2>1. Rank[contract.status] >= 1
    <3>1. contract.status \in {"created", "subscribing", "active", "settled"}
      BY <1>4, <1>c DEF PlanStatuses
    <3>2. Rank[contract.status] \in {1, 2, 3, 4}
      BY <3>1, RankFacts
    <3>3. \A n \in {1, 2, 3, 4} : n >= 1
      OBVIOUS
    <3> QED BY <3>2, <3>3
  <2> QED BY <1>4, <2>1, <1>f, RankFacts DEF PlanStatuses
<1>5. CASE AdminInsert /\ product.status = "none" /\ Writes("created")
  BY <1>4, <1>5, AdminInserted DEF Writes, AdminKnows
<1>6. ASSUME NEW b \in reader.todo, HandleEvent(b), HandledCreated(b) \/ HandledClose(b)
      PROVE  product'.status \in PlanStatuses /\ Rank[product'.status] <= Rank[contract'.status]
  <2>1. b \in DOMAIN emitted /\ contract' = contract
    BY <1>6, Handling
  <2>2. CASE HandledCreated(b)
    <3>1. contract.status # "none"
      <4>1. Len(emitted) \in Nat /\ DOMAIN emitted = 1 .. Len(emitted)
        BY EventsStay
      <4>2. Len(<< >>) = 0
        OBVIOUS
      <4>3. emitted # << >>
        BY <2>1, <4>1, <4>2
      <4> QED BY <4>3 DEF ChainTold
    <3> QED BY <1>4, <2>1, <2>2, <3>1 DEF HandledCreated, Writes
  <2>3. CASE HandledClose(b)
    <3>1. b \in Of("closed") /\ product'.status = "settled"
      BY <2>1, <2>3 DEF HandledClose, Of, Writes
    <3>2. contract.status = "settled"
      BY <3>1 DEF ChainTold
    <3> QED BY <1>f, <2>1, <3>1, <3>2, RankFacts DEF PlanStatuses
  <2> QED BY <1>6, <2>2, <2>3
<1> QED BY <1>1, <1>2, <1>3, <1>5, <1>6, RowWriters

----------------------------------------------------------------------------
(* What explains a gap between the row and the chain *)

\* An event stays to be handled until its handler runs; a new one is.
LEMMA UnhandledSteps ==
  ASSUME EarnShape, EarnNext, NEW b \in DOMAIN emitted', b \in DOMAIN emitted => Unhandled(b)
  PROVE  Unhandled(b)' \/ (b \in reader.todo /\ (HandleEvent(b) \/ HandleFails(b)))
<1>e. /\ Len(emitted) \in Nat /\ Len(emitted') \in Nat /\ Len(emitted) <= Len(emitted')
      /\ DOMAIN emitted = 1 .. Len(emitted) /\ DOMAIN emitted' = 1 .. Len(emitted')
  BY EventsStay
<1>r. ReaderShape
  BY DEF EarnShape, ReaderShape, ReaderT
<1>t. reader.at \in Nat /\ reader.to \in Nat
  BY <1>r DEF ReaderShape, ReaderT
<1>b. b \in Nat
  BY <1>e
<1>n. b \notin DOMAIN emitted => b > Len(emitted)
  BY <1>e
<1>u. Unhandled(b)
  <2>1. CASE b \in DOMAIN emitted
    BY <2>1
  <2>2. CASE b \notin DOMAIN emitted
    <3>1. b > Len(emitted)
      BY <2>2, <1>n
    <3>2. b > reader.at
      BY <3>1, <1>r, <1>t, <1>e, <1>b DEF ReaderShape
    <3>3. reader.pc = "run" => ~(b <= reader.to)
      BY <3>1, <1>r, <1>t, <1>e, <1>b DEF ReaderShape
    <3> QED BY <3>2, <3>3 DEF Unhandled
  <2> QED BY <2>1, <2>2
<1>1. CASE reader' = reader
  BY <1>1, <1>u DEF Unhandled
<1>2. ASSUME NEW c \in reader.todo, Taken(c), HandleEvent(c) \/ HandleFails(c)
      PROVE  Unhandled(b)' \/ (b \in reader.todo /\ (HandleEvent(b) \/ HandleFails(b)))
  <2>1. CASE b = c
    BY <1>2, <2>1
  <2>2. CASE b # c
    BY <1>2, <2>2, <1>u DEF Unhandled, Taken
  <2> QED BY <2>1, <2>2
<1>3. CASE Restarts
  <2>1. reader'.at \in Nat /\ reader'.at <= reader.at /\ reader'.pc = "idle"
    BY <1>3 DEF Restarts, ReaderT
  <2>2. b > reader'.at
    BY <2>1, <1>u, <1>t, <1>b DEF Unhandled
  <2> QED BY <2>1, <2>2 DEF Unhandled
<1>4. CASE Polled /\ emitted' = emitted
  <2>1. b > reader.at /\ b <= Len(emitted)
    BY <1>u, <1>e, <1>4 DEF Unhandled
  <2>2. b \in reader.at + 1 .. Len(emitted)
    BY <2>1, <1>t, <1>e, <1>b
  <2> QED BY <2>1, <2>2, <1>4 DEF Polled, Unhandled
<1>5. CASE Ended
  <2>1. b > reader.to
    BY <1>u, <1>5, <1>t, <1>b DEF Unhandled, Ended
  <2> QED BY <2>1, <1>5 DEF Ended, Unhandled
<1> QED BY <1>1, <1>2, <1>3, <1>4, <1>5, ReaderMoves

LEMMA CreatedAheadSteps ==
  ASSUME EarnShape, EarnNext, CreatedAhead, product'.status = "none", ignored' = {}
  PROVE  CreatedAhead'
<1>1. PICK b \in Of("created") : Unhandled(b)
  BY DEF CreatedAhead
<1>2. b \in DOMAIN emitted /\ emitted[b].kind = "created"
  BY DEF Of
<1>3. b \in DOMAIN emitted' /\ emitted'[b].kind = "created"
  BY <1>2, EventsStay
<1>4. CASE Unhandled(b)'
  BY <1>3, <1>4 DEF CreatedAhead, Of
<1>5. CASE b \in reader.todo /\ HandleEvent(b)
  BY <1>2, <1>5, Handling
<1>6. CASE b \in reader.todo /\ HandleFails(b)
  BY <1>6 DEF HandleFails
<1> QED BY <1>1, <1>3, <1>4, <1>5, <1>6, UnhandledSteps

LEMMA StillUndisturbed ==
  ASSUME EarnNext, Undisturbed'
  PROVE  /\ Undisturbed /\ "cut" \notin drift' /\ "overwritten" \notin drift' /\ "manual" \notin drift'
         /\ "manual" \notin drift /\ ignored' = {} /\ Sound /\ Sound'
BY HistoryGrows DEF Undisturbed, Sound

\* A write of the scheduler that is due stays due until it is done.
LEMMA SchedDue ==
  ASSUME EarnShape, EarnNext, Undisturbed', sched.pc = "write", ~SchedWrite
  PROVE  sched' = sched /\ Stage' = Stage
<1>c. "cut" \notin drift'
  BY StillUndisturbed
<1>1. ~SchedFails /\ ~EarnRestart
  BY <1>c DEF SchedFails, EarnRestart
<1>2. ~SchedList /\ ~SchedCall /\ ~SchedCallLost /\ ~SchedMature
  BY DEF SchedList, SchedCall, SchedCallLost, SchedMature
<1>3. ASSUME \/ Pass \/ MovePrincipal \/ \E u \in Savers : PrepareJoin(u) \/ Join(u) \/ Leave(u)
             \/ AdminCreate \/ AdminOpen \/ AdminInsert \/ (\E w \in Wishes : AdminAsks(w)) \/ AdminReads
             \/ AdminWrites
             \/ Poll \/ (\E b \in reader.todo : HandleEvent(b) \/ HandleFails(b)) \/ PollFails \/ PollEnds
      PROVE  sched' = sched /\ Stage' = Stage
  BY <1>3 DEF Pass, MovePrincipal, PrepareJoin, Join, Leave, AdminCreate, AdminOpen, AdminInsert, AdminAsks,
              AdminReads, AdminWrites, Poll, HandleEvent, HandleFails, PollFails, PollEnds, Stage
<1> QED BY <1>1, <1>2, <1>3 DEF EarnNext

\* So does one of the administrator.
LEMMA AdminDue ==
  ASSUME EarnShape, EarnNext, Undisturbed', AdminOpens \/ AdminActivates, ~AdminWrites
  PROVE  /\ AdminOpens => AdminOpens'
         /\ AdminActivates => AdminActivates'
         /\ Opened /\ ~AdminInsert => Opened'
<1>c. "cut" \notin drift'
  BY StillUndisturbed
<1>a. \/ admin.pc = "insert" /\ admin.opened
      \/ admin.pc \in {"read", "write"} /\ admin.want \in {"subscribing", "active"}
  BY DEF AdminOpens, AdminActivates, Opened
<1>1. ~EarnRestart
  BY <1>a, <1>c DEF EarnRestart
<1>2. ~AdminCreate /\ ~AdminOpen /\ \A w \in Wishes : ~AdminAsks(w)
  BY <1>a DEF AdminCreate, AdminOpen, AdminAsks
<1>3. CASE AdminInsert
  <2>1. admin.pc = "insert"
    BY <1>3, AdminInserted
  <2>2. admin' = [pc |-> "read", want |-> "subscribing"]
    BY <1>3, <1>a, <2>1, AdminInserted
  <2> QED BY <1>3, <2>1, <2>2 DEF AdminOpens, AdminActivates, Opened
<1>4. CASE AdminReads
  <2>1. admin.pc = "read" /\ IsAllowed(product.status, admin.want)
    BY <1>4, <1>a, <1>c DEF AdminReads
  <2>2. admin' = [pc |-> "write", want |-> admin.want, saw |-> product.status]
    BY <1>4, <2>1 DEF AdminReads
  <2> QED BY <2>1, <2>2 DEF AdminOpens, AdminActivates, Opened
<1>5. ASSUME \/ Pass \/ MovePrincipal \/ \E u \in Savers : PrepareJoin(u) \/ Join(u) \/ Leave(u)
             \/ SchedList \/ SchedCall \/ SchedCallLost \/ SchedWrite \/ SchedMature \/ SchedFails
             \/ Poll \/ (\E b \in reader.todo : HandleEvent(b) \/ HandleFails(b)) \/ PollFails \/ PollEnds
      PROVE  admin' = admin
  BY <1>5 DEF Pass, MovePrincipal, PrepareJoin, Join, Leave, SchedList, SchedCall, SchedCallLost, SchedWrite,
              SchedMature, SchedFails, Poll, HandleEvent, HandleFails, PollFails, PollEnds
<1>6. admin' = admin => /\ AdminOpens => AdminOpens'
                        /\ AdminActivates => AdminActivates'
                        /\ Opened => Opened'
  BY DEF AdminOpens, AdminActivates, Opened
<1> QED BY <1>1, <1>2, <1>3, <1>4, <1>5, <1>6 DEF EarnNext

\* Who moves the plan.
LEMMA PlanMovers ==
  ASSUME EarnShape, EarnNext, contract'.status # contract.status, "cut" \notin drift'
  PROVE  /\ product' = product
         /\ \/ /\ sched.pc = "call" /\ sched' = [sched EXCEPT !.pc = "write"] /\ admin' = admin
               /\ contract.status = From[Stage] /\ contract'.status = To[Stage]
            \/ AdminCreate /\ contract.status = "none" /\ contract'.status = "created" /\ Logs(Event("created", ""))
            \/ /\ admin.pc = "open" /\ admin' = [pc |-> "insert", opened |-> TRUE] /\ sched' = sched
               /\ contract.status = "created" /\ contract'.status = "subscribing" /\ emitted' = emitted
            \/ /\ admin.pc = "idle" /\ admin' = [pc |-> "read", want |-> "subscribing"] /\ sched' = sched
               /\ product.status # "none" /\ contract.status = "created" /\ contract'.status = "subscribing"
            \/ /\ admin.pc = "idle" /\ admin' = [pc |-> "read", want |-> "active"] /\ sched' = sched
               /\ product.status # "none" /\ contract.status = "subscribing" /\ contract'.status = "active"
<1>k. contract' # contract
  OBVIOUS
<1>1. CASE SchedCall
  <2>1. /\ sched.pc = "call" /\ product' = product /\ admin' = admin
        /\ \/ (Went(Stage) \/ Reverted) /\ sched' = [sched EXCEPT !.pc = "write"]
           \/ Refused /\ sched' = Onto(sched.stage + 1)
    BY <1>1, SchedCalls
  <2>2. Accepts(Stage) /\ Moved(Stage) /\ sched' = [sched EXCEPT !.pc = "write"]
    BY <1>k, <2>1 DEF Went, Reverted, Refused, onChain
  <2>3. Advances(Stage)
    BY <2>1, <2>2, StageIn, MovedAdvances
  <2> QED BY <2>1, <2>2, <2>3 DEF Advances
<1>2. CASE SchedCallLost
  BY <1>2 DEF SchedCallLost
<1>3. CASE AdminCreate
  <2>1. /\ contract.status = "none" /\ contract' = [contract EXCEPT !.status = "created"] /\ Logs(Event("created", ""))
        /\ product' = product
    BY <1>3 DEF AdminCreate, Emit, Logs, Event
  <2>2. PICK next : next = contract'
    OBVIOUS
  <2>3. next.status = "created"
    BY <2>1, <2>2 DEF EarnShape
  <2> QED BY <1>3, <2>1, <2>2, <2>3
<1>4. CASE AdminOpen
  <2>2. Accepts("open")
    BY <1>4, <1>k, AdminOpened DEF Went, Reverted, Refused, onChain
  <2>4. admin' = [pc |-> "insert", opened |-> TRUE] /\ Moved("open") /\ admin.pc = "open"
    BY <1>4, <1>k, AdminOpened DEF Went, Reverted, Refused, onChain
  <2>5. emitted' = emitted
    BY <2>2, <2>4, MovedAdvances DEF StageNames
  <2>6. contract.status = "created" /\ contract'.status = "subscribing"
    BY <2>2, <2>4, OpenedByAdmin
  <2> QED BY <1>4, <2>4, <2>5, <2>6 DEF AdminOpen
<1>5. ASSUME NEW w \in Wishes, AdminAsks(w)
      PROVE  /\ product' = product
             /\ \/ /\ admin.pc = "idle" /\ admin' = [pc |-> "read", want |-> "subscribing"] /\ sched' = sched
                   /\ product.status # "none" /\ contract.status = "created" /\ contract'.status = "subscribing"
                \/ /\ admin.pc = "idle" /\ admin' = [pc |-> "read", want |-> "active"] /\ sched' = sched
                   /\ product.status # "none" /\ contract.status = "subscribing" /\ contract'.status = "active"
  <2>1. admin' = [pc |-> "read", want |-> w]
    BY <1>5 DEF AdminAsks
  <2> QED BY <1>5, <1>k, <2>1, AskedFor
<1>6. ASSUME MovePrincipal PROVE FALSE
  <2>1. contract' = [contract EXCEPT !.principal = IF contract.principal = "kept" THEN "sent" ELSE "funded"]
    BY <1>6 DEF MovePrincipal
  <2>2. PICK next : next = contract'
    OBVIOUS
  <2>3. next.status = contract.status
    BY <2>1, <2>2 DEF EarnShape
  <2> QED BY <2>2, <2>3
<1>7. ASSUME \/ Pass \/ \E u \in Savers : PrepareJoin(u) \/ Join(u) \/ Leave(u)
             \/ SchedList \/ SchedWrite \/ SchedMature \/ SchedFails
             \/ AdminInsert \/ AdminReads \/ AdminWrites
             \/ Poll \/ (\E b \in reader.todo : HandleEvent(b) \/ HandleFails(b)) \/ PollFails \/ PollEnds
             \/ EarnRestart
      PROVE  FALSE
  <2>1. contract' = contract
    BY <1>7 DEF Pass, PrepareJoin, Join, Leave, SchedList, SchedWrite, SchedMature, SchedFails, AdminInsert,
                AdminReads, AdminWrites, Poll, HandleEvent, HandleFails, PollFails, PollEnds, EarnRestart, onChain
  <2> QED BY <1>k, <2>1
<1> QED BY <1>1, <1>2, <1>3, <1>4, <1>5, <1>6, <1>7 DEF EarnNext

EarnBase == EarnShape /\ ChainTold /\ SchedKnows /\ AdminKnows /\ RowBehind /\ GapExplained

\* Where the row and the plan have a rank in common, they are the same.
LEMMA RankTells ==
  ASSUME NEW x \in PlanStatuses, NEW y \in PlanStatuses, Rank[x] <= Rank[y]
  PROVE  /\ Rank[y] <= Rank[x] => x = y
         /\ y = "none" => x = "none"
         /\ x = "settled" => y = "settled"
BY RankFacts DEF PlanStatuses

LEMMA GapNow ==
  ASSUME EarnBase, EarnNext, Undisturbed'
  PROVE  /\ Gap /\ RowCalled /\ product.status \in PlanStatuses /\ contract.status \in PlanStatuses
         /\ Rank[product.status] <= Rank[contract.status]
         /\ contract.status = "none" => product.status = "none"
<1>1. Undisturbed /\ Sound /\ "manual" \notin drift
  BY StillUndisturbed
<1>2. /\ Gap /\ RowCalled /\ product.status \in PlanStatuses /\ contract.status \in PlanStatuses
      /\ Rank[product.status] <= Rank[contract.status]
  BY <1>1 DEF EarnBase, GapExplained, RowBehind, EarnShape
<1> QED BY <1>2, RankTells

\* The plan moves.
LEMMA GapMoves ==
  ASSUME EarnBase, EarnNext, Undisturbed', contract'.status # contract.status
  PROVE  Gap'
<1>g. /\ Gap /\ RowCalled /\ product.status \in PlanStatuses /\ contract.status \in PlanStatuses
      /\ Rank[product.status] <= Rank[contract.status]
      /\ contract.status = "none" => product.status = "none"
  BY GapNow
<1>s. EarnShape
  BY DEF EarnBase
<1>d. "cut" \notin drift' /\ ignored' = {}
  BY StillUndisturbed
<1>m. /\ product' = product
      /\ \/ /\ sched.pc = "call" /\ sched' = [sched EXCEPT !.pc = "write"] /\ admin' = admin
            /\ contract.status = From[Stage] /\ contract'.status = To[Stage]
         \/ AdminCreate /\ contract.status = "none" /\ contract'.status = "created" /\ Logs(Event("created", ""))
         \/ /\ admin.pc = "open" /\ admin' = [pc |-> "insert", opened |-> TRUE] /\ sched' = sched
            /\ contract.status = "created" /\ contract'.status = "subscribing" /\ emitted' = emitted
         \/ /\ admin.pc = "idle" /\ admin' = [pc |-> "read", want |-> "subscribing"] /\ sched' = sched
            /\ product.status # "none" /\ contract.status = "created" /\ contract'.status = "subscribing"
         \/ /\ admin.pc = "idle" /\ admin' = [pc |-> "read", want |-> "active"] /\ sched' = sched
            /\ product.status # "none" /\ contract.status = "subscribing" /\ contract'.status = "active"
  BY <1>s, <1>d, PlanMovers
<1>1. ASSUME sched.pc = "call", sched' = [sched EXCEPT !.pc = "write"], product' = product,
             contract.status = From[Stage], contract'.status = To[Stage]
      PROVE  Gap'
  <2>1. SchedAt("write") /\ Stage' = Stage
    BY <1>s, <1>1, SchedGoes
  <2>2. product.status = From[Stage]
    BY <1>1, <1>g, RankTells DEF RowCalled
  <2>3. sched'.pc = "write"
    BY <2>1 DEF SchedAt
  <2>4. Stage \in StageNames
    BY <1>s, StageIn
  <2>5. CASE Stage = "open"
    BY <1>1, <2>1, <2>2, <2>3, <2>4, <2>5, StageFacts DEF Gap, Opening
  <2>6. CASE Stage = "activate"
    BY <1>1, <2>1, <2>2, <2>3, <2>4, <2>6, StageFacts DEF Gap, Activating
  <2>7. CASE Stage = "close"
    BY <1>1, <2>1, <2>2, <2>3, <2>4, <2>7, StageFacts DEF Gap, Closing
  <2> QED BY <2>4, <2>5, <2>6, <2>7 DEF StageNames
<1>2. ASSUME contract.status = "none", contract'.status = "created", Logs(Event("created", "")), product' = product
      PROVE  Gap'
  <2>1. product'.status = "none"
    BY <1>2, <1>g
  <2>2. Event("created", "") \in EventT /\ Event("created", "").kind = "created"
    BY DEF Event, EventT
  <2>3. PICK b : b = Len(emitted) + 1
    OBVIOUS
  <2>4. b \in Of("created")' /\ b \in DOMAIN emitted' /\ b \notin DOMAIN emitted
    <3>1. PICK e \in EventT : e = Event("created", "")
      BY <2>2
    <3>2. Logs(e) /\ e.kind = "created"
      BY <1>2, <2>2, <3>1
    <3>3. /\ Len(emitted) \in Nat /\ DOMAIN emitted = 1 .. Len(emitted) /\ DOMAIN emitted' = 1 .. Len(emitted) + 1
          /\ Of("created")' = Of("created") \cup {Len(emitted) + 1}
      BY <1>s, <3>2, LoggedEvent
    <3> QED BY <2>3, <3>3
  <2>5. ~(b \in reader.todo /\ (HandleEvent(b) \/ HandleFails(b)))
    <3>1. HandleEvent(b) \/ HandleFails(b) => contract' = contract
      BY DEF HandleEvent, HandleFails, onChain
    <3> QED BY <3>1
  <2>6. Unhandled(b)'
    BY <1>s, <2>4, <2>5, UnhandledSteps
  <2> QED BY <1>2, <2>1, <2>4, <2>6 DEF Gap, CreatedAhead
<1>3. ASSUME contract.status = "created", contract'.status = "subscribing", product' = product, AdminOpens',
             admin.pc \in {"open", "idle"}, product.status # "none" \/ Opened'
      PROVE  Gap'
  <2>1. ~Opened /\ ~AdminOpens /\ ~AdminActivates
    BY <1>3 DEF Opened, AdminOpens, AdminActivates
  <2>2. \/ product.status = "created"
        \/ product.status = "none" /\ CreatedAhead
    BY <1>3, <1>g, <2>1 DEF Gap
  <2>3. product.status = "none" /\ CreatedAhead => CreatedAhead'
    BY <1>3, <1>s, <1>d, CreatedAheadSteps
  <2> QED BY <1>3, <2>2, <2>3 DEF Gap
<1>4. ASSUME contract.status = "subscribing", contract'.status = "active", product' = product, AdminActivates',
             admin.pc = "idle", sched' = sched, product.status # "none"
      PROVE  Gap'
  <2>1. ~Opened /\ ~AdminOpens /\ ~AdminActivates
    BY <1>4 DEF Opened, AdminOpens, AdminActivates
  <2>2. \/ product.status = "subscribing"
        \/ product.status = "created" /\ Opening
    BY <1>4, <1>g, <2>1 DEF Gap
  <2>3. Opening => Opening'
    BY <1>4 DEF Opening, Stage
  <2> QED BY <1>4, <2>2, <2>3 DEF Gap
<1>5. /\ admin' = [pc |-> "insert", opened |-> TRUE] => Opened' /\ AdminOpens'
      /\ admin' = [pc |-> "read", want |-> "subscribing"] => AdminOpens'
      /\ admin' = [pc |-> "read", want |-> "active"] => AdminActivates'
  BY DEF Opened, AdminOpens, AdminActivates
<1>6. CASE sched.pc = "call" /\ sched' = [sched EXCEPT !.pc = "write"] /\ contract.status = From[Stage]
           /\ contract'.status = To[Stage]
  BY <1>m, <1>1, <1>6
<1>7. CASE contract.status = "none" /\ contract'.status = "created" /\ Logs(Event("created", ""))
  BY <1>m, <1>2, <1>7
<1>8. CASE /\ admin.pc = "open" /\ admin' = [pc |-> "insert", opened |-> TRUE]
           /\ contract.status = "created" /\ contract'.status = "subscribing"
  BY <1>m, <1>3, <1>5, <1>8
<1>9. CASE /\ admin.pc = "idle" /\ admin' = [pc |-> "read", want |-> "subscribing"]
           /\ product.status # "none" /\ contract.status = "created" /\ contract'.status = "subscribing"
  BY <1>m, <1>3, <1>5, <1>9
<1>10. CASE /\ admin.pc = "idle" /\ admin' = [pc |-> "read", want |-> "active"] /\ sched' = sched
            /\ product.status # "none" /\ contract.status = "subscribing" /\ contract'.status = "active"
  BY <1>m, <1>4, <1>5, <1>10
<1> QED BY <1>m, <1>6, <1>7, <1>8, <1>9, <1>10

\* What else keeps a gap: the writes that explain it stay due.
LEMMA GapStays ==
  ASSUME EarnBase, EarnNext, Undisturbed', Gap, contract'.status = contract.status,
         product'.status = product.status, ~SchedWrite, ~AdminWrites
  PROVE  Gap'
<1>s. EarnShape
  BY DEF EarnBase
<1>d. ignored' = {}
  BY StillUndisturbed
<1>1. sched.pc = "write" => sched' = sched /\ Stage' = Stage
  BY <1>s, SchedDue
<1>2. /\ Opening => Opening'
      /\ Activating => Activating'
      /\ Closing => Closing'
  BY <1>1 DEF Opening, Activating, Closing
<1>3. /\ AdminOpens => AdminOpens'
      /\ AdminActivates => AdminActivates'
  BY <1>s, AdminDue
<1>4. Opened /\ product.status = "none" => Opened'
  <2>1. AdminInsert /\ product.status = "none" => product'.status = "created"
    BY <1>s, AdminInserted DEF Writes
  <2>2. Opened => AdminOpens
    BY DEF AdminOpens
  <2> QED BY <1>s, <2>1, <2>2, AdminDue
<1>5. CreatedAhead /\ product.status = "none" => CreatedAhead'
  BY <1>s, <1>d, CreatedAheadSteps
<1> QED BY <1>2, <1>3, <1>4, <1>5 DEF Gap

LEMMA GapSchedWrites ==
  ASSUME EarnBase, EarnNext, Undisturbed', SchedWrite
  PROVE  Gap' /\ sched'.pc \notin {"call", "write"}
<1>s. EarnShape
  BY DEF EarnBase
<1>g. /\ Gap /\ product.status \in PlanStatuses /\ contract.status \in PlanStatuses
      /\ Rank[product.status] <= Rank[contract.status]
  BY GapNow
<1>w. /\ product'.status = To[Stage] /\ sched.pc = "write" /\ Stage \in StageNames
      /\ drift' = drift \cup (IF product.status = "settled" THEN {} ELSE Overwrites(From[Stage]))
      /\ contract' = contract /\ admin' = admin
  BY <1>s, SchedWrote DEF Writes
<1>k. Rank[contract.status] >= Rank[To[Stage]] /\ (Stage # "close" => contract.status # "settled")
  BY <1>w, StillUndisturbed DEF EarnBase, SchedKnows
<1>1. product.status = "settled" \/ product.status = From[Stage]
  <2>1. "overwritten" \notin drift'
    BY StillUndisturbed
  <2> QED BY <1>w, <2>1 DEF Overwrites
<1>2. sched'.pc \notin {"call", "write"}
  <2>1. sched' = [sched EXCEPT !.pc = "mature"] \/ sched' = Onto(sched.stage + 1)
    BY DEF SchedWrite
  <2>2. sched.stage \in 1 .. 3
    BY <1>s, StageIn
  <2>3. sched' = [sched EXCEPT !.pc = "mature"] => sched'.pc = "mature"
    BY <1>s, SchedGoes DEF SchedAt
  <2> QED BY <2>1, <2>2, <2>3, OntoShape
<1>3. CASE product.status = "settled"
  <2>1. contract.status = "settled"
    BY <1>3, <1>g, RankTells
  <2>2. Stage = "close"
    BY <1>k, <2>1
  <2>3. product'.status = "settled"
    BY <1>w, <2>2, StageFacts
  <2> QED BY <1>w, <1>2, <2>1, <2>3 DEF Gap
<1>4. ASSUME product.status = From[Stage], Stage = "open" PROVE Gap'
  <2>1. product.status = "created" /\ product'.status = "subscribing"
    BY <1>4, <1>w, StageFacts
  <2>2. contract.status # "created"
    <3>1. To[Stage] = "subscribing"
      BY <1>4, <1>w, StageFacts
    <3> QED BY <1>k, <3>1, RankFacts
  <2>3. contract.status = "subscribing" \/ (contract.status = "active" /\ AdminActivates)
    BY <1>g, <2>1, <2>2 DEF Gap
  <2>4. AdminActivates => AdminActivates'
    BY <1>w DEF AdminActivates
  <2> QED BY <1>w, <2>1, <2>3, <2>4 DEF Gap
<1>5. ASSUME product.status = From[Stage], Stage = "activate" PROVE Gap'
  <2>1. product.status = "subscribing" /\ product'.status = "active"
    BY <1>5, <1>w, StageFacts
  <2>2. contract.status # "subscribing"
    <3>1. To[Stage] = "active"
      BY <1>5, <1>w, StageFacts
    <3> QED BY <1>k, <3>1, RankFacts
  <2>3. contract.status = "active"
    BY <1>g, <2>1, <2>2 DEF Gap
  <2> QED BY <1>w, <2>1, <2>3 DEF Gap
<1>6. ASSUME product.status = From[Stage], Stage = "close" PROVE Gap'
  <2>1. product.status = "active" /\ product'.status = "settled"
    BY <1>6, <1>w, StageFacts
  <2>2. contract.status # "active"
    <3>1. To[Stage] = "settled"
      BY <1>6, <1>w, StageFacts
    <3> QED BY <1>k, <3>1, RankFacts
  <2>3. contract.status = "settled"
    BY <1>g, <2>1, <2>2 DEF Gap
  <2> QED BY <1>w, <2>1, <2>3 DEF Gap
<1> QED BY <1>w, <1>1, <1>2, <1>3, <1>4, <1>5, <1>6 DEF StageNames

LEMMA GapAdminWrites ==
  ASSUME EarnBase, EarnNext, Undisturbed', AdminWrites
  PROVE  Gap' /\ Rank[product'.status] >= Rank[product.status]
<1>s. EarnShape
  BY DEF EarnBase
<1>g. /\ Gap /\ product.status \in PlanStatuses /\ contract.status \in PlanStatuses
      /\ Rank[product.status] <= Rank[contract.status]
  BY GapNow
<1>w. /\ product'.status = admin.want /\ admin.pc = "write" /\ admin.want \in Wishes /\ admin.saw \in RowStatuses
      /\ drift' = drift \cup Overwrites(admin.saw)
                  \cup (IF admin.want \in {"settled", "ended", "cancelled"} THEN {"manual"} ELSE {})
      /\ contract' = contract /\ sched' = sched
  BY <1>s, AdminWrote DEF Writes
<1>1. "overwritten" \notin drift' /\ "manual" \notin drift'
  BY StillUndisturbed
<1>2. product.status = admin.saw
  BY <1>w, <1>1 DEF Overwrites
<1>3. admin.want \in {"subscribing", "active"}
  BY <1>w, <1>1 DEF Wishes
<1>4. /\ Rank[contract.status] >= Rank[admin.want]
      /\ admin.want = "subscribing" => product.status = "created"
      /\ admin.want = "active" => product.status = "subscribing"
  <2>1. IsAllowed(admin.saw, admin.want)
    BY <1>w DEF EarnBase, AdminKnows
  <2>2. Rank[contract.status] >= Rank[admin.want]
    BY <1>w, <1>3, StillUndisturbed DEF EarnBase, AdminKnows
  <2> QED BY <1>w, <1>2, <2>1, <2>2, WishFacts
<1>5. ~Opened /\ (AdminOpens <=> admin.want = "subscribing") /\ (AdminActivates <=> admin.want = "active")
  BY <1>w DEF Opened, AdminOpens, AdminActivates
<1>6. CASE admin.want = "subscribing"
  <2>1. contract.status # "created"
    BY <1>4, <1>6, RankFacts
  <2>2. contract.status = "subscribing"
    BY <1>4, <1>5, <1>6, <1>g, <2>1 DEF Gap
  <2> QED BY <1>w, <1>4, <1>6, <2>2, RankFacts DEF Gap
<1>7. CASE admin.want = "active"
  <2>1. contract.status # "subscribing"
    BY <1>4, <1>7, RankFacts
  <2>2. contract.status = "active"
    BY <1>4, <1>5, <1>7, <1>g, <2>1 DEF Gap
  <2> QED BY <1>w, <1>4, <1>7, <2>2, RankFacts DEF Gap
<1> QED BY <1>3, <1>6, <1>7

\* The row appears, by the administrator's statement or by the event.
LEMMA GapAppears ==
  ASSUME EarnBase, EarnNext, Undisturbed', product.status = "none", product'.status = "created",
         contract' = contract, contract.status # "none", Opened => AdminOpens'
  PROVE  Gap'
<1>g. Gap
  BY GapNow
<1>1. contract.status = "created" \/ (contract.status = "subscribing" /\ Opened)
  BY <1>g DEF Gap
<1> QED BY <1>1 DEF Gap

LEMMA GapSteps ==
  ASSUME EarnBase, EarnNext
  PROVE  GapExplained'
<1> SUFFICES ASSUME Undisturbed' PROVE Gap' /\ RowCalled'
  BY DEF GapExplained
<1>s. EarnShape
  BY DEF EarnBase
<1>g. /\ Gap /\ RowCalled /\ product.status \in PlanStatuses /\ contract.status \in PlanStatuses
      /\ Rank[product.status] <= Rank[contract.status]
  BY GapNow
<1>k. ChainTold /\ AdminKnows
  BY DEF EarnBase
<1>r. RowBehind'
  BY <1>s, RowBehindSteps DEF EarnBase
<1>p. product'.status \in PlanStatuses
  BY <1>r, StillUndisturbed DEF RowBehind
\* With the row no lower, what was called for still is.
<1>c. ASSUME Rank[product'.status] >= Rank[product.status] PROVE RowCalled'
  <2>1. Rank[product'.status] \in 0 .. 4 /\ Rank[product.status] \in 0 .. 4
    BY <1>g, <1>p, RankFacts
  <2>2. Stage \in StageNames /\ Rank[From[Stage]] \in 0 .. 4
    BY <1>s, StageIn, StageFacts, RankFacts
  <2>3. CASE sched' = sched /\ Stage' = Stage
    <3>1. ASSUME sched.pc \in {"call", "write"} PROVE Rank[product'.status] >= Rank[From[Stage]]
      <4>1. Rank[product.status] >= Rank[From[Stage]]
        BY <1>g, <3>1 DEF RowCalled
      <4> QED BY <1>c, <2>1, <2>2, <4>1
    <3> QED BY <2>3, <3>1 DEF RowCalled
  <2>4. CASE sched'.pc = "list" \/ sched'.pc = "mature"
    BY <2>4 DEF RowCalled
  <2>5. CASE SchedList /\ SchedAt("call") /\ Stage' = Stage /\ product.status = From[Stage]
    <3>1. Rank[product'.status] >= Rank[From[Stage]]
      BY <1>c, <2>5
    <3> QED BY <2>5, <3>1 DEF RowCalled
  <2>6. CASE SchedCall /\ SchedAt("write") /\ Stage' = Stage
    <3>1. sched.pc = "call"
      BY <2>6 DEF SchedCall
    <3>2. Rank[product.status] >= Rank[From[Stage]]
      BY <1>g, <3>1 DEF RowCalled
    <3>3. Rank[product'.status] >= Rank[From[Stage]]
      BY <1>c, <2>1, <2>2, <3>2
    <3> QED BY <2>6, <3>3 DEF RowCalled
  <2> QED BY <1>s, <2>3, <2>4, <2>5, <2>6, SchedMoves DEF SchedAt
<1>u. product'.status = product.status => RowCalled'
  <2>1. Rank[product.status] \in 0 .. 4
    BY <1>g, RankFacts
  <2>2. product'.status = product.status => Rank[product'.status] >= Rank[product.status]
    BY <2>1
  <2> QED BY <1>c, <2>2
<1>1. CASE SchedWrite
  <2>1. Gap' /\ sched'.pc \notin {"call", "write"}
    BY <1>1, GapSchedWrites
  <2> QED BY <2>1 DEF RowCalled
<1>2. CASE AdminWrites
  BY <1>2, <1>c, GapAdminWrites
<1>a. ASSUME product.status = "none", product'.status = "created" PROVE RowCalled'
  BY <1>a, <1>c, RankFacts
<1>3. CASE AdminInsert /\ product.status = "none" /\ Writes("created")
  <2>1. admin.pc = "insert" /\ contract' = contract
    BY <1>s, <1>3, AdminInserted
  <2>2. contract.status # "none"
    BY <1>k, <2>1 DEF AdminKnows
  <2>3. Opened => AdminOpens'
    <3>1. Opened => AdminOpens
      BY DEF AdminOpens
    <3>2. ~AdminWrites
      BY <2>1 DEF AdminWrites
    <3> QED BY <1>s, <3>1, <3>2, AdminDue
  <2> QED BY <1>3, <1>a, <2>1, <2>2, <2>3, GapAppears DEF Writes
<1>4. ASSUME NEW b \in reader.todo, HandleEvent(b), HandledCreated(b) \/ HandledClose(b)
      PROVE  Gap' /\ RowCalled'
  <2>1. b \in DOMAIN emitted /\ contract' = contract /\ admin' = admin
    BY <1>s, <1>4, Handling
  <2>2. CASE HandledCreated(b)
    <3>1. contract.status # "none"
      <4>1. b \in Of("created")
        BY <2>1, <2>2 DEF HandledCreated, Of
      <4>2. emitted # << >>
        BY <1>s, <2>1
      <4> QED BY <1>k, <4>2 DEF ChainTold
    <3>2. Opened => AdminOpens'
      BY <2>1 DEF AdminOpens, Opened
    <3> QED BY <1>a, <2>1, <2>2, <3>1, <3>2, GapAppears DEF HandledCreated, Writes
  <2>3. CASE HandledClose(b)
    <3>1. b \in Of("closed") /\ product'.status = "settled"
      BY <2>1, <2>3 DEF HandledClose, Of, Writes
    <3>2. contract'.status = "settled"
      BY <1>k, <2>1, <3>1 DEF ChainTold
    <3>3. Rank[product'.status] >= Rank[product.status]
      BY <1>g, <3>1, RankFacts
    <3> QED BY <1>c, <3>1, <3>2, <3>3 DEF Gap
  <2> QED BY <1>4, <2>2, <2>3
<1>5. CASE product'.status = product.status /\ ~SchedWrite /\ ~AdminWrites
  <2>1. CASE contract'.status = contract.status
    BY <1>5, <1>g, <1>u, <2>1, GapStays
  <2>2. CASE contract'.status # contract.status
    BY <1>5, <1>u, <2>2, GapMoves
  <2> QED BY <2>1, <2>2
<1> QED BY <1>s, <1>1, <1>2, <1>3, <1>4, <1>5, RowWriters

----------------------------------------------------------------------------
(* What is booked *)

LEMMA OfFinite ==
  ASSUME EarnShape, NEW S, S \subseteq DOMAIN emitted
  PROVE  IsFiniteSet(S)
<1>1. DOMAIN emitted = 1 .. Len(emitted) /\ Len(emitted) \in Nat
  BY DEF EarnShape
<1>2. IsFiniteSet(1 .. Len(emitted))
  BY <1>1, FS_Interval
<1>3. IsFiniteSet(DOMAIN emitted)
  BY <1>1, <1>2
<1> QED BY <1>3, FS_Subset

\* What the steps do to the books.
BooksKept == subs' = subs /\ claimed' = claimed /\ settlements' = settlements /\ product'.total = product.total
LEMMA BookMoves ==
  ASSUME EarnShape, EarnNext
  PROVE  \/ BooksKept
         \/ /\ SchedMature /\ subs' = Matured /\ claimed' = claimed /\ settlements' = settlements
            /\ product'.total = product.total
         \/ \E b \in reader.todo : HandleEvent(b) /\ (HandledJoin(b) \/ HandledClose(b) \/ HandledLeave(b))
<1>1. ASSUME NEW b \in reader.todo, HandleEvent(b)
      PROVE  BooksKept \/ HandledJoin(b) \/ HandledClose(b) \/ HandledLeave(b)
  <2>1. HandledOther(b) \/ HandledCreated(b) \/ HandledJoin(b) \/ HandledClose(b) \/ HandledLeave(b)
    BY <1>1, Handling
  <2> QED BY <2>1 DEF HandledOther, HandledCreated, Writes, BooksKept
<1>2. ASSUME SchedWrite PROVE BooksKept
  BY <1>2, SchedWrote DEF Writes, BooksKept
<1>3. ASSUME AdminInsert PROVE BooksKept
  BY <1>3, AdminInserted DEF Writes, BooksKept
<1>4. ASSUME AdminWrites PROVE BooksKept
  BY <1>4, AdminWrote DEF Writes, BooksKept
<1>5. CASE SchedMature
  BY <1>5 DEF SchedMature
<1>6. ASSUME \/ Pass \/ MovePrincipal \/ \E u \in Savers : PrepareJoin(u) \/ Join(u) \/ Leave(u)
             \/ SchedList \/ SchedCall \/ SchedCallLost \/ SchedFails
             \/ AdminCreate \/ AdminOpen \/ (\E w \in Wishes : AdminAsks(w)) \/ AdminReads
             \/ Poll \/ (\E b \in reader.todo : HandleFails(b)) \/ PollFails \/ PollEnds \/ EarnRestart
      PROVE  BooksKept
  BY <1>6 DEF Pass, MovePrincipal, PrepareJoin, Join, Leave, SchedList, SchedCall, SchedCallLost,
              SchedFails, AdminCreate, AdminOpen, AdminAsks, AdminReads, Poll, HandleFails, PollFails, PollEnds,
              EarnRestart, booked, BooksKept
<1> QED BY <1>1, <1>2, <1>3, <1>4, <1>5, <1>6 DEF EarnNext

\* Events of the past that are booked.
LEMMA BookedSame ==
  ASSUME EarnShape, EarnNext, NEW S \in SUBSET DOMAIN emitted
  PROVE  /\ \A u \in Savers : Joins(u)' \cap S = Joins(u) \cap S
         /\ Of("joined")' \cap S = Of("joined") \cap S
         /\ Of("closed")' \cap S = Of("closed") \cap S
<1>1. \A b \in DOMAIN emitted : emitted'[b] = emitted[b] /\ b \in DOMAIN emitted'
  BY EventsStay
<1> QED BY <1>1 DEF Joins, Of

LEMMA JoinsOf ==
  ASSUME EarnShape
  PROVE  /\ \A b \in DOMAIN emitted : \A u \in Savers :
                b \in Joins(u) <=> emitted[b].kind = "joined" /\ emitted[b].user = u
         /\ UNION {Joins(u) : u \in Savers} = Of("joined")
<1>1. \A b \in DOMAIN emitted : emitted[b] \in EventT
  BY DEF EarnShape
<1>2. ASSUME NEW b \in DOMAIN emitted, NEW u \in Savers
      PROVE  b \in Joins(u) <=> emitted[b].kind = "joined" /\ emitted[b].user = u
  <2>1. PICK e \in EventT : e = emitted[b]
    BY <1>1
  <2>2. e = [kind |-> "joined", user |-> u] <=> e.kind = "joined" /\ e.user = u
    <3>1. e = [kind |-> e.kind, user |-> e.user]
      <4>1. CASE e \in [kind : {"created", "closed"}, user : {""}]
        BY <4>1
      <4>2. CASE e \in [kind : {"joined", "redeemed"}, user : Savers]
        BY <4>2
      <4> QED BY <4>1, <4>2 DEF EventT
    <3> QED BY <3>1
  <2>3. b \in Joins(u) <=> e = [kind |-> "joined", user |-> u]
    BY <2>1 DEF Joins
  <2> QED BY <2>1, <2>2, <2>3
<1>3. ASSUME NEW b \in Of("joined") PROVE \E u \in Savers : b \in Joins(u)
  <2>1. b \in DOMAIN emitted /\ emitted[b].kind = "joined" /\ emitted[b].user \in Savers
    BY <1>3, EventFacts DEF Of
  <2> QED BY <1>2, <2>1
<1>4. ASSUME NEW u \in Savers, NEW b \in Joins(u) PROVE b \in Of("joined")
  <2>1. b \in DOMAIN emitted
    BY <1>4 DEF Joins
  <2> QED BY <1>2, <1>4, <2>1 DEF Of
<1> QED BY <1>2, <1>3, <1>4

LEMMA JoinsSteps ==
  ASSUME EarnShape, JoinsKept, EarnNext
  PROVE  JoinsKept'
<1>s. EarnShape'
  BY EarnShapeSteps
<1>t. /\ subs \in [Savers -> SubT] /\ product.total \in Nat /\ claimed \subseteq DOMAIN emitted
      /\ \A u \in Savers : subs[u].amount \in Nat
  BY DEF EarnShape, SubT
<1>1. ASSUME NEW b \in Of("joined")' PROVE Unhandled(b)' \/ b \in claimed' \cup ignored'
  <2>1. b \in DOMAIN emitted' /\ emitted'[b].kind = "joined"
    BY <1>1 DEF Of
  <2>2. claimed \subseteq claimed' /\ ignored \subseteq ignored'
    <3>1. \A c \in reader.todo : HandledJoin(c) \/ HandledClose(c) \/ HandledLeave(c) => claimed \subseteq claimed'
      BY DEF HandledJoin, HandledClose, HandledLeave, BookJoin, BookClose, BookLeave
    <3> QED BY <3>1, BookMoves, HistoryGrows DEF BooksKept
  <2>3. b \in DOMAIN emitted => emitted[b].kind = "joined"
    BY <2>1, EventsStay
  <2>4. b \in DOMAIN emitted => Unhandled(b) \/ b \in claimed \cup ignored
    BY <2>3 DEF JoinsKept, Of
  <2>5. CASE b \in reader.todo /\ HandleEvent(b)
    <3>1. b \in DOMAIN emitted
      BY <2>5, Handling
    <3> QED BY <2>3, <2>5, <3>1, Handling
  <2>6. CASE b \in reader.todo /\ HandleFails(b)
    BY <2>6 DEF HandleFails
  <2> QED BY <2>1, <2>2, <2>4, <2>5, <2>6, UnhandledSteps
<1>2. ASSUME claimed' = claimed, product'.total = product.total, \A u \in Savers : subs'[u].amount = subs[u].amount
      PROVE  /\ \A u \in Savers : subs'[u].amount = Cardinality(Booked(u))'
             /\ product'.total = Cardinality(Of("joined")' \cap claimed')
  <2>1. \A u \in Savers : Joins(u)' \cap claimed' = Joins(u) \cap claimed
    BY <1>2, <1>t, BookedSame
  <2>2. Of("joined")' \cap claimed' = Of("joined") \cap claimed
    BY <1>2, <1>t, BookedSame
  <2> QED BY <1>2, <2>1, <2>2 DEF JoinsKept, Booked
<1>3. ASSUME NEW b \in reader.todo, HandleEvent(b), HandledJoin(b)
      PROVE  /\ \A u \in Savers : subs'[u].amount = Cardinality(Booked(u))'
             /\ product'.total = Cardinality(Of("joined")' \cap claimed')
  <2>1. b \in DOMAIN emitted /\ emitted' = emitted
    BY <1>3, Handling
  <2>2. PICK w \in Savers : w = emitted[b].user /\ BookJoin(b, w)
    BY <1>3 DEF HandledJoin
  <2>3. b \notin claimed /\ claimed' = claimed \cup {b} /\ product'.total = product.total + 1 /\ emitted[b].kind = "joined"
    BY <1>3, <2>2 DEF HandledJoin, BookJoin
  <2>4. subs'[w].amount = subs[w].amount + 1 /\ \A u \in Savers \ {w} : subs'[u] = subs[u]
    BY <2>2, JoinShape
  <2>5. b \in Joins(w) /\ \A u \in Savers \ {w} : b \notin Joins(u)
    BY <2>1, <2>2, <2>3, JoinsOf
  <2>6. \A u : Joins(u)' = Joins(u)
    BY <2>1 DEF Joins
  <2>7. Of("joined")' = Of("joined") /\ b \in Of("joined")
    BY <2>1, <2>3 DEF Of
  <2>8. Cardinality((Joins(w) \cap claimed) \cup {b}) = Cardinality(Joins(w) \cap claimed) + 1
    <3>1. Joins(w) \cap claimed \subseteq DOMAIN emitted
      BY DEF Joins
    <3>2. IsFiniteSet(Joins(w) \cap claimed)
      BY <3>1, OfFinite
    <3> QED BY <2>3, <3>2, FS_AddElement
  <2>9. Cardinality((Of("joined") \cap claimed) \cup {b}) = Cardinality(Of("joined") \cap claimed) + 1
    <3>1. Of("joined") \cap claimed \subseteq DOMAIN emitted
      BY DEF Of
    <3>2. IsFiniteSet(Of("joined") \cap claimed)
      BY <3>1, OfFinite
    <3> QED BY <2>3, <3>2, FS_AddElement
  <2>10. /\ Joins(w) \cap claimed' = (Joins(w) \cap claimed) \cup {b}
         /\ Of("joined") \cap claimed' = (Of("joined") \cap claimed) \cup {b}
         /\ \A u \in Savers \ {w} : Joins(u) \cap claimed' = Joins(u) \cap claimed
    BY <2>3, <2>5, <2>7
  <2>11. subs'[w].amount = Cardinality(Joins(w) \cap claimed')
    BY <2>4, <2>8, <2>10 DEF JoinsKept, Booked
  <2>12. \A u \in Savers \ {w} : subs'[u].amount = Cardinality(Joins(u) \cap claimed')
    BY <2>4, <2>10 DEF JoinsKept, Booked
  <2>13. product'.total = Cardinality(Of("joined")' \cap claimed')
    BY <2>3, <2>7, <2>9, <2>10 DEF JoinsKept
  <2> QED BY <2>6, <2>11, <2>12, <2>13 DEF Booked
<1>4. ASSUME NEW b \in reader.todo, HandleEvent(b), HandledClose(b)
      PROVE  /\ \A u \in Savers : subs'[u].amount = Cardinality(Booked(u))'
             /\ product'.total = Cardinality(Of("joined")' \cap claimed')
  <2>1. b \in DOMAIN emitted /\ emitted' = emitted
    BY <1>4, Handling
  <2>2. claimed' = claimed \cup {b} /\ subs' = Matured /\ product'.total = product.total /\ emitted[b].kind = "closed"
    BY <1>4 DEF HandledClose, BookClose, Writes
  <2>3. \A u \in Savers : subs'[u].amount = subs[u].amount
    BY <1>t, <2>2, MaturedShape
  <2>4. \A u \in Savers : b \notin Joins(u) /\ Joins(u)' = Joins(u)
    BY <2>1, <2>2, JoinsOf DEF Joins
  <2>5. b \notin Of("joined") /\ Of("joined")' = Of("joined")
    BY <2>1, <2>2 DEF Of
  <2>6. \A u \in Savers : Joins(u)' \cap claimed' = Joins(u) \cap claimed
    BY <2>2, <2>4
  <2>7. Of("joined")' \cap claimed' = Of("joined") \cap claimed
    BY <2>2, <2>5
  <2> QED BY <2>2, <2>3, <2>6, <2>7 DEF JoinsKept, Booked
<1>5. ASSUME NEW b \in reader.todo, HandleEvent(b), HandledLeave(b)
      PROVE  claimed' = claimed /\ product'.total = product.total /\ \A u \in Savers : subs'[u].amount = subs[u].amount
  <2>1. emitted[b].user \in Savers /\ BookLeave(emitted[b].user) /\ claimed' = claimed /\ product' = product
    BY <1>5 DEF HandledLeave, BookLeave
  <2> QED BY <2>1, LeaveShape
<1>6. ASSUME BooksKept \/ (subs' = Matured /\ claimed' = claimed /\ product'.total = product.total)
      PROVE  claimed' = claimed /\ product'.total = product.total /\ \A u \in Savers : subs'[u].amount = subs[u].amount
  BY <1>6, <1>t, MaturedShape DEF BooksKept
<1>7. /\ \A u \in Savers : subs'[u].amount = Cardinality(Booked(u))'
      /\ product'.total = Cardinality(Of("joined")' \cap claimed')
  BY <1>2, <1>3, <1>4, <1>5, <1>6, BookMoves
<1> QED BY <1>1, <1>7 DEF JoinsKept

LEMMA InOrderSteps ==
  ASSUME EarnShape, InOrder, EarnNext
  PROVE  InOrder'
<1> SUFFICES ASSUME reader'.pc = "run",
                    NEW b \in (reader'.at + 1 .. reader'.to) \ reader'.todo, NEW c \in reader'.todo
             PROVE  Precedes(b, c)'
  BY DEF InOrder
<1>r. ReaderShape
  BY DEF EarnShape, ReaderShape, ReaderT
<1>t. reader.at \in Nat /\ reader.to \in Nat
  BY <1>r DEF ReaderShape, ReaderT
<1>e. /\ Len(emitted) \in Nat /\ DOMAIN emitted = 1 .. Len(emitted)
      /\ \A x \in DOMAIN emitted : emitted'[x] = emitted[x]
  BY EventsStay
<1>p. ASSUME b \in DOMAIN emitted, c \in DOMAIN emitted, Precedes(b, c) PROVE Precedes(b, c)'
  BY <1>p, <1>e DEF Precedes, KindOf
<1>w. reader.pc = "run" => reader.at + 1 .. reader.to \subseteq DOMAIN emitted
  BY <1>r, <1>t, <1>e DEF ReaderShape
<1>1. CASE reader' = reader
  <2>1. c \in reader.at + 1 .. reader.to /\ Precedes(b, c)
    BY <1>1, <1>r DEF InOrder, ReaderShape
  <2> QED BY <1>1, <1>p, <1>w, <2>1
<1>2. ASSUME NEW x \in reader.todo, IsNext(x), Taken(x) PROVE Precedes(b, c)'
  <2>1. reader.pc = "run" /\ reader'.at = reader.at /\ reader'.to = reader.to /\ reader'.todo = reader.todo \ {x}
    BY <1>2 DEF Taken
  <2>2. c \in reader.todo /\ c # x /\ b \in reader.at + 1 .. reader.to /\ c \in reader.at + 1 .. reader.to
    BY <1>r, <2>1 DEF ReaderShape
  <2>3. Precedes(b, c)
    <3>1. CASE b = x
      BY <1>2, <2>2, <3>1 DEF IsNext
    <3>2. CASE b # x
      BY <2>1, <2>2, <3>2 DEF InOrder
    <3> QED BY <3>1, <3>2
  <2> QED BY <1>p, <1>w, <2>1, <2>2, <2>3
<1>3. CASE Polled
  BY <1>3 DEF Polled
<1>4. CASE Restarts \/ Ended
  BY <1>4 DEF Restarts, Ended
<1> QED BY <1>1, <1>2, <1>3, <1>4, ReaderMoves

LEMMA SettlesSteps ==
  ASSUME EarnShape, ChainTold, InOrder, SettlesKept, EarnNext
  PROVE  SettlesKept'
<1>t. /\ subs \in [Savers -> SubT] /\ claimed \subseteq DOMAIN emitted
      /\ \A u \in Savers : subs[u].status \in {"none", "active", "matured", "redeemed"}
  BY DEF EarnShape, SubT
<1>r. ReaderShape /\ reader.at \in Nat /\ reader.to \in Nat
  BY DEF EarnShape, ReaderShape, ReaderT
<1>e. \A b \in DOMAIN emitted : emitted'[b] = emitted[b] /\ b \in DOMAIN emitted' /\ b \in Nat
  BY EventsStay
\* The settlements.
<1>1. settlements' = Cardinality(Of("closed")' \cap claimed')
  <2>1. ASSUME claimed' = claimed, settlements' = settlements PROVE settlements' = Cardinality(Of("closed")' \cap claimed')
    BY <2>1, <1>t, BookedSame DEF SettlesKept
  <2>2. ASSUME NEW b \in reader.todo, HandleEvent(b), HandledJoin(b)
        PROVE  settlements' = Cardinality(Of("closed")' \cap claimed')
    <3>1. b \in DOMAIN emitted /\ emitted' = emitted
      BY <2>2, Handling
    <3>2. claimed' = claimed \cup {b} /\ settlements' = settlements /\ b \notin Of("closed")
      BY <2>2 DEF HandledJoin, BookJoin, Of
    <3>3. Of("closed")' = Of("closed")
      BY <3>1 DEF Of
    <3>4. Of("closed")' \cap claimed' = Of("closed") \cap claimed
      BY <3>2, <3>3
    <3> QED BY <3>2, <3>4 DEF SettlesKept
  <2>3. ASSUME NEW b \in reader.todo, HandleEvent(b), HandledClose(b)
        PROVE  settlements' = Cardinality(Of("closed")' \cap claimed')
    <3>1. b \in DOMAIN emitted /\ emitted' = emitted
      BY <2>3, Handling
    <3>2. claimed' = claimed \cup {b} /\ settlements' = settlements + 1 /\ b \notin claimed /\ b \in Of("closed")
      BY <2>3, <3>1 DEF HandledClose, BookClose, Of
    <3>3. Of("closed")' = Of("closed")
      BY <3>1 DEF Of
    <3>4. Of("closed")' \cap claimed' = (Of("closed") \cap claimed) \cup {b}
      BY <3>2, <3>3
    <3>5. Of("closed") \cap claimed \subseteq DOMAIN emitted
      BY <1>t
    <3>6. IsFiniteSet(Of("closed") \cap claimed)
      BY <3>5, OfFinite
    <3>7. Cardinality((Of("closed") \cap claimed) \cup {b}) = Cardinality(Of("closed") \cap claimed) + 1
      BY <3>2, <3>6, FS_AddElement
    <3> QED BY <3>2, <3>4, <3>7 DEF SettlesKept
  <2>4. \A b : HandledLeave(b) => claimed' = claimed /\ settlements' = settlements
    BY DEF HandledLeave, BookLeave
  <2> QED BY <2>1, <2>2, <2>3, <2>4, BookMoves DEF BooksKept
\* Nobody who left is payable again.
<1>2. ASSUME "late" \notin drift', NEW b \in Of("redeemed")' \ ignored', ~Unhandled(b)'
      PROVE  subs'[emitted'[b].user].status \in {"none", "redeemed"}
  <2>1. b \in DOMAIN emitted' /\ emitted'[b].kind = "redeemed" /\ b \notin ignored'
    BY <1>2 DEF Of
  <2>2. ASSUME b \in reader.todo, HandleEvent(b) PROVE subs'[emitted'[b].user].status \in {"none", "redeemed"}
    <3>1. b \in DOMAIN emitted /\ emitted' = emitted
      BY <2>2, Handling
    <3>2. HandledLeave(b)
      BY <2>1, <2>2, <3>1, Handling
    <3> QED BY <3>1, <3>2, LeaveShape DEF HandledLeave
  <2>3. ~(b \in reader.todo /\ HandleFails(b))
    BY <2>1 DEF HandleFails
  <2>4. ASSUME ~(b \in reader.todo /\ HandleEvent(b)) PROVE b \in DOMAIN emitted /\ ~Unhandled(b)
    BY <1>2, <2>1, <2>3, <2>4, UnhandledSteps
  <2>5. ASSUME b \in DOMAIN emitted, ~Unhandled(b) PROVE subs'[emitted'[b].user].status \in {"none", "redeemed"}
    <3>1. b \in Of("redeemed") /\ b \notin ignored /\ "late" \notin drift /\ emitted'[b] = emitted[b] /\ b \in Nat
      BY <1>2, <1>e, <2>1, <2>5, HistoryGrows DEF Of
    <3>2. PICK w \in Savers : w = emitted[b].user
      BY <2>1, <2>5, <3>1, EventFacts
    <3>3. subs[w].status \in {"none", "redeemed"}
      BY <2>5, <3>1, <3>2 DEF SettlesKept
    \* What is handled now does not come before this event.
    <3>4. ASSUME NEW c \in reader.todo, HandleEvent(c), emitted[c].kind \in {"joined", "closed"} PROVE FALSE
      <4>1. reader.pc = "run" /\ c \in DOMAIN emitted
        BY <3>4, Handling
      <4>2. c \in reader.at + 1 .. reader.to /\ c \in Nat
        BY <3>4, <4>1, WindowFacts
      <4>3. c < b
        BY <3>1, <3>4, <4>1 DEF ChainTold, Of
      <4>4. b > reader.at
        BY <1>r, <3>1, <4>2, <4>3
      <4>5. b <= reader.to /\ b \notin reader.todo
        BY <2>5, <4>1, <4>4 DEF Unhandled
      <4>6. b \in (reader.at + 1 .. reader.to) \ reader.todo
        BY <1>r, <3>1, <4>4, <4>5
      <4>7. Precedes(b, c)
        BY <3>4, <4>1, <4>6 DEF InOrder
      <4>8. KindOf(b) = 4 /\ KindOf(c) \in {2, 3}
        BY <3>1, <3>4 DEF KindOf, EventKinds, Of
      <4> QED BY <4>7, <4>8 DEF Precedes
    <3>5. CASE BooksKept
      BY <3>1, <3>2, <3>3, <3>5 DEF BooksKept
    <3>6. CASE SchedMature /\ subs' = Matured
      <4>1. ~\E u \in Savers : subs[u].status = "redeemed"
        BY <1>2, <3>6 DEF SchedMature
      <4>2. subs[w].status = "none"
        BY <3>3, <4>1
      <4> QED BY <1>t, <3>1, <3>2, <3>6, <4>2, MaturedShape
    <3>7. ASSUME NEW c \in reader.todo, HandleEvent(c), HandledJoin(c) \/ HandledClose(c) PROVE FALSE
      BY <3>4, <3>7 DEF HandledJoin, HandledClose
    <3>8. ASSUME NEW c \in reader.todo, HandleEvent(c), HandledLeave(c)
          PROVE  subs'[w].status \in {"none", "redeemed"}
      BY <3>3, <3>8, LeaveShape DEF HandledLeave
    <3> QED BY <3>1, <3>2, <3>5, <3>6, <3>7, <3>8, BookMoves
  <2> QED BY <2>2, <2>4, <2>5
<1> QED BY <1>1, <1>2 DEF SettlesKept

----------------------------------------------------------------------------
(* The invariant *)

LEMMA EarnStarts ==
  ASSUME EarnInit
  PROVE  EarnInv
<1>1. EarnShape
  <2>1. subs \in [Savers -> SubT]
    BY DEF EarnInit, NoSub, SubT
  <2>2. admin \in AdminT /\ sched \in SchedT /\ reader \in ReaderT
    BY DEF EarnInit, NoRequest, AdminT, Stopped, SchedT, ReaderT
  <2>3. emitted \in Seq(EventT) /\ Len(emitted) = 0 /\ emitted = << >>
    BY DEF EarnInit
  <2>4. contract \in PlanT /\ product \in RowT
    BY DEF EarnInit, PlanT, PlanStatuses, RowT, RowStatuses
  <2> QED BY <2>1, <2>2, <2>3, <2>4 DEF EarnInit, EarnShape, SchedT, ReaderT, PlanT, RowT
<1>2. \A k : Of(k) = {}
  BY DEF EarnInit, Of
<1>3. \A u : Joins(u) = {}
  BY DEF EarnInit, Joins
<1>c. Cardinality({}) = 0
  BY FS_EmptySet
<1>4. ChainTold
  BY <1>2 DEF EarnInit, ChainTold
<1>5. SchedKnows /\ AdminKnows
  BY DEF EarnInit, SchedKnows, AdminKnows, Opened, Stopped, NoRequest
<1>6. RowBehind
  <2>1. product.status = "none" /\ contract.status = "none"
    BY DEF EarnInit
  <2> QED BY <2>1, RankFacts DEF RowBehind, PlanStatuses
<1>7. GapExplained
  BY DEF EarnInit, GapExplained, Gap, RowCalled, Stopped
<1>8. JoinsKept
  <2>1. \A u \in Savers : Booked(u) = {} /\ subs[u].amount = 0
    BY <1>3 DEF Booked, EarnInit, NoSub
  <2>2. product.total = 0 /\ Of("joined") \cap claimed = {}
    BY <1>2 DEF EarnInit
  <2> QED BY <1>2, <1>c, <2>1, <2>2 DEF JoinsKept
<1>9. InOrder
  BY DEF EarnInit, InOrder
<1>10. SettlesKept
  <2>1. settlements = 0 /\ Of("closed") \cap claimed = {} /\ Of("redeemed") = {}
    BY <1>2 DEF EarnInit
  <2> QED BY <1>c, <2>1 DEF SettlesKept
<1> QED BY <1>1, <1>4, <1>5, <1>6, <1>7, <1>8, <1>9, <1>10 DEF EarnInv

LEMMA EarnStutters ==
  ASSUME EarnInv, UNCHANGED earnVars
  PROVE  EarnInv'
<1>1. Stage' = Stage
  BY DEF earnVars, Stage
<1>2. EarnShape' /\ InOrder'
  BY DEF EarnInv, EarnShape, InOrder, Precedes, KindOf, earnVars
<1>3. ChainTold'
  BY DEF EarnInv, ChainTold, Of, earnVars
<1>4. SchedKnows' /\ AdminKnows' /\ RowBehind'
  BY <1>1 DEF EarnInv, SchedKnows, AdminKnows, Opened, RowBehind, Sound, earnVars
<1>5. GapExplained'
  BY <1>1 DEF EarnInv, GapExplained, Undisturbed, Gap, RowCalled, CreatedAhead, Of, Unhandled, Opening, Activating, Closing,
              AdminOpens, AdminActivates, Opened, earnVars
<1>6. JoinsKept'
  BY DEF EarnInv, JoinsKept, Booked, Joins, Of, Unhandled, earnVars
<1>7. SettlesKept'
  BY DEF EarnInv, SettlesKept, Of, Unhandled, earnVars
<1> QED BY <1>2, <1>3, <1>4, <1>5, <1>6, <1>7 DEF EarnInv

LEMMA EarnSteps ==
  ASSUME EarnInv, [EarnNext]_earnVars
  PROVE  EarnInv'
<1>1. CASE EarnNext
  <2>1. EarnBase /\ EarnShape /\ ChainTold /\ SchedKnows /\ AdminKnows /\ RowBehind /\ JoinsKept /\ InOrder /\ SettlesKept
    BY DEF EarnInv, EarnBase
  <2>2. EarnShape' /\ ChainTold' /\ SchedKnows' /\ AdminKnows' /\ RowBehind'
    BY <1>1, <2>1, EarnShapeSteps, ToldSteps, SchedKnowsSteps, AdminKnowsSteps, RowBehindSteps
  <2>3. GapExplained' /\ JoinsKept' /\ InOrder' /\ SettlesKept'
    BY <1>1, <2>1, GapSteps, JoinsSteps, InOrderSteps, SettlesSteps
  <2> QED BY <2>2, <2>3 DEF EarnInv
<1> QED BY <1>1, EarnStutters

LEMMA EarnTells ==
  ASSUME EarnInv
  PROVE  EarnFollows
<1>s. EarnShape
  BY DEF EarnInv
<1>n. Len(emitted) \in Nat /\ DOMAIN emitted = 1 .. Len(emitted) /\ reader.at \in Nat /\ reader.at <= Len(emitted)
  BY <1>s DEF EarnShape
<1>u. reader.pc = "idle" => \A b \in DOMAIN emitted : b <= reader.at => ~Unhandled(b)
  BY <1>n DEF Unhandled
<1>1. NeverAhead
  BY DEF EarnInv, RowBehind, NeverAhead, Sound
<1>2. StatusFollows
  <2> SUFFICES ASSUME Quiet, Undisturbed PROVE product.status = contract.status
    BY DEF StatusFollows, Undisturbed
  <2>1. sched.pc = "list" /\ admin.pc = "idle" /\ reader.pc = "idle" /\ reader.at = Len(emitted)
    BY DEF Quiet
  <2>2. ~CreatedAhead
    BY <1>n, <1>u, <2>1 DEF CreatedAhead, Of
  <2>3. Gap
    BY DEF EarnInv, GapExplained
  <2> QED BY <2>1, <2>2, <2>3 DEF Gap, Opening, Activating, Closing, AdminOpens, AdminActivates, Opened
<1>3. EachJoinOnce
  <2>1. \A u \in Savers : subs[u].amount = Cardinality(Joins(u) \cap claimed)
    BY DEF EarnInv, JoinsKept, Booked
  <2>2. product.total = Cardinality((UNION {Joins(u) : u \in Savers}) \cap claimed)
    BY <1>s, JoinsOf DEF EarnInv, JoinsKept
  <2>3. ASSUME reader.pc = "idle", NEW u \in Savers, NEW b \in Joins(u), b <= reader.at
        PROVE  b \in claimed \cup ignored
    <3>1. b \in DOMAIN emitted /\ b \in Of("joined")
      BY <1>s, JoinsOf DEF Joins
    <3> QED BY <1>u, <2>3, <3>1 DEF EarnInv, JoinsKept
  <2> QED BY <2>1, <2>2, <2>3 DEF EachJoinOnce
<1>4. SettledOnce
  <2>1. settlements <= 1
    <3>1. settlements = Cardinality(Of("closed") \cap claimed)
      BY DEF EarnInv, SettlesKept
    <3>2. \A b, c \in Of("closed") \cap claimed : b = c
      BY DEF EarnInv, ChainTold
    <3>3. CASE Of("closed") \cap claimed = {}
      BY <3>1, <3>3, FS_EmptySet
    <3>4. CASE Of("closed") \cap claimed # {}
      <4>1. PICK b : Of("closed") \cap claimed = {b}
        BY <3>2, <3>4
      <4> QED BY <3>1, <4>1, FS_Singleton
    <3> QED BY <3>3, <3>4
  <2>2. ASSUME "late" \notin drift, reader.pc = "idle", NEW b \in 1 .. reader.at, emitted[b].kind = "redeemed",
               b \notin ignored, subs[emitted[b].user].status # "none"
        PROVE  subs[emitted[b].user].status = "redeemed"
    <3>1. b \in DOMAIN emitted /\ b <= reader.at
      BY <1>n
    <3>2. b \in Of("redeemed") \ ignored /\ ~Unhandled(b)
      BY <1>u, <2>2, <3>1 DEF Of
    <3> QED BY <2>2, <3>2 DEF EarnInv, SettlesKept
  <2> QED BY <2>1, <2>2 DEF SettledOnce
<1> QED BY <1>1, <1>2, <1>3, <1>4 DEF EarnFollows

THEOREM PlansFollowed == EarnSpec => []EarnFollows
<1>1. EarnInv => EarnFollows
  BY EarnTells
<1>2. EarnInit => EarnInv
  BY EarnStarts
<1>3. EarnInv /\ [EarnNext]_earnVars => EarnInv'
  BY EarnSteps
<1> QED BY <1>1, <1>2, <1>3, PTL DEF EarnSpec
=============================================================================
