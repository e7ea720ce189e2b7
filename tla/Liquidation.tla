---------------------------- MODULE Liquidation ----------------------------
(***************************************************************************)
(* Forced closing in one market (services/liquidation/mod.rs,              *)
(* services/unified_margin/liquidation.rs, services/adl/mod.rs): the sweep *)
(* over isolated accounts and the risk worker's liquidation of unified     *)
(* ones share execute_liquidation and the insurance fund; what a unified   *)
(* account leaves uncovered is taken from profitable positions of the      *)
(* other side, along a ranking another task computes from time to time.    *)
(* Each user has one position, opened earlier.  Money is a whole number.   *)
(***************************************************************************)
EXTENDS Integers, FiniteSets, Sequences, FiniteSetsExt, SequencesExt

CONSTANTS
    Users,
    Unified,        \* users whose margin is unified; the others are isolated
    Unset,          \* isolated users whose margin_mode was never stored
    Book,           \* user -> position row opened by earlier trades
    Cash,           \* available balance of each user
    Marks,          \* mark prices
    Leverage,
    BufferDiv,      \* size \div BufferDiv: the buffer
    MmrDiv,         \* 1 / maintenance margin rate
    LiqFeeDiv,      \* 1 / liquidation fee rate
    InsFeeDiv,      \* 1 / contribution rate of the insurance fund
    FundCapPct,     \* max_insurance_payout_rate
    FundSeed,       \* insurance fund at the start
    MinCutPct, MaxCutPct,   \* min_ and max_reduction_percentage
    MaxPerAdl,      \* max_positions_per_adl
    MaxMarks, MaxCloses, MaxCrashes, MaxRankings   \* bounds

ASSUME RateAssumption ==
    /\ Leverage \in Nat \ {0} /\ BufferDiv \in Nat \ {0} /\ MmrDiv \in Nat \ {0}
    /\ LiqFeeDiv \in Nat \ {0} /\ InsFeeDiv \in Nat \ {0} /\ FundCapPct \in 0..100
    /\ FundSeed \in Nat /\ MinCutPct \in 0..100 /\ MaxCutPct \in 0..100
    /\ Unified \subseteq Users /\ Unset \subseteq Users \ Unified /\ Cash \in Nat
    /\ Marks \subseteq Nat \ {0}
ASSUME AdlAssumption == MaxPerAdl \in Nat
ASSUME BookAssumption ==
    /\ Users # {} /\ IsFiniteSet(Users)
    /\ Book \in [Users -> [status : {"open"}, side : {"long", "short"},
                           tokens : Nat \ {0}, size : Nat, coll : Nat]]

Liquidators == {"sweep", "risk"}   \* liquidation loop, risk worker

VARIABLES
    row,        \* user -> position row
    avail, hold,  \* user -> balance: available, frozen
    mark,       \* mark price
    fund,       \* insurance fund: balance, contributions, payouts
    ranks,      \* adl_rankings: side -> sequence, best rank first
    ranker,     \* the ranking task: positions it read; how often it ran
    locked,     \* users whose position row is locked
    step, mem,  \* liquidator -> next step, local variables
    cases,      \* user -> history of the liquidation: bad debt, fund's payout, ADL
    reduced,    \* history: what ADL reduced, sequence of [user, need, took]
    lost,       \* history: disturbances
    marks, closes, crashes

liqVars == <<row, avail, hold, mark, fund, ranks, ranker, locked, step, mem, cases,
             reduced, lost, marks, closes, crashes>>
rowsAndMoney == <<row, avail, hold>>
counters == <<marks, closes, crashes>>

Clear == [todo |-> {}, price |-> 0, user |-> "", seen |-> [status |-> "none"], cap |-> 0,
          contributed |-> 0, gap |-> 0, list |-> << >>]
NoCase == [times |-> 0, bad |-> 0, paid |-> 0, taken |-> 0]

LiqInit ==
    /\ row = Book
    /\ avail = [u \in Users |-> Cash] /\ hold = [u \in Users |-> 0]
    /\ mark = Book[CHOOSE u \in Users : TRUE].size \div Book[CHOOSE u \in Users : TRUE].tokens
    /\ fund = [balance |-> FundSeed, in |-> 0, out |-> 0]
    /\ ranks = [s \in {"long", "short"} |-> << >>]
    /\ ranker = [busy |-> FALSE, seen |-> {}, runs |-> 0]
    /\ locked = {}
    /\ step = [w \in Liquidators |-> "idle"] /\ mem = [w \in Liquidators |-> Clear]
    /\ cases = [u \in Users |-> NoCase] /\ reduced = << >> /\ lost = {}
    /\ marks = 0 /\ closes = 0 /\ crashes = 0

Opp(side) == IF side = "long" THEN "short" ELSE "long"
Floor0(n) == IF n > 0 THEN n ELSE 0
Lower(m, n) == IF m < n THEN m ELSE n
Higher(m, n) == IF m < n THEN n ELSE m
Pct(amount, percent) == (amount * percent) \div 100

IsOpen(u) == row[u].status = "open"

PnlAt(r, price) ==
    IF r.side = "long" THEN r.tokens * price - r.size ELSE r.size - r.tokens * price

\* Funding fees are left out.
RemainingAt(r, price) == r.coll + PnlAt(r, price)

ShouldLiquidateAt(r, price) ==
    LET rest == RemainingAt(r, price) IN rest * MmrDiv < r.size \/ rest <= 0

LiqFeeOf(r) == r.size \div LiqFeeDiv
Contribution(r) == r.size \div InsFeeDiv
BufferOf(size) == size \div BufferDiv

Next1(w, label) == step' = [step EXCEPT ![w] = label]
Reset(w) == Next1(w, "idle") /\ mem' = [mem EXCEPT ![w] = Clear]

\* Mutated: no GREATEST.
Drawn(amount, x) == amount - x
DrawnToZero(amount, x) == Floor0(amount - x)

\* UPDATE balances of u: frozen is floored at zero.
Settle(u, fromFrozen, toAvailable) ==
    /\ hold' = [hold EXCEPT ![u] = DrawnToZero(@, fromFrozen)]
    /\ avail' = [avail EXCEPT ![u] = @ + toAvailable]

\* After a position is closed whole the rest of frozen becomes available as well,
\* also what an open order of the user holds: only 'pending' ones are looked for.
SettleWhole(u, fromFrozen, toAvailable) ==
    /\ hold' = [hold EXCEPT ![u] = 0]
    /\ avail' = [avail EXCEPT ![u] = @ + toAvailable + DrawnToZero(hold[u], fromFrozen)]

-----------------------------------------------------------------------------
(* Prices move; users reduce or close their own position. *)

MoveMark(price) ==
    /\ price # mark /\ marks < MaxMarks /\ marks' = marks + 1
    /\ mark' = price
    /\ UNCHANGED <<rowsAndMoney, fund, ranks, ranker, locked, step, mem, cases, reduced, lost,
                   closes, crashes>>

\* close_position under the row lock: all or half of the position.
ClosePart(u, n) ==
    LET r == row[u]
        share(x) == (x * n) \div r.tokens
        pays == Floor0(share(r.coll) + share(PnlAt(r, mark)))
    IN
    /\ IsOpen(u) /\ u \notin locked /\ n \in 1..r.tokens
    /\ closes < MaxCloses /\ closes' = closes + 1
    /\ row' = [row EXCEPT ![u] = [r EXCEPT
                 !.status = IF n = r.tokens THEN "closed" ELSE "open",
                 !.tokens = @ - n, !.size = @ - share(r.size), !.coll = @ - share(r.coll)]]
    /\ Settle(u, share(r.coll) + BufferOf(share(r.size)), pays)
    /\ UNCHANGED <<mark, fund, ranks, ranker, locked, step, mem, cases, reduced, lost, marks,
                   crashes>>

-----------------------------------------------------------------------------
(* check_and_liquidate_market: the list and the price are read once. *)

\* Mutated: a margin_mode that is not stored does not count as isolated.
StoredIsolated == Users \ (Unified \cup Unset)
Isolated == Users \ Unified

Sweep ==
    LET todo == {u \in Isolated : IsOpen(u) /\ ShouldLiquidateAt(row[u], mark)} IN
    /\ step["sweep"] = "idle" /\ todo # {}
    /\ mem' = [mem EXCEPT !["sweep"] = [Clear EXCEPT !.todo = todo, !.price = mark]]
    /\ Next1("sweep", "pick")
    /\ UNCHANGED <<rowsAndMoney, mark, fund, ranks, ranker, locked, cases, reduced, lost, counters>>

Pick ==
    /\ step["sweep"] = "pick"
    /\ IF mem["sweep"].todo = {} THEN Reset("sweep")
       ELSE \E u \in mem["sweep"].todo :
              /\ mem' = [mem EXCEPT !["sweep"].todo = @ \ {u}, !["sweep"].user = u]
              /\ Next1("sweep", "lock")
    /\ UNCHANGED <<rowsAndMoney, mark, fund, ranks, ranker, locked, cases, reduced, lost, counters>>

-----------------------------------------------------------------------------
(* execute_liquidation: one transaction. *)

\* Mutated: a position that is closed by now is liquidated again.
LiquidatableAnyway(r) == TRUE
StillOpenRow(r) == r.status = "open"

\* What follows a liquidation that failed or is done.
After(w) == IF w = "sweep" THEN "pick" ELSE "idle"

\* SELECT ... FOR UPDATE, the status check and, for bad debt, the read of the
\* fund, which is not part of the transaction.
LockPosition(w) ==
    LET u == mem[w].user
        r == row[u]
    IN
    /\ step[w] = "lock" /\ u \notin locked
    /\ IF StillOpenRow(r)
       THEN /\ locked' = locked \cup {u}
            /\ mem' = [mem EXCEPT ![w].cap =
                 IF RemainingAt(r, mem[w].price) < 0 THEN Pct(fund.balance, FundCapPct) ELSE 0]
            /\ Next1(w, "commit")
       ELSE /\ Next1(w, After(w)) /\ UNCHANGED <<locked, mem>>
    /\ UNCHANGED <<rowsAndMoney, mark, fund, ranks, ranker, cases, reduced, lost, counters>>

\* Mutated: the cap of the fund is not applied.
WholeDebt(debt, cap) == debt
FundPays(debt, cap) == Lower(debt, cap)

\* The position is zeroed, the fund and the balance are moved, all at once.
CommitLiquidation(w) ==
    LET u    == mem[w].user
        r    == row[u]
        rest == RemainingAt(r, mem[w].price)
        paid == IF rest < 0 THEN FundPays(-rest, mem[w].cap) ELSE 0
        back == Floor0(rest - LiqFeeOf(r) - Contribution(r))
    IN
    /\ step[w] = "commit"
    /\ row' = [row EXCEPT ![u] = [@ EXCEPT !.status = "liquidated", !.tokens = 0, !.size = 0,
                                           !.coll = 0]]
    /\ fund' = [balance |-> fund.balance + Contribution(r) - paid,
                in |-> fund.in + Contribution(r), out |-> fund.out + paid]
    /\ SettleWhole(u, r.coll + BufferOf(r.size), back + BufferOf(r.size))
    /\ locked' = locked \ {u}
    /\ cases' = [cases EXCEPT ![u] = [cases[u] EXCEPT !.times = @ + 1, !.bad = Floor0(-rest),
                                               !.paid = paid]]
    \* What liquidate_one works out from the row it read and the returned amounts.
    /\ mem' = [mem EXCEPT ![w].gap = IF w = "sweep" THEN 0 ELSE
                 Floor0(LiqFeeOf(r) + Contribution(r) - mem[w].seen.coll
                          - PnlAt(r, mem[w].price)),
               ![w].contributed = Contribution(r)]
    /\ Next1(w, IF w = "sweep" THEN "pick" ELSE "gap")
    /\ UNCHANGED <<mark, ranks, ranker, reduced, lost, counters>>

-----------------------------------------------------------------------------
(* liquidate_one: the worst position of a unified account, then its gap. *)

\* A user has one position here: reading and ranking them is choosing it.
LiquidateOne(u) ==
    /\ IsOpen(u)
    /\ mem' = [mem EXCEPT !["risk"] = [Clear EXCEPT !.user = u, !.seen = row[u], !.price = mark]]
    /\ Next1("risk", "lock")

\* The payout is looked up by the type of the fund's transaction; the type says
\* "payout" only when there was no contribution.
RecordedPayout(w) == IF mem[w].contributed > 0 THEN 0 ELSE cases[mem[w].user].paid

Gap ==
    LET gap == Floor0(mem["risk"].gap - RecordedPayout("risk")) IN
    /\ step["risk"] = "gap"
    /\ IF gap = 0 THEN Reset("risk")
       ELSE /\ mem' = [mem EXCEPT !["risk"].gap = gap,
                 !["risk"].list = SubSeq(ranks[Opp(row[mem["risk"].user].side)], 1,
                     Lower(MaxPerAdl, Len(ranks[Opp(row[mem["risk"].user].side)])))]
            /\ Next1("risk", "adl")
    /\ UNCHANGED <<rowsAndMoney, mark, fund, ranks, ranker, locked, cases, reduced, lost, counters>>

-----------------------------------------------------------------------------
(* execute_adl over the ranking as it was stored. *)

\* The share of the position that is reduced, in percent.
CutPct(need, pnl) == Higher(Lower((100 * Lower(need, pnl)) \div pnl, MaxCutPct), MinCutPct)

\* Mutated: the update does not look at the status.
ReduceAnyway(u) == TRUE
ReduceGuard(u) == IsOpen(u)

Covered(need) == need <= 0

AdlDone ==
    /\ step["risk"] = "adl"
    /\ Covered(mem["risk"].gap) \/ mem["risk"].list = << >>
    /\ Reset("risk")
    /\ UNCHANGED <<rowsAndMoney, mark, fund, ranks, ranker, locked, cases, reduced, lost, counters>>

\* The row gets the ranking's size and collateral less the cut, whatever it holds now.
AdlReduce ==
    LET l   == mem["risk"]
        e   == Head(l.list)
        cut == CutPct(l.gap, e.pnl)
        coll == e.size \div Leverage
    IN
    /\ step["risk"] = "adl" /\ ~Covered(l.gap) /\ l.list # << >>
    /\ e.user \notin locked
    /\ IF ReduceGuard(e.user)
       THEN /\ row' = [row EXCEPT ![e.user] =
                 IF cut = 100
                 THEN [@ EXCEPT !.status = "closed", !.tokens = 0, !.size = 0, !.coll = 0]
                 ELSE [@ EXCEPT !.size = e.size - Pct(e.size, cut),
                                !.coll = coll - Pct(coll, cut)]]
            /\ lost' = IF row[e.user].size # e.size THEN lost \cup {"stale rank"} ELSE lost
            /\ Next1("risk", "adlpay") /\ UNCHANGED mem
       ELSE /\ mem' = [mem EXCEPT !["risk"].list = Tail(@)]
            /\ UNCHANGED <<row, step, lost>>
    /\ UNCHANGED <<avail, hold, mark, fund, ranks, ranker, locked, cases, reduced, counters>>

AdlPay ==
    LET l   == mem["risk"]
        e   == Head(l.list)
        cut == CutPct(l.gap, e.pnl)
        coll == Pct(e.size \div Leverage, cut)
        took == Pct(e.pnl, cut)
    IN
    /\ step["risk"] = "adlpay"
    /\ Settle(e.user, coll, Floor0(coll + took - Lower(l.gap, e.pnl)))
    /\ reduced' = Append(reduced, [victim |-> l.user, user |-> e.user, need |-> l.gap])
    /\ cases' = [cases EXCEPT ![l.user].taken = @ + took]
    /\ mem' = [mem EXCEPT !["risk"].gap = @ - took, !["risk"].list = Tail(@)]
    /\ Next1("risk", "adl")
    /\ UNCHANGED <<row, mark, fund, ranks, ranker, locked, lost, counters>>

-----------------------------------------------------------------------------
(* The ranking task. *)

\* The profit of a ranked position is a price difference times its size in USD.
RankPnl(r) ==
    LET entry == r.size \div r.tokens IN
    IF r.side = "long" THEN (mark - entry) * r.size ELSE (entry - mark) * r.size

RankRead ==
    /\ ~ranker.busy /\ ranker.runs < MaxRankings
    /\ ranker' = [busy |-> TRUE, runs |-> ranker.runs + 1, seen |->
         {[user |-> u, side |-> row[u].side, size |-> row[u].size, pnl |-> RankPnl(row[u]),
           score |-> (100 * RankPnl(row[u])) \div Higher(row[u].coll, 1)] :
             u \in {x \in Users : IsOpen(x) /\ row[x].tokens > 0 /\ RankPnl(row[x]) > 0}}]
    /\ UNCHANGED <<rowsAndMoney, mark, fund, ranks, locked, step, mem, cases, reduced, lost, counters>>

Ordered(s) == \A i, j \in DOMAIN s : i < j => s[i].score >= s[j].score

\* Mutated: the new ranking is added to the old one.
Appended(new) == [s \in {"long", "short"} |-> ranks[s] \o new[s]]
Replaced(new) == new

RankWrite ==
    /\ ranker.busy
    /\ \E long \in SetToSeqs({e \in ranker.seen : e.side = "long"}),
          short \in SetToSeqs({e \in ranker.seen : e.side = "short"}) :
         /\ Ordered(long) /\ Ordered(short)
         /\ ranks' = Replaced([s \in {"long", "short"} |-> IF s = "long" THEN long ELSE short])
    /\ ranker' = [ranker EXCEPT !.busy = FALSE, !.seen = {}]
    /\ UNCHANGED <<rowsAndMoney, mark, fund, locked, step, mem, cases, reduced, lost, counters>>

\* The process stops: transactions roll back, what was still to follow is lost.
LiqCrash(more) ==
    /\ crashes < MaxCrashes /\ crashes' = crashes + 1
    /\ locked' = {}
    /\ step' = [w \in Liquidators |-> "idle"] /\ mem' = [w \in Liquidators |-> Clear]
    /\ ranker' = [ranker EXCEPT !.busy = FALSE, !.seen = {}]
    /\ lost' = lost \cup more
                 \cup (IF step["risk"] \in {"gap", "adl", "adlpay"} THEN {"gap"} ELSE {})
    /\ UNCHANGED <<rowsAndMoney, mark, fund, ranks, cases, reduced, marks, closes>>
-----------------------------------------------------------------------------
(* Properties. *)

\* A position that was closed, by its owner, by ADL or by a liquidation, is never
\* touched again: neither by a liquidation that listed it before nor by an ADL
\* that follows an old ranking.
ClosedStaysClosed == [][\A u \in Users : ~IsOpen(u) => row'[u] = row[u]]_liqVars

\* The insurance fund is not overdrawn, although a liquidation reads it outside its
\* transaction: two payouts, however they overlap, are at most half of it each.
\* (A third one can: nothing looks at the balance when it is written.)
FundNotOverdrawn ==
    /\ fund.balance = FundSeed + fund.in - fund.out
    /\ Cardinality({u \in Users : cases[u].paid > 0}) <= 2 => fund.balance >= 0

\* ADL takes from a user once per liquidation, however old the ranking is.
ReducedOncePerCase == \A i, j \in DOMAIN reduced :
    reduced[i].victim = reduced[j].victim /\ reduced[i].user = reduced[j].user => i = j

\* An isolated position that has to be liquidated is closed, unless the price or
\* its owner rescue it: the sweep comes round again after whatever fails.
UnderwaterIsClosed == \A u \in Users \ Unified :
    LET under == IsOpen(u) /\ ShouldLiquidateAt(row[u], mark) IN under ~> ~under

\* "The residual that ADL must cover is max(0, shortfall - cap)": the fund and ADL
\* together are not asked for more than was missing.  (Not so: what the fund paid is
\* not found.)
AskedForTheGap ==
    step["risk"] = "adl" /\ reduced = << >> =>
        mem["risk"].gap + cases[mem["risk"].user].paid <=
            Floor0(LiqFeeOf(mem["risk"].seen) + mem["risk"].contributed
                   - RemainingAt(mem["risk"].seen, mem["risk"].price))
\* One case takes from the others once and no more than is there: from the fund
\* and from each user ADL reduces.
CoveredOnce == FundNotOverdrawn /\ ReducedOncePerCase
=============================================================================
