------------------------------- MODULE Points -------------------------------
(* Points within one epoch: for trades (tp, with a daily and a weekly limit),  *)
(* closed positions (pp) and open ones (hp), each with a daily limit, and once *)
(* for both sides of a referral (rp).                                          *)
(*                                                                             *)
(* Two tellers award the points of every trade: a worker that hears the match, *)
(* and a task started when the trade is persisted.  Each reads what the user   *)
(* has earned, decides, and writes in a transaction of its own.                *)
EXTENDS Naturals, Sequences, FiniteSets, Functions

CONSTANTS
    Users,
    Deals, MakerOf, TakerOf,   \* trades and their sides
    Closes, CloserOf,          \* positions closed and their owners
    Holders,                   \* the owners of the open positions, in order
    ReferrerOf,                \* user -> referrer, or NoReferrer
    NoReferrer,
    DayCap, WeekCap, RpCap,    \* limits: of tp, pp and hp by day, of tp by week, of rp
    RpAmount,                  \* what each side of a referral gets
    RawPoints,                 \* what one trade, close or hour is worth
    LastDay,                   \* bound: days
    WeekOf, YearOf,            \* the week number and the year of a day
    MaxBatches,                \* bound: runs of the hourly batch
    MaxMishaps                 \* bound: failed transactions and skipped messages

Kinds == {"tp", "pp", "hp"}
Tellers == {"worker", "batch"} \cup Deals \cup Closes

\* Nobody enters a code of his own.
ASSUME PointsAssumption ==
    /\ MakerOf \in [Deals -> Users] /\ TakerOf \in [Deals -> Users] /\ CloserOf \in [Closes -> Users]
    /\ Holders \in Seq(Users) /\ ReferrerOf \in [Users -> Users \cup {NoReferrer}]
    /\ NoReferrer \notin Users /\ \A u \in Users : ReferrerOf[u] # u
ASSUME LimitAssumption ==
    /\ DayCap \in [Kinds -> Nat] /\ WeekCap \in Nat /\ RpCap \in Nat /\ RpAmount \in Nat
    /\ RawPoints \subseteq Nat
\* The days come one after the other, fewer than bring a week's number back.
ASSUME CalendarAssumption ==
    /\ LastDay \in Nat \ {0}
    /\ WeekOf \in [1..LastDay -> Nat] /\ YearOf \in [1..LastDay -> Nat]
    /\ \A d, e, f \in 1..LastDay : d <= e /\ e <= f /\ WeekOf[d] = WeekOf[f] => WeekOf[e] = WeekOf[d]

VARIABLES
    today,
    summary,    \* user_points_summary: used and when it was reset, by kind
    rpUsed,     \* its rp_daily_used, which nothing resets
    triggered,  \* rp_trigger_events: referees
    heard,      \* the broadcast to the worker
    deal,       \* trade -> "new", "matched", "saved"
    closed,     \* positions closed
    teller,     \* who is awarding what
    batches,
    awards,     \* points_events of tp, pp and hp (history)
    overlapped, \* users and kinds awarded by two tellers at a time (history)
    mishaps

pointsVars == <<today, summary, rpUsed, triggered, heard, deal, closed, teller, batches,
                awards, overlapped, mishaps>>
ledger == <<summary, rpUsed, triggered, awards>>
outside == <<today, heard, deal, closed, batches>>

NeverReset == 0
Fresh == [used |-> 0, day |-> NeverReset, week |-> 0, weekDay |-> NeverReset]
AtRest == [duties |-> <<>>, pc |-> "look", seen |-> Fresh, points |-> 0, paid |-> 0]

PointsInit ==
    /\ today = 1 /\ summary = [u \in Users |-> [k \in Kinds |-> Fresh]]
    /\ rpUsed = [u \in Users |-> 0] /\ triggered = {}
    /\ heard = <<>> /\ deal = [t \in Deals |-> "new"] /\ closed = {}
    /\ teller = [p \in Tellers |-> AtRest] /\ batches = 0
    /\ awards = [u \in Users |-> [k \in Kinds |-> [d \in 1..LastDay |-> 0]]]
    /\ overlapped = {} /\ mishaps = 0

Least(a, b) == IF a < b THEN a ELSE b
Less(a, b) == IF a > b THEN a - b ELSE 0
Mishap == mishaps < MaxMishaps /\ mishaps' = mishaps + 1
NoMishap == UNCHANGED mishaps

-----------------------------------------------------------------------------
(* What there is to award.  A failed award is logged; the next one follows.    *)

Duty(k, u) == [kind |-> k, user |-> u]
DealDuties(t) == << Duty("tp", MakerOf[t]), Duty("tp", TakerOf[t]),
                    Duty("rp", MakerOf[t]), Duty("rp", TakerOf[t]) >>

Now(p) == Head(teller[p].duties)
At(p, pc, kinds) == teller[p].duties # <<>> /\ teller[p].pc = pc /\ Now(p).kind \in kinds
Proceed(p, rest) == teller' = [teller EXCEPT ![p] = [AtRest EXCEPT !.duties = rest]]
NextDuty(p) == Proceed(p, Tail(teller[p].duties))
Busy(p) == teller[p].duties # <<>>

Match(t) ==
    /\ deal[t] = "new"
    /\ deal' = [deal EXCEPT ![t] = "matched"] /\ heard' = Append(heard, t)
    /\ UNCHANGED <<today, closed, batches, ledger, teller, overlapped, mishaps>>

\* The worker takes its messages one by one; one that it is too slow for is skipped.
Hear ==
    /\ heard # <<>> /\ ~Busy("worker")
    /\ heard' = Tail(heard)
    /\ \/ Proceed("worker", DealDuties(Head(heard))) /\ NoMishap
       \/ Mishap /\ UNCHANGED teller
    /\ UNCHANGED <<today, deal, closed, batches, ledger, overlapped>>

\* handle_trade_event, after the trade is persisted: nothing for a trade with oneself.
Saved(t) ==
    /\ deal[t] = "matched"
    /\ deal' = [deal EXCEPT ![t] = "saved"]
    /\ IF MakerOf[t] = TakerOf[t] THEN UNCHANGED teller ELSE Proceed(t, DealDuties(t))
    /\ UNCHANGED <<today, heard, closed, batches, ledger, overlapped, mishaps>>

ClosePosition(c) ==
    /\ c \notin closed
    /\ closed' = closed \cup {c}
    /\ Proceed(c, << Duty("pp", CloserOf[c]) >>)
    /\ UNCHANGED <<today, heard, deal, batches, ledger, overlapped, mishaps>>

\* The hourly scheduler runs one batch at a time.
Batch ==
    /\ batches < MaxBatches /\ ~Busy("batch")
    /\ batches' = batches + 1
    /\ Proceed("batch", [i \in DOMAIN Holders |-> Duty("hp", Holders[i])])
    /\ UNCHANGED <<today, heard, deal, closed, ledger, overlapped, mishaps>>

Midnight ==
    /\ today < LastDay
    /\ today' = today + 1
    /\ UNCHANGED <<heard, deal, closed, batches, ledger, teller, overlapped, mishaps>>

-----------------------------------------------------------------------------
(* tp, pp and hp. *)

Others(p, k, u, pcs) == {q \in Tellers \ {p} : \E pc \in pcs : At(q, pc, {k}) /\ Now(q).user = u}

\* get_or_create_user_summary.
Look(p) ==
    /\ At(p, "look", Kinds)
    /\ LET u == Now(p).user  k == Now(p).kind IN
       /\ teller' = [teller EXCEPT ![p].pc = "decide", ![p].seen = summary[u][k]]
       /\ overlapped' = overlapped \cup
            (IF Others(p, k, u, {"decide", "write"}) # {} THEN {<<u, k>>} ELSE {})
    /\ UNCHANGED <<outside, ledger, mishaps>>

UsedToday(s) == IF s.day = today THEN s.used ELSE 0
\* The program compares the number of the week and the year of the date.
UsedThisWeek(s) ==
    IF s.weekDay # NeverReset /\ WeekOf[s.weekDay] = WeekOf[today] /\ YearOf[s.weekDay] = YearOf[today]
    THEN s.week ELSE 0
Allowed(k, s, raw) ==
    LET byDay == Least(raw, Less(DayCap[k], UsedToday(s)))
    IN IF k = "tp" THEN Least(byDay, Less(WeekCap, UsedThisWeek(s))) ELSE byDay

\* What is left of the limits by what was read.  Trades are written even if they
\* earn nothing, with the counters they leave; the others end here.
Decide(p) ==
    /\ At(p, "decide", Kinds)
    /\ \E raw \in RawPoints :
         LET k == Now(p).kind  s == teller[p].seen  n == Allowed(k, s, raw) IN
         IF k # "tp" /\ n = 0 THEN NextDuty(p)
         ELSE teller' = [teller EXCEPT ![p].pc = "write", ![p].points = n,
                                       ![p].seen.used = UsedToday(s) + n,
                                       ![p].seen.week = UsedThisWeek(s) + n]
    /\ UNCHANGED <<outside, ledger, overlapped, mishaps>>

\* Mutated: the counter of the day is replaced where it should be added to.
WrittenOver(k, s, job) ==
    IF k = "tp"
    THEN [used |-> job.seen.used, day |-> today, week |-> job.seen.week,
          weekDay |-> IF s.weekDay # NeverReset /\ WeekOf[s.weekDay] = WeekOf[today]
                      THEN s.weekDay ELSE today]
    ELSE [s EXCEPT !.used = job.points, !.day = today]

\* The counters of trades are set to what was decided; the others are added to, or
\* reset if it is another day.
Written(k, s, job) ==
    IF k = "tp"
    THEN [used |-> job.seen.used, day |-> today, week |-> job.seen.week,
          weekDay |-> IF s.weekDay # NeverReset /\ WeekOf[s.weekDay] = WeekOf[today]
                      THEN s.weekDay ELSE today]
    ELSE [s EXCEPT !.used = IF s.day < today THEN job.points ELSE @ + job.points, !.day = today]

\* The event and the summary, in one transaction.  An error ends the whole batch.
Write(p) ==
    /\ At(p, "write", Kinds)
    /\ LET u == Now(p).user  k == Now(p).kind IN
       \/ /\ summary' = [summary EXCEPT ![u][k] = Written(k, @, teller[p])]
          /\ awards' = [awards EXCEPT ![u][k][today] = @ + teller[p].points]
          /\ NextDuty(p) /\ NoMishap
       \/ /\ Mishap /\ UNCHANGED <<summary, awards>>
          /\ IF k = "hp" THEN Proceed(p, <<>>) ELSE NextDuty(p)
    /\ UNCHANGED <<outside, rpUsed, triggered, overlapped>>

-----------------------------------------------------------------------------
(* rp: once for a referee, to both sides. *)

Open == {"opened", "paying"}
Payees(p) == {Now(p).user, ReferrerOf[Now(p).user]}
InTx == {p \in Tellers : \E pc \in Open : At(p, pc, {"rp"})}
Share(used) == Least(RpAmount, Less(RpCap, used))

\* check_and_trigger_rp before its transaction; an old relation or a small trade
\* earns nothing.
Check(p) ==
    /\ At(p, "look", {"rp"})
    /\ \/ NextDuty(p)
       \/ /\ Now(p).user \notin triggered /\ ReferrerOf[Now(p).user] # NoReferrer
          /\ teller' = [teller EXCEPT ![p].pc = "checked"]
    /\ UNCHANGED <<outside, ledger, overlapped, mishaps>>

\* The trigger row, unique for the referee: a second transaction waits for the first
\* and fails if that one committed.  Then what the referrer has used is read.
Trigger(p) ==
    /\ At(p, "checked", {"rp"})
    /\ \A q \in InTx : Now(q).user # Now(p).user
    /\ \/ /\ Now(p).user \notin triggered
          /\ teller' = [teller EXCEPT ![p].pc = "opened", ![p].points = Share(rpUsed[ReferrerOf[Now(p).user]])]
          /\ overlapped' = overlapped \cup
               {<<u, "rp">> : u \in Payees(p) \cap UNION {Payees(q) : q \in InTx}}
          /\ NoMishap
       \/ Now(p).user \in triggered /\ NextDuty(p) /\ NoMishap /\ UNCHANGED overlapped
       \/ Mishap /\ NextDuty(p) /\ UNCHANGED overlapped
    /\ UNCHANGED <<outside, ledger>>

\* A row of the summary is locked by who pays to it first.
Unlocked(p, u) == \A q \in InTx \ {p} : teller[q].pc = "paying" /\ teller[q].paid > 0 => ReferrerOf[Now(q).user] # u

PayReferrer(p) ==
    /\ At(p, "opened", {"rp"})
    /\ teller[p].points > 0 => Unlocked(p, ReferrerOf[Now(p).user])
    /\ teller' = [teller EXCEPT ![p].pc = "paying", ![p].paid = teller[p].points,
                                ![p].points = Share(rpUsed[Now(p).user])]
    /\ UNCHANGED <<outside, ledger, overlapped, mishaps>>

\* The referee's share and the commit.
PayReferee(p) ==
    /\ At(p, "paying", {"rp"})
    /\ teller[p].points > 0 => Unlocked(p, Now(p).user)
    /\ \/ /\ triggered' = triggered \cup {Now(p).user}
          /\ rpUsed' = [rpUsed EXCEPT ![ReferrerOf[Now(p).user]] = @ + teller[p].paid,
                                      ![Now(p).user] = @ + teller[p].points]
          /\ NoMishap
       \/ Mishap /\ UNCHANGED <<triggered, rpUsed>>
    /\ NextDuty(p)
    /\ UNCHANGED <<outside, summary, awards, overlapped>>

PointsNext ==
    \/ \E t \in Deals : Match(t) \/ Saved(t)
    \/ \E c \in Closes : ClosePosition(c)
    \/ Hear \/ Batch \/ Midnight
    \/ \E p \in Tellers : \/ Look(p) \/ Decide(p) \/ Write(p)
                          \/ Check(p) \/ Trigger(p) \/ PayReferrer(p) \/ PayReferee(p)

PointsSpec == PointsInit /\ [][PointsNext]_pointsVars

-----------------------------------------------------------------------------
DaysOf(w) == {d \in 1..LastDay : WeekOf[d] = w}
Week(u, w) == SumFunctionOnSet(awards[u]["tp"], DaysOf(w))
OneYear(D) == \A d, e \in D : YearOf[d] = YearOf[e]

\* Awards that do not overlap keep the limits: nobody earns more of a kind on a day
\* than its limit, across midnight too, nor more for trades in a week that lies in
\* one year, nor more for referrals altogether.  The hourly batch never overlaps.
LimitsHold == \A u \in Users :
    /\ \A k \in Kinds : \/ \A d \in 1..LastDay : awards[u][k][d] <= DayCap[k]
                        \/ <<u, k>> \in overlapped /\ k # "hp"
    /\ \/ \A d \in 1..LastDay : OneYear(DaysOf(WeekOf[d])) => Week(u, WeekOf[d]) <= WeekCap
       \/ <<u, "tp">> \in overlapped
    /\ rpUsed[u] <= RpCap \/ <<u, "rp">> \in overlapped
=============================================================================
