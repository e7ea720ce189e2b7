--------------------------------- MODULE Earn ---------------------------------
(***************************************************************************)
(* One fixed-term plan of the earn service (services/earn/mod.rs and       *)
(* settlement.rs, api/handlers/earn.rs).  The contract keeps the plan; the *)
(* database mirrors it.  A scheduler and an administrator move the plan on *)
(* the chain first and write the row after; a listener books the events of *)
(* the contract, at least once each.                                       *)
(***************************************************************************)
EXTENDS Naturals, Sequences, FiniteSets

CONSTANTS
    Savers,      \* users
    Quota,       \* joins the plan has room for
    PerUser,     \* ... and of one user
    MaxJoins,    \* bound on the joins of a user
    MaxRequests, \* ... on the administrator's requests
    MaxHitches   \* ... and on errors, lost answers and restarts

VARIABLES
    contract,    \* the plan on the chain: status and what became of the principal
    emitted,     \* events of the contract, one a block
    clock,       \* 0 before the subscription, 1 in it, 2 after it, 3 settlement due
    product,     \* row of earn_products
    subs,        \* user -> row of earn_subscriptions
    claimed,     \* earn_processed_events: blocks of the events booked
    settlements, \* rows of earn_settlements
    signed,      \* users that hold an unused signature
    sched,       \* the scheduler: stage and step
    admin,       \* the administrator's request
    reader,      \* the listener: cursor, window, events still to handle
    cursor,      \* its saved cursor
    requests, hitches,
    ignored,     \* history: events whose handling failed or found no product
    drift        \* history: ways in which the row left the chain

earnVars == <<contract, emitted, clock, product, subs, claimed, settlements, signed, sched, admin,
              reader, cursor, requests, hitches, ignored, drift>>
onChain == <<contract, emitted>>
booked == <<subs, claimed, settlements>>
counts == <<requests, hitches>>

Stages == <<"open", "activate", "close">>
From == [open |-> "created", activate |-> "subscribing", close |-> "active"]
To == [open |-> "subscribing", activate |-> "active", close |-> "settled"]
Due == [open |-> 1, activate |-> 2, close |-> 3]
Rank == [none |-> 0, created |-> 1, subscribing |-> 2, active |-> 3, settled |-> 4]

NoSub == [status |-> "none", amount |-> 0]
NoRequest == [pc |-> "idle"]
Stopped == [stage |-> 1, pc |-> "list"]

EarnInit ==
    /\ contract = [status |-> "none", principal |-> "kept"] /\ emitted = <<>> /\ clock = 0
    /\ product = [status |-> "none", total |-> 0]
    /\ subs = [u \in Savers |-> NoSub] /\ claimed = {} /\ settlements = 0 /\ signed = {}
    /\ sched = Stopped /\ admin = NoRequest
    /\ reader = [pc |-> "idle", at |-> 0, to |-> 0, todo |-> {}] /\ cursor = 0
    /\ requests = 0 /\ hitches = 0 /\ ignored = {} /\ drift = {}

Hitch == hitches < MaxHitches /\ hitches' = hitches + 1

----------------------------------------------------------------------------
(* The contract, and time *)

Emit(kind, user) == emitted' = Append(emitted, [kind |-> kind, user |-> user])

\* openPlan, activatePlan and closePlan.
Accepts(s) == contract.status = From[s] /\ (s = "close" => contract.principal # "sent")
Moved(s) ==
    /\ contract' = [contract EXCEPT !.status = To[s]]
    /\ IF s = "close" THEN Emit("closed", "") ELSE UNCHANGED emitted

\* What becomes of a call.  One the contract would not accept is refused before it
\* is sent, or it was sent in time, another call came first and it is reverted.
Outcomes(s) == IF Accepts(s) THEN {"done"} ELSE {"refused", "reverted"}
Called(s, outcome) == IF outcome = "done" THEN Moved(s) ELSE UNCHANGED onChain
Noted(outcome) == drift' = drift \cup (IF outcome = "reverted" THEN {outcome} ELSE {})

Pass ==
    /\ clock < 3 /\ clock' = clock + 1
    /\ UNCHANGED <<onChain, product, booked, signed, sched, admin, reader, cursor, counts, ignored,
                   drift>>

Joins(u) == {b \in DOMAIN emitted : emitted[b] = [kind |-> "joined", user |-> u]}

Join(u) ==
    /\ u \in signed /\ contract.status = "subscribing" /\ Cardinality(Joins(u)) < MaxJoins
    /\ signed' = signed \ {u} /\ Emit("joined", u)
    /\ UNCHANGED <<contract, clock, product, booked, sched, admin, reader, cursor, counts, ignored, drift>>

HasLeft(u) == \E b \in DOMAIN emitted : emitted[b] = [kind |-> "redeemed", user |-> u]
Leave(u) ==
    /\ contract.status = "settled" /\ Joins(u) # {} /\ ~HasLeft(u)
    /\ Emit("redeemed", u)
    /\ UNCHANGED <<contract, clock, product, booked, signed, sched, admin, reader, cursor, counts,
                   ignored, drift>>

\* The principal goes to the treasury; later the returns are paid in.
MovePrincipal ==
    /\ contract.status = "active" /\ contract.principal # "funded"
    /\ contract' = [contract EXCEPT !.principal = IF @ = "kept" THEN "sent" ELSE "funded"]
    /\ UNCHANGED <<emitted, clock, product, booked, signed, sched, admin, reader, cursor, counts,
                   ignored, drift>>

----------------------------------------------------------------------------
(* prepare_join_plan: a signature while the row says so and there is room. *)

PrepareJoin(u) ==
    /\ product.status = "subscribing" /\ clock = 1
    /\ subs[u].amount < PerUser /\ product.total < Quota
    /\ u \notin signed /\ signed' = signed \cup {u}
    /\ UNCHANGED <<onChain, clock, product, booked, sched, admin, reader, cursor, counts, ignored,
                   drift>>

----------------------------------------------------------------------------
(* check_and_process_products: stage by stage, the call on the chain, then the *)
(* row.  An error of a statement ends the round; a restart ends it anywhere.   *)

Stage == Stages[sched.stage]
Onto(n) == [stage |-> IF n > 3 THEN 1 ELSE n, pc |-> "list"]

SchedList ==
    /\ sched.pc = "list"
    /\ sched' = IF product.status = From[Stage] /\ clock >= Due[Stage]
                THEN [sched EXCEPT !.pc = "call"] ELSE Onto(sched.stage + 1)
    /\ UNCHANGED <<onChain, clock, product, booked, signed, admin, reader, cursor, counts, ignored,
                   drift>>

\* Mutated: the row is written although the call was refused.
WriteAnyway(outcome) == TRUE
\* Any mined call is followed by the row: the status of a receipt is not read.
WritesRow(outcome) == outcome # "refused"

SchedCall ==
    /\ sched.pc = "call"
    /\ \E outcome \in Outcomes(Stage) :
          /\ Called(Stage, outcome) /\ Noted(outcome)
          /\ sched' = IF WritesRow(outcome) THEN [sched EXCEPT !.pc = "write"] ELSE Onto(sched.stage + 1)
    /\ UNCHANGED <<clock, product, booked, signed, admin, reader, cursor, counts, ignored>>

\* The transaction is mined but its answer does not come back: an error.
SchedCallLost ==
    /\ sched.pc = "call" /\ Accepts(Stage) /\ Moved(Stage) /\ Hitch
    /\ sched' = Onto(sched.stage + 1)
    /\ drift' = drift \cup {"cut"}
    /\ UNCHANGED <<clock, product, booked, signed, admin, reader, cursor, requests, ignored>>

\* UPDATE ... WHERE id: whatever the row says by now.
Overwrites(expected) == IF product.status # expected THEN {"overwritten"} ELSE {}

\* 'activate' also moves subscriptions that are 'created'; none ever is.
SchedWrite ==
    /\ sched.pc = "write"
    /\ product' = [product EXCEPT !.status = To[Stage]]
    /\ drift' = drift \cup (IF product.status = "settled" THEN {} ELSE Overwrites(From[Stage]))
    /\ sched' = IF Stage = "close" THEN [sched EXCEPT !.pc = "mature"] ELSE Onto(sched.stage + 1)
    /\ UNCHANGED <<onChain, clock, booked, signed, admin, reader, cursor, counts, ignored>>

Matured == [u \in Savers |-> IF subs[u].status = "none" THEN subs[u]
                             ELSE [subs[u] EXCEPT !.status = "matured"]]
SchedMature ==
    /\ sched.pc = "mature"
    /\ subs' = Matured
    /\ drift' = IF \E u \in Savers : subs[u].status = "redeemed" THEN drift \cup {"late"} ELSE drift
    /\ sched' = Onto(4)
    /\ UNCHANGED <<onChain, clock, product, claimed, settlements, signed, admin, reader, cursor, counts,
                   ignored>>

SchedFails ==
    /\ sched.pc \in {"write", "mature"} /\ Hitch
    /\ sched' = Stopped
    /\ drift' = IF sched.pc = "write" THEN drift \cup {"cut"} ELSE drift
    /\ UNCHANGED <<onChain, clock, product, booked, signed, admin, reader, cursor, requests, ignored>>

----------------------------------------------------------------------------
(* The administrator: admin_create_plan, and status changes *)

AdminCreate ==
    /\ admin.pc = "idle" /\ contract.status = "none" /\ requests < MaxRequests
    /\ requests' = requests + 1
    /\ contract' = [contract EXCEPT !.status = "created"] /\ Emit("created", "")
    /\ admin' = [pc |-> "open"]
    /\ UNCHANGED <<clock, product, booked, signed, sched, reader, cursor, hitches, ignored, drift>>

\* openPlan at once; before its time the contract may reject it.
AdminOpen ==
    /\ admin.pc = "open"
    /\ \E outcome \in Outcomes("open") \cup (IF clock = 0 THEN {"refused"} ELSE {}) :
          /\ Called("open", outcome) /\ Noted(outcome)
          /\ admin' = [pc |-> "insert", opened |-> WritesRow(outcome)]
    /\ UNCHANGED <<clock, product, booked, signed, sched, reader, cursor, counts, ignored>>

\* INSERT ... ON CONFLICT DO UPDATE leaves the status of a row the listener made.
AdminInsert ==
    /\ admin.pc = "insert"
    /\ product' = IF product.status = "none" THEN [product EXCEPT !.status = "created"] ELSE product
    /\ admin' = IF admin.opened THEN [pc |-> "read", want |-> "subscribing"] ELSE NoRequest
    /\ UNCHANGED <<onChain, clock, booked, signed, sched, reader, cursor, counts, ignored, drift>>

Wishes == {"subscribing", "active", "settled", "ended", "cancelled"}

\* admin_update_status and admin_close_plan: the chain first, where the status has
\* a call ('settled' has none), and before the transition is looked at.
AdminAsks(want) ==
    LET calls == {s \in {"open", "activate"} : To[s] = want} IN
    /\ admin.pc = "idle" /\ product.status # "none" /\ requests < MaxRequests
    /\ requests' = requests + 1
    /\ \/ calls = {} /\ UNCHANGED <<onChain, drift>>
       \/ \E s \in calls : \E outcome \in Outcomes(s) :
             WritesRow(outcome) /\ Called(s, outcome) /\ Noted(outcome)
    /\ admin' = [pc |-> "read", want |-> want]
    /\ UNCHANGED <<clock, product, booked, signed, sched, reader, cursor, hitches, ignored>>

Transitions ==
    {<<"created", "subscribing">>, <<"subscribing", "active">>, <<"active", "settled">>,
     <<"settled", "ended">>} \cup ({"created", "subscribing", "active"} \X {"cancelled"})
IsAllowed(from, want) == <<from, want>> \in Transitions

\* update_plan_status: read and check, then write.
AdminReads ==
    /\ admin.pc = "read"
    /\ IF IsAllowed(product.status, admin.want)
       THEN admin' = [pc |-> "write", want |-> admin.want, saw |-> product.status] /\ UNCHANGED drift
       ELSE /\ admin' = NoRequest
            /\ drift' = IF admin.want \in {"subscribing", "active"} THEN drift \cup {"cut"} ELSE drift
    /\ UNCHANGED <<onChain, clock, product, booked, signed, sched, reader, cursor, counts, ignored>>

AdminWrites ==
    /\ admin.pc = "write"
    /\ product' = [product EXCEPT !.status = admin.want]
    /\ drift' = drift \cup Overwrites(admin.saw)
                  \cup (IF admin.want \in {"settled", "ended", "cancelled"} THEN {"manual"} ELSE {})
    /\ admin' = NoRequest
    /\ UNCHANGED <<onChain, clock, booked, signed, sched, reader, cursor, counts, ignored>>

----------------------------------------------------------------------------
(* The listener: poll_events and the handlers *)

\* The logs of a window, fetched and handled kind by kind.
EventKinds == [created |-> 1, joined |-> 2, closed |-> 3, redeemed |-> 4]
KindOf(b) == EventKinds[emitted[b].kind]
Precedes(b, c) == KindOf(b) < KindOf(c) \/ (KindOf(b) = KindOf(c) /\ b < c)
IsNext(b) == b \in reader.todo /\ \A c \in reader.todo \ {b} : Precedes(b, c)
NextEvents == (reader.at + 1) .. Len(emitted)

Poll ==
    /\ reader.pc = "idle" /\ NextEvents # {}
    /\ reader' = [reader EXCEPT !.pc = "run", !.to = Len(emitted), !.todo = NextEvents]
    /\ UNCHANGED <<onChain, clock, product, booked, signed, sched, admin, cursor, counts, ignored, drift>>

\* Mutated: an event that was booked is booked again.
AlwaysNew(b) == TRUE
\* INSERT INTO earn_processed_events ... ON CONFLICT DO NOTHING.
IsUnclaimed(b) == b \notin claimed

BookJoin(b, u) ==
    /\ claimed' = claimed \cup {b}
    /\ subs' = [subs EXCEPT ![u] = [status |-> IF @.status = "none" THEN "active" ELSE @.status,
                                    amount |-> @.amount + 1]]
    /\ product' = [product EXCEPT !.total = @ + 1]
    /\ UNCHANGED settlements

BookClose(b) ==
    /\ claimed' = claimed \cup {b}
    /\ settlements' = settlements + 1
    /\ product' = [product EXCEPT !.status = "settled"]
    /\ subs' = Matured

BookLeave(u) ==
    /\ subs' = [subs EXCEPT ![u].status = IF @ = "none" THEN @ ELSE "redeemed"]
    /\ UNCHANGED <<product, claimed, settlements>>

Known == product.status # "none"

HandleEvent(b) ==
    LET e == emitted[b] IN
    /\ reader.pc = "run" /\ IsNext(b)
    /\ CASE e.kind = "created" ->
              /\ product' = IF Known THEN product ELSE [product EXCEPT !.status = "created"]
              /\ UNCHANGED booked
         [] e.kind = "joined" /\ Known /\ IsUnclaimed(b) -> BookJoin(b, e.user)
         [] e.kind = "closed" /\ Known /\ IsUnclaimed(b) -> BookClose(b)
         [] e.kind = "redeemed" -> BookLeave(e.user)
         [] OTHER -> UNCHANGED <<product, booked>>
    /\ ignored' = IF e.kind \in {"joined", "closed"} /\ ~Known THEN ignored \cup {b} ELSE ignored
    /\ reader' = [reader EXCEPT !.todo = @ \ {b}]
    /\ UNCHANGED <<onChain, clock, signed, sched, admin, cursor, counts, drift>>

\* An error of a handler is logged; its transaction changed nothing.
HandleFails(b) ==
    /\ reader.pc = "run" /\ IsNext(b) /\ Hitch
    /\ ignored' = ignored \cup {b}
    /\ reader' = [reader EXCEPT !.todo = @ \ {b}]
    /\ UNCHANGED <<onChain, clock, product, booked, signed, sched, admin, cursor, requests, drift>>

\* A request for logs fails: the whole window is polled again.
PollFails ==
    /\ reader.pc = "run" /\ Hitch
    /\ reader' = [reader EXCEPT !.pc = "idle", !.todo = {}]
    /\ UNCHANGED <<onChain, clock, product, booked, signed, sched, admin, cursor, requests, ignored,
                   drift>>

\* The cursor moves in memory, then in the table; a failed save is ignored.
PollEnds ==
    /\ reader.pc = "run" /\ reader.todo = {}
    /\ reader' = [reader EXCEPT !.pc = "idle", !.at = reader.to]
    /\ \/ cursor' = reader.to /\ UNCHANGED hitches
       \/ Hitch /\ UNCHANGED cursor
    /\ UNCHANGED <<onChain, clock, product, booked, signed, sched, admin, requests, ignored, drift>>

EarnRestart ==
    /\ Hitch
    /\ sched' = Stopped /\ admin' = NoRequest
    /\ reader' = [pc |-> "idle", at |-> cursor, to |-> cursor, todo |-> {}]
    /\ drift' = drift \cup (IF sched.pc = "write" THEN {"cut"} ELSE {})
                  \cup (IF \/ admin.pc \in {"read", "write"} /\ admin.want \in {"subscribing", "active"}
                           \/ admin.pc = "insert" /\ admin.opened
                        THEN {"cut"} ELSE {})
    /\ UNCHANGED <<onChain, clock, product, booked, signed, cursor, requests, ignored>>

----------------------------------------------------------------------------
EarnNext ==
    \/ Pass \/ MovePrincipal \/ \E u \in Savers : PrepareJoin(u) \/ Join(u) \/ Leave(u)
    \/ SchedList \/ SchedCall \/ SchedCallLost \/ SchedWrite \/ SchedMature \/ SchedFails
    \/ AdminCreate \/ AdminOpen \/ AdminInsert \/ (\E w \in Wishes : AdminAsks(w))
    \/ AdminReads \/ AdminWrites
    \/ Poll \/ (\E b \in reader.todo : HandleEvent(b) \/ HandleFails(b)) \/ PollFails \/ PollEnds \/ EarnRestart

EarnSpec == EarnInit /\ [][EarnNext]_earnVars

----------------------------------------------------------------------------
(* Properties *)

\* "Must not set subscribing without on-chain sync": the row never runs ahead of
\* the chain, with a scheduler, an administrator and a listener that write it, and
\* whatever answer is lost, unless a call was reverted on the chain, or the
\* administrator settles, ends or cancels the plan.
NeverAhead ==
    drift \cap {"manual", "reverted"} = {} => Rank[product.status] <= Rank[contract.status]

Quiet == sched.pc = "list" /\ admin.pc = "idle" /\ reader.pc = "idle" /\ reader.at = Len(emitted)

\* ... nor behind it for longer than the steps under way, unless a call went through
\* whose row was not written: the next round's call is then refused for ever (a
\* closed plan is still healed by its event).
StatusFollows ==
    Quiet /\ ignored = {} /\ drift \cap {"manual", "reverted", "cut", "overwritten"} = {} =>
        product.status = contract.status

\* What a user is booked with is what the contract took, each join once, however
\* often its window is polled again; between windows no join is missing but those
\* whose handling failed.
EachJoinOnce ==
    /\ \A u \in Savers : subs[u].amount = Cardinality(Joins(u) \cap claimed)
    /\ product.total = Cardinality((UNION {Joins(u) : u \in Savers}) \cap claimed)
    /\ reader.pc = "idle" =>
          \A u \in Savers : \A b \in Joins(u) : b <= reader.at => b \in claimed \cup ignored

\* A plan has one settlement, and what a user took out stays taken out: neither
\* the close event, polled again after the redemption, nor the scheduler's late
\* statement makes it payable again (the latter only in its named window).
SettledOnce ==
    /\ settlements <= 1
    /\ "late" \notin drift /\ reader.pc = "idle" =>
          \A b \in 1 .. reader.at : emitted[b].kind = "redeemed" /\ b \notin ignored
              /\ subs[emitted[b].user].status # "none" => subs[emitted[b].user].status = "redeemed"

\* The database follows the contract.
EarnFollows == NeverAhead /\ StatusFollows /\ EachJoinOnce /\ SettledOnce

\* Not so: "Trigger closePlan (settlement)".  The administrator's settle writes the
\* row only; the plan stays active on the chain and the scheduler no longer lists it.
SettleClosesPlan == product.status = "settled" => contract.status = "settled"
=============================================================================
