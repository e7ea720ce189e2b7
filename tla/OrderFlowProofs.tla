-------------------------- MODULE OrderFlowProofs --------------------------
(***************************************************************************)
(* Theorems about OrderFlow for every number of requests, orders, amounts, *)
(* cuts and restarts: every variable keeps its type, a cancel that was     *)
(* answered keeps its order out of the book for good, no row shows more    *)
(* lots filled than were traded, and the deposit covers what the account   *)
(* says, no less and no more, as long as nothing disturbed an order.       *)
(***************************************************************************)
EXTENDS OrderFlow, SumFacts, TLAPS

(***************************************************************************)
(* Types.                                                                  *)
(***************************************************************************)

LEMMA InitTypes == Init => TypeOK
BY AmountAssumption
DEF Init, TypeOK, StoreOK, RequestsOK, NoRow, NoReq, Row, Statuses, Locals, Labels

LEMMA ClampNat == ASSUME NEW n \in Int PROVE AtLeastZero(n) \in Nat
BY DEF AtLeastZero

LEMMA MarginNat == Margin \in Nat
BY AmountAssumption DEF Margin

LEMMA TimesNat == ASSUME NEW m \in Nat, NEW n \in Nat PROVE m * n \in Nat
OBVIOUS

LEMMA TimesInt == ASSUME NEW m \in Int, NEW n \in Int PROVE m * n \in Int
OBVIOUS

LEMMA QuotientInt == ASSUME NEW m \in Int, NEW n \in Nat, n # 0 PROVE m \div n \in Int
OBVIOUS

LEMMA RefundInt == ASSUME NEW row \in Row PROVE Refund(row) \in Int
<1>1. row.amount \in Nat /\ row.filled \in Nat /\ row.margin \in Nat
  BY DEF Row
<1>2. row.margin * (row.amount - row.filled) \in Int
  BY <1>1, TimesInt
<1>3. row.amount # 0 => (row.margin * (row.amount - row.filled)) \div row.amount \in Int
  BY <1>1, <1>2, QuotientInt
<1> QED BY <1>3 DEF Refund

\* What leaves the frozen margin, and what of it goes back to the user.
LEMMA ReleasedNat ==
  ASSUME NEW n \in Nat, NEW k \in Nat, NEW kind
  PROVE  Released(kind, n, k) \in Nat /\ Unused(Released(kind, n, k), k) \in Nat
<1>1. Released(kind, n, k) \in Nat
  BY MarginNat, TimesNat DEF Released
<1>2. k * Collateral \in Nat
  BY AmountAssumption, TimesNat
<1> QED BY <1>1, <1>2, ClampNat DEF Unused

LEMMA MoveInt ==
  ASSUME NEW m \in Int, NEW n \in Int, Move(m, n), available \in Int, frozen \in Int
  PROVE  available' \in Int /\ frozen' \in Int
BY ClampNat DEF Move

\* A request moves to a label, and ends or changes its locals within their type.
LEMMA RequestMoves ==
  ASSUME RequestsOK, NEW r \in Requests, NEW l \in Labels, Goto(r, l),
         NEW q \in Locals, req' = [req EXCEPT ![r] = q],
         l \notin {"idle", "read"} => q.order \in Orders
  PROVE  RequestsOK'
BY DEF RequestsOK, Goto

LEMMA RequestEnds ==
  ASSUME RequestsOK, NEW r \in Requests, Finish(r)
  PROVE  RequestsOK'
<1>1. NoReq \in Locals
  BY DEF NoReq, Locals
<1>2. "idle" \in Labels
  BY DEF Labels
<1> QED BY <1>1, <1>2, RequestMoves DEF Finish

LEMMA RequestGoes ==
  ASSUME RequestsOK, NEW r \in Requests, NEW l \in Labels, Goto(r, l),
         pc[r] \notin {"idle", "read"}, UNCHANGED req
  PROVE  RequestsOK'
BY DEF RequestsOK, Goto

\* Each create request's step.
LEMMA CreateTypes ==
  ASSUME TypeOK, NEW r \in Requests,
         CreateStep(r) \/ \E o \in Orders, n \in Quantities, kind \in Kinds : Create(r, o, kind, n)
  PROVE  TypeOK'
<1> USE AmountAssumption
<1>1. CASE \E o \in Orders, n \in Quantities, kind \in Kinds : Create(r, o, kind, n)
  <2>1. PICK o \in Orders, n \in Quantities, kind \in Kinds : Create(r, o, kind, n)
    BY <1>1
  <2> DEFINE q == [NoReq EXCEPT !.order = o, !.amount = n, !.kind = kind]
  <2>2. q \in Locals /\ q.order \in Orders
    <3>1. n \in Nat /\ kind \in {"limit", "market"}
      BY <2>1
    <3>2. NoReq \in Locals
      BY DEF NoReq, Locals
    <3>3. o \in Orders
      BY <2>1
    <3> QED BY <3>1, <3>2, <3>3 DEF Locals
  <2>3. Goto(r, "freeze") /\ req' = [req EXCEPT ![r] = q] /\ "freeze" \in Labels
    BY <2>1 DEF Create, Labels, CreateLabels
  <2> HIDE DEF q
  <2>4. RequestsOK'
    BY <2>2, <2>3, RequestMoves DEF TypeOK
  <2> QED BY <2>1, <2>4 DEF Create, TypeOK, StoreOK, account, bounds
<1>2. CASE CreateStep(r)
  <2> USE DEF CreateLabels, Labels
  <2>1. /\ pc[r] \in CreateLabels /\ UNCHANGED bounds
        /\ req[r] \in Locals /\ req[r].order \in Orders /\ req[r].amount \in Nat
        /\ req[r].taken \in Nat /\ req[r].kind \in {"limit", "market"}
    <3>1. pc[r] \in CreateLabels /\ UNCHANGED bounds
      BY <1>2 DEF CreateStep, Freeze, Slippage, Reject, RejectRefund, Submit, Record, Release, Unfreeze
    <3>2. req[r] \in Locals /\ req[r].order \in Orders
      BY <3>1 DEF TypeOK, RequestsOK
    <3> QED BY <3>1, <3>2 DEF Locals
  <2>2. CASE Freeze(r)
    <3>1. req[r].amount * Margin \in Nat
      BY <2>1, MarginNat, TimesNat
    <3>2. RequestsOK'
      BY <2>2, RequestGoes DEF Freeze, TypeOK
    <3>3. rows' \in [Orders -> Row]
      BY <2>1, <2>2, <3>1 DEF Freeze, TypeOK, StoreOK, Row, Statuses
    <3>4. available' \in Int /\ frozen' \in Int
      BY <2>2, <3>1 DEF Freeze, TypeOK, StoreOK
    <3> QED BY <2>1, <2>2, <3>2, <3>3, <3>4 DEF Freeze, TypeOK, StoreOK, bounds
  <2>3. CASE Slippage(r)
    <3>1. RequestsOK'
      BY <2>3, RequestGoes DEF Slippage, TypeOK
    <3> QED BY <2>1, <2>3, <3>1 DEF Slippage, TypeOK, StoreOK, bounds, account
  <2>4. CASE Reject(r)
    <3>1. RequestsOK'
      BY <2>4, RequestGoes DEF Reject, TypeOK
    <3>2. rows' \in [Orders -> Row]
      BY SMTT(30), <2>1, <2>4 DEF Reject, TypeOK, StoreOK, Row, Statuses
    <3> QED BY <2>1, <2>4, <3>1, <3>2 DEF Reject, TypeOK, StoreOK, bounds, account
  <2>5. CASE RejectRefund(r)
    <3>1. req[r].amount * Margin \in Nat
      BY <2>1, MarginNat, TimesNat
    <3>2. available' \in Int /\ frozen' \in Int
      BY <2>5, <3>1 DEF RejectRefund, TypeOK, StoreOK
    <3>3. RequestsOK'
      BY <2>5, RequestEnds DEF RejectRefund, TypeOK
    <3> QED BY <2>1, <2>5, <3>2, <3>3 DEF RejectRefund, TypeOK, StoreOK, bounds
  <2>6. CASE Submit(r)
    <3>1. PICK k \in 0..req[r].amount :
            /\ Enter(req[r].order, req[r].kind, req[r].amount, k)
            /\ req' = [req EXCEPT ![r].taken = k]
      BY <2>6 DEF Submit
    <3> DEFINE q == [req[r] EXCEPT !.taken = k]
    <3>2. q \in Locals /\ q.order \in Orders
      BY <2>1 DEF Locals
    <3>3. req' = [req EXCEPT ![r] = q] /\ Goto(r, "record")
      BY <2>6, <3>1 DEF Submit
    <3> HIDE DEF q
    <3>4. RequestsOK'
      BY <3>2, <3>3, RequestMoves DEF TypeOK
    <3>5. /\ rest' \in [Orders -> Nat] /\ traded' \in [Orders -> Nat]
          /\ pending' \in [Orders -> Nat]
      BY <2>1, <3>1 DEF Enter, TypeOK, StoreOK
    <3> QED BY <2>1, <2>6, <3>4, <3>5 DEF Submit, TypeOK, StoreOK, bounds, account
  <2>7. CASE Record(r)
    <3>1. Answer(req[r].kind, req[r].amount, req[r].taken) \in Statuses
      BY <2>1 DEF Answer, Statuses
    <3> DEFINE row == [rows[req[r].order] EXCEPT
                         !.status = Answer(req[r].kind, req[r].amount, req[r].taken),
                         !.filled = req[r].taken]
    <3>4. row \in Row
      <4>1. rows[req[r].order] \in Row
        BY <2>1 DEF TypeOK, StoreOK
      <4> QED BY <2>1, <3>1, <4>1 DEF Row
    <3>5. rows' = [rows EXCEPT ![req[r].order] = row]
      BY <2>1, <2>7 DEF Record, TypeOK, StoreOK
    <3> HIDE DEF row
    <3>2. rows' \in [Orders -> Row]
      BY <3>4, <3>5 DEF TypeOK, StoreOK
    <3>3. RequestsOK'
      BY <2>7, RequestEnds, RequestGoes DEF Record, TypeOK
    <3> QED BY <2>1, <2>7, <3>2, <3>3 DEF Record, TypeOK, StoreOK, bounds, account
  <2>8. CASE Release(r)
    <3>1. available' \in Int /\ frozen' \in Int
      BY <2>1, <2>8, ReleasedNat, MoveInt DEF Release, TypeOK, StoreOK
    <3>2. RequestsOK'
      BY <2>8, RequestGoes DEF Release, TypeOK
    <3> QED BY <2>1, <2>8, <3>1, <3>2 DEF Release, TypeOK, StoreOK, bounds
  <2>9. CASE Unfreeze(r)
    <3>1. Released(req[r].kind, req[r].amount, req[r].taken) \in Nat
      BY <2>1, ReleasedNat
    <3>2. rows[req[r].order] \in Row /\ rows[req[r].order].margin \in Nat
      BY <2>1 DEF TypeOK, StoreOK, Row
    <3>3. AtLeastZero(rows[req[r].order].margin
                        - Released(req[r].kind, req[r].amount, req[r].taken)) \in Nat
      BY <3>1, <3>2, ClampNat
    <3>4. rows' \in [Orders -> Row]
      BY <2>1, <2>9, <3>2, <3>3 DEF Unfreeze, TypeOK, StoreOK, Row
    <3>5. RequestsOK'
      BY <2>9, RequestEnds DEF Unfreeze, TypeOK
    <3> QED BY <2>1, <2>9, <3>4, <3>5 DEF Unfreeze, TypeOK, StoreOK, bounds, account
  <2> QED
    BY <1>2, <2>2, <2>3, <2>4, <2>5, <2>6, <2>7, <2>8, <2>9 DEF CreateStep
<1> QED BY <1>1, <1>2

\* A request past its start works on an order with the locals of its call.
LEMMA AtWork ==
  ASSUME TypeOK, NEW r \in Requests, pc[r] \notin {"idle", "read"}
  PROVE  /\ req[r] \in Locals /\ req[r].order \in Orders
         /\ req[r].amount \in Nat /\ req[r].filled \in Nat /\ req[r].taken \in Nat
         /\ req[r].kind \in {"limit", "market"} /\ Unfilled(req[r]) \in Nat
<1>1. req[r] \in Locals /\ req[r].order \in Orders
  BY DEF TypeOK, RequestsOK
<1>2. /\ req[r].amount \in Nat /\ req[r].filled \in Nat /\ req[r].taken \in Nat
      /\ req[r].kind \in {"limit", "market"}
  BY <1>1 DEF Locals
<1> QED BY <1>1, <1>2, ClampNat DEF Unfilled

LEMMA EnterTypes ==
  ASSUME StoreOK, NEW o \in Orders, NEW kind, NEW n \in Nat, NEW k \in 0..n, Enter(o, kind, n, k)
  PROVE  rest' \in [Orders -> Nat] /\ traded' \in [Orders -> Nat] /\ pending' = pending
BY DEF Enter, StoreOK

\* Each update request's step.
LEMMA UpdateTypes ==
  ASSUME TypeOK, NEW r \in Requests,
         UpdateStep(r) \/ \E o \in Orders, n \in Quantities : Update(r, o, n)
  PROVE  TypeOK'
<1> USE AmountAssumption DEF UpdateLabels, Labels
<1>1. CASE \E o \in Orders, n \in Quantities : Update(r, o, n)
  <2>1. PICK o \in Orders, n \in Quantities : Update(r, o, n)
    BY <1>1
  <2> DEFINE q == [NoReq EXCEPT !.order = o, !.amount = n, !.kind = rows[o].kind,
                                !.filled = rows[o].filled]
  <2>2. q \in Locals /\ q.order \in Orders
    <3>1. o \in Orders /\ n \in Nat /\ rows[o] \in Row
      BY <2>1 DEF TypeOK, StoreOK
    <3>2. rows[o].kind \in {"limit", "market"} /\ rows[o].filled \in Nat
      BY <3>1 DEF Row
    <3>3. NoReq \in Locals
      BY DEF NoReq, Locals
    <3> QED BY <3>1, <3>2, <3>3 DEF Locals
  <2>3. Goto(r, "pull") /\ req' = [req EXCEPT ![r] = q]
    BY <2>1 DEF Update
  <2> HIDE DEF q
  <2>4. RequestsOK'
    BY <2>2, <2>3, RequestMoves DEF TypeOK
  <2>5. amends' \in [Orders -> Nat] /\ disturbed' \subseteq Orders
    <3>1. o \in Orders /\ amends' = [amends EXCEPT ![o] = @ + 1]
      BY <2>1 DEF Update
    <3>2. disturbed' = disturbed \cup {o} \/ disturbed' = disturbed
      BY <2>1 DEF Update
    <3> QED BY <3>1, <3>2 DEF TypeOK, StoreOK
  <2>6. UNCHANGED <<rows, account, rest, pending, cancels, faults, traded, answered>>
    BY <2>1 DEF Update
  <2> QED BY <2>4, <2>5, <2>6 DEF TypeOK, StoreOK, account
<1>2. CASE Pull(r)
  <2>1. RequestsOK'
    BY <1>2, RequestGoes DEF Pull, TypeOK
  <2>2. rest' \in [Orders -> Nat]
    BY <1>2 DEF Pull, TypeOK, StoreOK
  <2> QED BY <1>2, <2>1, <2>2 DEF Pull, TypeOK, StoreOK, account, bounds
<1>3. CASE Amend(r)
  <2>1. req[r].order \in Orders /\ req[r].amount \in Nat
    BY <1>3, AtWork DEF Amend
  <2>2. RequestsOK'
    BY <1>3, RequestGoes, RequestEnds DEF Amend, TypeOK
  <2> DEFINE row == [rows[req[r].order] EXCEPT !.amount = req[r].amount]
  <2>4. row \in Row
    <3>1. rows[req[r].order] \in Row
      BY <2>1 DEF TypeOK, StoreOK
    <3> QED BY <2>1, <3>1 DEF Row
  <2>5. rows' = [rows EXCEPT ![req[r].order] = row]
    BY <1>3, <2>1 DEF Amend, TypeOK, StoreOK
  <2> HIDE DEF row
  <2>3. rows' \in [Orders -> Row]
    BY <2>4, <2>5 DEF TypeOK, StoreOK
  <2> QED BY <1>3, <2>2, <2>3 DEF Amend, TypeOK, StoreOK, account, bounds
<1>4. CASE Resubmit(r)
  <2>1. req[r] \in Locals /\ req[r].order \in Orders /\ Unfilled(req[r]) \in Nat
    BY <1>4, AtWork DEF Resubmit
  <2>2. PICK k \in 0..Unfilled(req[r]) :
          /\ \E kind \in {"limit", "market"} : Enter(req[r].order, kind, Unfilled(req[r]), k)
          /\ req' = [req EXCEPT ![r].taken = k]
    <3>1. req[r].kind \in {"limit", "market"}
      BY <1>4, AtWork DEF Resubmit
    <3> QED BY <1>4, <3>1 DEF Resubmit
  <2> DEFINE q == [req[r] EXCEPT !.taken = k]
  <2>3. q \in Locals /\ q.order \in Orders
    BY <2>1, <2>2 DEF Locals
  <2>4. req' = [req EXCEPT ![r] = q] /\ Goto(r, "rerecord")
    BY <1>4, <2>2 DEF Resubmit
  <2> HIDE DEF q
  <2>5. RequestsOK'
    BY <2>3, <2>4, RequestMoves DEF TypeOK
  <2>6. rest' \in [Orders -> Nat] /\ traded' \in [Orders -> Nat] /\ pending' = pending
    BY <2>1, <2>2, EnterTypes DEF TypeOK
  <2> QED BY <1>4, <2>5, <2>6 DEF Resubmit, TypeOK, StoreOK, account, bounds
<1>5. CASE Rerecord(r)
  <2> DEFINE n == req[r].filled + req[r].taken
             status == IF n >= req[r].amount THEN "filled"
                       ELSE IF n > 0 THEN "partially_filled" ELSE "open"
             row == [rows[req[r].order] EXCEPT !.filled = n, !.status = status]
  <2>1. req[r].order \in Orders /\ n \in Nat /\ status \in Statuses
    BY <1>5, AtWork DEF Rerecord, Statuses
  <2>2. row \in Row
    <3>1. rows[req[r].order] \in Row
      BY <2>1 DEF TypeOK, StoreOK
    <3> HIDE DEF n, status
    <3> QED BY <2>1, <3>1 DEF Row
  <2>3. rows' = [rows EXCEPT ![req[r].order] = row]
    BY <1>5, <2>1 DEF Rerecord, TypeOK, StoreOK
  <2> HIDE DEF row
  <2>4. rows' \in [Orders -> Row]
    BY <2>2, <2>3 DEF TypeOK, StoreOK
  <2>5. RequestsOK'
    BY <1>5, RequestEnds DEF Rerecord, TypeOK
  <2> QED BY <1>5, <2>4, <2>5 DEF Rerecord, TypeOK, StoreOK, account, bounds
<1> QED BY <1>1, <1>2, <1>3, <1>4, <1>5 DEF UpdateStep

\* Each cancel request's step.
LEMMA CancelTypes ==
  ASSUME TypeOK, NEW r \in Requests,
         CancelStep(r) \/ \E S \in SUBSET Orders : Cancel(r, S)
  PROVE  TypeOK'
<1> USE DEF CancelLabels, Labels
<1>1. CASE \E S \in SUBSET Orders : Cancel(r, S)
  <2>1. PICK S \in SUBSET Orders : Cancel(r, S)
    BY <1>1
  <2> DEFINE q == [NoReq EXCEPT !.todo = S]
  <2>2. q \in Locals
    <3>1. S \in SUBSET Orders /\ NoReq \in Locals
      BY <2>1 DEF NoReq, Locals
    <3> QED BY <3>1 DEF Locals
  <2>3. Goto(r, "read") /\ req' = [req EXCEPT ![r] = q]
    BY <2>1 DEF Cancel
  <2> HIDE DEF q
  <2>4. RequestsOK'
    BY <2>2, <2>3, RequestMoves DEF TypeOK
  <2>5. cancels' \in [Orders -> Nat]
    BY <2>1 DEF Cancel, TypeOK
  <2> QED BY <2>1, <2>4, <2>5 DEF Cancel, TypeOK, StoreOK, account
<1>2. CASE Read(r)
  <2>1. req[r] \in Locals /\ req[r].todo \subseteq Orders /\ req[r].refund \in Int
    <3>1. req[r] \in Locals
      BY SMTT(30) DEF TypeOK, RequestsOK
    <3> QED BY <3>1 DEF Locals
  <2>2. PICK o \in req[r].todo :
          IF rows[o].status \in {"open", "partially_filled", "pending"}
          THEN /\ req' = [req EXCEPT ![r].todo = @ \ {o}, ![r].order = o,
                                     ![r].refund = @ + Refund(rows[o]),
                                     ![r].late = ~Active(o)]
               /\ disturbed' = IF Meets(o) THEN disturbed \cup {o} ELSE disturbed
               /\ Goto(r, "cancel")
          ELSE /\ req' = [req EXCEPT ![r].todo = @ \ {o}]
               /\ UNCHANGED <<pc, disturbed>>
    BY <1>2 DEF Read
  <2>3. o \in Orders
    BY <2>1, <2>2
  <2>4. disturbed' \subseteq Orders
    BY <2>2, <2>3 DEF TypeOK, StoreOK
  <2>5. RequestsOK'
    <3>1. CASE rows[o].status \in {"open", "partially_filled", "pending"}
      <4> DEFINE late == ~Active(o)
                 amount == req[r].refund + Refund(rows[o])
                 q == [req[r] EXCEPT !.todo = @ \ {o}, !.order = o, !.refund = amount,
                                     !.late = late]
      <4>1. Refund(rows[o]) \in Int
        BY <2>3, RefundInt DEF TypeOK, StoreOK
      <4>2. amount \in Int /\ late \in BOOLEAN
        BY <2>1, <4>1
      <4>3. req' = [req EXCEPT ![r] = q] /\ Goto(r, "cancel")
        BY <2>2, <3>1
      <4> HIDE DEF late, amount
      <4>4. q \in Locals /\ q.order \in Orders
        BY <2>1, <2>3, <4>2 DEF Locals
      <4> HIDE DEF q
      <4> QED BY <4>3, <4>4, RequestMoves DEF TypeOK
    <3>2. CASE rows[o].status \notin {"open", "partially_filled", "pending"}
      <4> DEFINE q == [req[r] EXCEPT !.todo = @ \ {o}]
      <4>1. q \in Locals
        BY <2>1 DEF Locals
      <4>2. req' = [req EXCEPT ![r] = q] /\ pc' = pc /\ pc[r] = "read"
        BY <1>2, <2>2, <3>2 DEF Read
      <4> HIDE DEF q
      <4> QED BY <4>1, <4>2 DEF TypeOK, RequestsOK
    <3> QED BY <3>1, <3>2
  <2> QED BY <1>2, <2>4, <2>5 DEF Read, TypeOK, StoreOK, account, bounds
<1>3. CASE EngineCancel(r)
  <2>1. RequestsOK'
    BY <1>3, RequestGoes DEF EngineCancel, TypeOK
  <2>2. rest' \in [Orders -> Nat]
    BY <1>3 DEF EngineCancel, TypeOK, StoreOK
  <2> QED BY <1>3, <2>1, <2>2 DEF EngineCancel, TypeOK, StoreOK, account, bounds
<1>4. CASE Mark(r)
  <2>1. req[r] \in Locals /\ req[r].order \in Orders
    BY <1>4, AtWork DEF Mark
  <2> DEFINE done == IF req[r].late THEN req[r].done \cup {req[r].order} ELSE req[r].done
             q == [req[r] EXCEPT !.order = None, !.late = FALSE, !.done = done]
  <2>2. done \subseteq Orders
    BY <2>1 DEF Locals
  <2>3. req' = [req EXCEPT ![r] = q] /\ Goto(r, "read")
    BY <1>4 DEF Mark
  <2> HIDE DEF done
  <2>4. q \in Locals
    BY <2>1, <2>2 DEF Locals
  <2> HIDE DEF q
  <2>5. RequestsOK'
    BY <2>3, <2>4, RequestMoves DEF TypeOK
  <2>6. rows' \in [Orders -> Row]
    BY ZenonT(40), <1>4, <2>1 DEF Mark, TypeOK, StoreOK, Row, Statuses
  <2> QED BY <1>4, <2>5, <2>6 DEF Mark, TypeOK, StoreOK, account, bounds
<1>5. CASE RefundAll(r)
  <2>1. req[r].refund \in Int /\ req[r].done \subseteq Orders
    <3>1. req[r] \in Locals
      BY DEF TypeOK, RequestsOK
    <3> QED BY <3>1 DEF Locals
  <2>2. available' \in Int /\ frozen' \in Int
    BY <1>5, <2>1, MoveInt DEF RefundAll, TypeOK, StoreOK, account
  <2>3. RequestsOK'
    BY <1>5, RequestEnds DEF RefundAll, TypeOK
  <2> QED BY <1>5, <2>1, <2>2, <2>3 DEF RefundAll, TypeOK, StoreOK, bounds
<1> QED BY <1>1, <1>2, <1>3, <1>4, <1>5 DEF CancelStep

\* The market, the persistence pipeline, cuts and restarts.
LEMMA MarketTypes ==
  ASSUME TypeOK,
         \/ \E o \in Orders : Take(o) \/ Persist(o)
         \/ \E r \in Requests : Cut(r)
         \/ Crash
  PROVE  TypeOK'
<1>1. CASE \E o \in Orders : Take(o)
  <2>1. PICK o \in Orders : Take(o)
    BY <1>1
  <2>2. /\ rest[o] > 0 /\ rest' = [rest EXCEPT ![o] = @ - 1]
        /\ traded' = [traded EXCEPT ![o] = @ + 1]
        /\ pending' = [pending EXCEPT ![o] = @ + 1]
        /\ disturbed' = disturbed \cup {o} \/ disturbed' = disturbed
        /\ UNCHANGED <<rows, account, pc, req, bounds, answered>>
    BY <2>1 DEF Take
  <2>3. rest' \in [Orders -> Nat] /\ traded' \in [Orders -> Nat] /\ pending' \in [Orders -> Nat]
    BY <2>1, <2>2 DEF TypeOK, StoreOK
  <2>4. disturbed' \subseteq Orders
    BY <2>1, <2>2 DEF TypeOK, StoreOK
  <2> QED BY <2>2, <2>3, <2>4 DEF TypeOK, StoreOK, RequestsOK, account, bounds
<1>2. CASE \E o \in Orders : Persist(o)
  <2>1. PICK o \in Orders : Persist(o)
    BY <1>2
  <2> DEFINE filled == Least(rows[o].filled + 1, rows[o].amount)
             margin == AtLeastZero(rows[o].margin - Margin)
             status == IF rows[o].filled + 1 >= rows[o].amount THEN "filled"
                       ELSE "partially_filled"
             row == [rows[o] EXCEPT !.filled = filled, !.margin = margin, !.status = status]
  <2>2. rows[o] \in Row /\ rows[o].filled \in Nat /\ rows[o].amount \in Nat /\ rows[o].margin \in Nat
    BY <2>1 DEF TypeOK, StoreOK, Row
  <2>3. filled \in Nat /\ margin \in Nat /\ status \in Statuses
    BY <2>2, MarginNat, ClampNat DEF Least, Statuses
  <2>4. /\ rows' = [rows EXCEPT ![o] = row] /\ pending[o] > 0
        /\ pending' = [pending EXCEPT ![o] = @ - 1] /\ Move(Margin, Buffer)
        /\ UNCHANGED <<rest, pc, req, bounds, traded, answered, disturbed>>
    BY <2>1 DEF Persist, TypeOK, StoreOK
  <2> HIDE DEF filled, margin, status
  <2>5. row \in Row
    BY <2>2, <2>3 DEF Row
  <2> HIDE DEF row
  <2>6. rows' \in [Orders -> Row] /\ pending' \in [Orders -> Nat]
    BY <2>1, <2>4, <2>5 DEF TypeOK, StoreOK
  <2>7. available' \in Int /\ frozen' \in Int
    BY <2>4, MarginNat, MoveInt, AmountAssumption DEF TypeOK, StoreOK
  <2> QED BY <2>4, <2>6, <2>7 DEF TypeOK, StoreOK, RequestsOK, bounds
<1>3. CASE \E r \in Requests : Cut(r)
  <2>1. PICK r \in Requests : Cut(r)
    BY <1>3
  <2>2. RequestsOK'
    BY <2>1, RequestEnds DEF Cut, TypeOK
  <2>3. req[r] \in Locals
    BY <2>1 DEF TypeOK, RequestsOK
  <2>4. req[r].order \in Orders \cup {None}
    BY <2>3 DEF Locals
  <2>5. disturbed' \subseteq Orders
    BY <2>1, <2>4 DEF Cut, TypeOK, StoreOK
  <2>6. faults' = faults + 1 /\ UNCHANGED <<rows, account, rest, pending, cancels, amends, traded, answered>>
    BY <2>1 DEF Cut
  <2> QED BY <2>2, <2>5, <2>6 DEF TypeOK, StoreOK, account
<1>4. CASE Crash
  <2>1. PICK taken \in [Orders -> {0} \cup Quantities] :
          /\ \A o \in Orders : taken[o] <= Recovered(o)
          /\ rest' = [o \in Orders |-> Recovered(o) - taken[o]]
          /\ traded' = [o \in Orders |-> traded[o] + taken[o]]
          /\ disturbed' = disturbed \cup
               {o \in Orders : Active(o) \/ pending[o] > 0 \/ taken[o] > 0}
    BY <1>4 DEF Crash
  <2>2. \A o \in Orders : taken[o] \in Nat
    <3>1. \A n \in {0} \cup Quantities : n \in Nat
      BY AmountAssumption
    <3>2. \A o \in Orders : taken[o] \in {0} \cup Quantities
      BY <2>1
    <3> QED BY <3>1, <3>2
  <2>3. \A o \in Orders : Recovered(o) \in Nat
    <3>1. TAKE o \in Orders
    <3>2. rows[o] \in Row
      BY DEF TypeOK, StoreOK
    <3>3. rows[o].amount - rows[o].filled \in Int
      BY <3>2 DEF Row
    <3> QED BY <3>3, ClampNat DEF Recovered
  <2>4. rest' \in [Orders -> Nat] /\ traded' \in [Orders -> Nat]
    BY <2>1, <2>2, <2>3 DEF TypeOK, StoreOK
  <2>5. disturbed' \subseteq Orders
    BY <2>1 DEF TypeOK, StoreOK
  <2>6. RequestsOK'
    <3>1. NoReq \in Locals
      BY DEF NoReq, Locals
    <3> QED BY <1>4, <3>1 DEF Crash, RequestsOK, Labels
  <2> QED BY <1>4, <2>4, <2>5, <2>6 DEF Crash, TypeOK, StoreOK, account
<1> QED BY <1>1, <1>2, <1>3, <1>4

LEMMA IgnoredTypes ==
  ASSUME TypeOK, NEW r \in Requests, Ignored(r)
  PROVE  TypeOK'
<1> USE DEF CreateLabels, CancelLabels, Labels
<1>1. /\ faults' = faults + 1 /\ disturbed' = disturbed \cup {req[r].order}
      /\ pc[r] \in {"reject", "release", "mark"}
      /\ UNCHANGED <<rows, account, rest, pending, cancels, amends, traded, answered>>
  BY DEF Ignored
<1>2. req[r] \in Locals /\ req[r].order \in Orders
  BY <1>1, AtWork
<1>3. RequestsOK'
  <2>1. CASE \E l \in CreateLabels \ {"idle", "read"} : Goto(r, l) /\ UNCHANGED req
    BY <1>1, <2>1, RequestGoes DEF TypeOK
  <2> DEFINE q == [req[r] EXCEPT !.order = None, !.late = FALSE]
  <2>2. CASE Goto(r, "read") /\ req' = [req EXCEPT ![r] = q]
    <3>1. q \in Locals
      BY <1>2 DEF Locals
    <3> HIDE DEF q
    <3> QED BY <2>2, <3>1, RequestMoves DEF TypeOK
  <2> QED BY <2>1, <2>2 DEF Ignored
<1>4. disturbed' \subseteq Orders
  BY <1>1, <1>2 DEF TypeOK, StoreOK
<1> QED BY <1>1, <1>3, <1>4 DEF TypeOK, StoreOK, account

LEMMA TypesStep == ASSUME TypeOK, [Next]_vars PROVE TypeOK'
<1>1. CASE UNCHANGED vars
  BY <1>1 DEF vars, account, bounds, TypeOK, StoreOK, RequestsOK
<1>2. CASE \E r \in Requests : Call(r)
  BY <1>2, CreateTypes, UpdateTypes, CancelTypes DEF Call
<1>3. CASE \E r \in Requests : CreateStep(r) \/ UpdateStep(r) \/ CancelStep(r)
  BY <1>3, CreateTypes, UpdateTypes, CancelTypes
<1>4. CASE \/ \E o \in Orders : Take(o) \/ Persist(o)
           \/ \E r \in Requests : Cut(r)
           \/ Crash
  BY <1>4, MarketTypes
<1>5. CASE \E r \in Requests : Ignored(r)
  BY <1>5, IgnoredTypes
<1> QED BY <1>1, <1>2, <1>3, <1>4, <1>5 DEF Next

\* Every reachable state has its types; no row, counter or lot count of an
\* order is ever negative, whatever the order of statements (order.rs).
THEOREM OrderFlowTypeCorrect == Spec => []TypeOK
BY InitTypes, TypesStep, PTL DEF Spec

(***************************************************************************)
(* A cancel that was answered holds.                                       *)
(***************************************************************************)

\* The order was created, and no create request works on it any more: nothing
\* but an amendment or a restart can bring lots of it to the book.
Started(o) ==
    /\ rows[o].status # "none"
    /\ \A r \in Requests : pc[r] \in CreateLabels => req[r].order # o

\* Statuses a restart does not restore.
Over == {"cancelled", "partially_filled", "filled"}
Gone(o) == Started(o) /\ rest[o] = 0 /\ rows[o].status \in Over

\* Only amendable orders are amended; orders a finished cancel stands for are
\* gone; an order under a late cancel is started, and out of the book once the
\* engine cancelled it.
CancelInv ==
    /\ \A r \in Requests : pc[r] \in UpdateLabels => req[r].order \in Amendable
    /\ \A o \in answered \ Amendable : Gone(o)
    /\ \A r \in Requests : \A o \in req[r].done \ Amendable : Gone(o)
    /\ \A r \in Requests :
          (pc[r] \in {"cancel", "mark"} /\ req[r].late /\ req[r].order \notin Amendable)
             => Started(req[r].order) /\ (pc[r] = "mark" => rest[req[r].order] = 0)

LEMMA InitCancel == Init => CancelInv
BY DEF Init, CancelInv, NoReq, UpdateLabels

\* A step of request r: the other requests stay where they are.
OthersStay(r) == \A s \in Requests \ {r} : pc'[s] = pc[s] /\ req'[s] = req[s]

\* A started order stays started, out of the book and over if it is.
StaysGone(o) ==
    Started(o) =>
       /\ Started(o)'
       /\ rest[o] = 0 => rest'[o] = 0
       /\ rows[o].status \in Over => rows'[o].status \in Over

\* Where a request goes that begins or ends.
LEMMA Others ==
  ASSUME RequestsOK, NEW r \in Requests, NEW l, NEW q,
         Goto(r, l), req' = [req EXCEPT ![r] = q]
  PROVE  OthersStay(r) /\ pc'[r] = l /\ req'[r] = q
BY DEF RequestsOK, Goto, OthersStay

LEMMA OthersGo ==
  ASSUME RequestsOK, NEW r \in Requests, NEW l, Goto(r, l), UNCHANGED req
  PROVE  OthersStay(r) /\ pc'[r] = l /\ req'[r] = req[r]
BY DEF RequestsOK, Goto, OthersStay

LEMMA StartedStays ==
  ASSUME NEW r \in Requests, OthersStay(r), NEW o \in Orders, Started(o),
         pc'[r] \in CreateLabels => req'[r].order # o,
         rows'[o].status # "none"
  PROVE  Started(o)'
<1>1. ASSUME NEW s \in Requests, pc'[s] \in CreateLabels PROVE req'[s].order # o
  <2>1. CASE s = r
    BY <1>1, <2>1
  <2>2. CASE s # r
    BY <1>1, <2>2 DEF OthersStay, Started
  <2> QED BY <2>1, <2>2
<1> QED BY <1>1 DEF Started

\* A step of a create request: its own order and itself.
LEMMA CreateFrame ==
  ASSUME TypeOK, NEW r \in Requests,
         CreateStep(r) \/ \E o \in Orders, n \in Quantities, kind \in Kinds : Create(r, o, kind, n)
  PROVE  /\ OthersStay(r) /\ answered' = answered
         /\ pc'[r] \in CreateLabels \cup {"idle"} /\ req'[r].done \in {req[r].done, {}}
         /\ \A o \in Orders : StaysGone(o)
<1> USE DEF CreateLabels
<1>1. CASE \E o \in Orders, n \in Quantities, kind \in Kinds : Create(r, o, kind, n)
  <2>1. PICK o \in Orders, n \in Quantities, kind \in Kinds : Create(r, o, kind, n)
    BY <1>1
  <2> DEFINE q == [NoReq EXCEPT !.order = o, !.amount = n, !.kind = kind]
  <2>2. Goto(r, "freeze") /\ req' = [req EXCEPT ![r] = q] /\ q.order = o /\ q.done = {}
    BY <2>1 DEF Create, NoReq
  <2> HIDE DEF q
  <2>3. OthersStay(r) /\ pc'[r] = "freeze" /\ req'[r] = q
    BY <2>2, Others DEF TypeOK
  <2>4. rows[o].status = "none" /\ UNCHANGED <<rows, rest, answered>>
    BY <2>1 DEF Create
  <2>5. ASSUME NEW p \in Orders, Started(p) PROVE Started(p)'
    <3>1. p # o
      BY <2>4, <2>5 DEF Started
    <3> QED BY <2>2, <2>3, <2>4, <2>5, <3>1, StartedStays DEF Started
  <2> QED BY <2>2, <2>3, <2>4, <2>5 DEF StaysGone
<1>2. CASE CreateStep(r)
  <2>1. pc[r] \in CreateLabels /\ answered' = answered
    BY <1>2 DEF CreateStep, Freeze, Slippage, Reject, RejectRefund, Submit, Record, Release, Unfreeze
  <2>2. \/ \E l \in CreateLabels : Goto(r, l) /\ UNCHANGED req
        \/ \E k : Goto(r, "record") /\ req' = [req EXCEPT ![r] = [req[r] EXCEPT !.taken = k]]
        \/ Finish(r)
    BY <1>2 DEF CreateStep, Freeze, Slippage, Reject, RejectRefund, Submit, Record, Release, Unfreeze
  <2>3. req[r] \in Locals
    BY DEF TypeOK, RequestsOK
  <2>4. /\ OthersStay(r) /\ pc'[r] \in CreateLabels \cup {"idle"}
        /\ req'[r].done \in {req[r].done, {}}
        /\ pc'[r] \in CreateLabels => req'[r].order = req[r].order
    <3>1. CASE \E l \in CreateLabels : Goto(r, l) /\ UNCHANGED req
      BY <3>1, OthersGo DEF TypeOK
    <3>2. CASE \E k : Goto(r, "record") /\ req' = [req EXCEPT ![r] = [req[r] EXCEPT !.taken = k]]
      <4>1. PICK k : Goto(r, "record") /\ req' = [req EXCEPT ![r] = [req[r] EXCEPT !.taken = k]]
        BY <3>2
      <4> DEFINE q == [req[r] EXCEPT !.taken = k]
      <4>2. q.done = req[r].done /\ q.order = req[r].order
        BY <2>3 DEF Locals
      <4> HIDE DEF q
      <4>3. OthersStay(r) /\ pc'[r] = "record" /\ req'[r] = q
        BY <4>1, Others DEF TypeOK, q
      <4> QED BY <4>2, <4>3
    <3>3. CASE Finish(r)
      <4>1. OthersStay(r) /\ pc'[r] = "idle" /\ req'[r] = NoReq
        BY <3>3, Others DEF TypeOK, Finish
      <4> QED BY <4>1 DEF NoReq
    <3> QED BY <2>2, <3>1, <3>2, <3>3
  <2>5. ASSUME NEW o \in Orders, o # req[r].order PROVE rows'[o] = rows[o] /\ rest'[o] = rest[o]
    BY <1>2, <2>5 DEF CreateStep, Freeze, Slippage, Reject, RejectRefund, Submit, Record, Release,
         Unfreeze, Enter, TypeOK, StoreOK
  <2>6. ASSUME NEW o \in Orders, Started(o) PROVE o # req[r].order
    BY <2>1, <2>6 DEF Started
  <2>7. ASSUME NEW o \in Orders, Started(o) PROVE Started(o)'
    <3>1. rows'[o].status # "none"
      BY <2>5, <2>6, <2>7 DEF Started
    <3> QED BY <2>4, <2>6, <2>7, <3>1, StartedStays
  <2> QED BY <2>1, <2>4, <2>5, <2>6, <2>7 DEF StaysGone
<1> QED BY <1>1, <1>2

\* A step of an update request: its own order, which is amendable, and itself.
LEMMA UpdateFrame ==
  ASSUME TypeOK, CancelInv, NEW r \in Requests,
         UpdateStep(r) \/ \E o \in Orders, n \in Quantities : Update(r, o, n)
  PROVE  /\ OthersStay(r) /\ answered' = answered
         /\ pc'[r] \in UpdateLabels \cup {"idle"} /\ req'[r].done \in {req[r].done, {}}
         /\ pc'[r] \in UpdateLabels => req'[r].order \in Amendable
         /\ \A o \in Orders \ Amendable : StaysGone(o)
<1> USE DEF UpdateLabels
<1>1. /\ OthersStay(r) /\ answered' = answered
      /\ pc'[r] \in UpdateLabels \cup {"idle"} /\ req'[r].done \in {req[r].done, {}}
      /\ pc'[r] \in UpdateLabels => req'[r].order \in Amendable
      /\ \A o \in Orders \ Amendable : rows'[o] = rows[o] /\ rest'[o] = rest[o]
  <2>1. CASE \E o \in Orders, n \in Quantities : Update(r, o, n)
    <3>1. PICK o \in Orders, n \in Quantities : Update(r, o, n)
      BY <2>1
    <3> DEFINE q == [NoReq EXCEPT !.order = o, !.amount = n, !.kind = rows[o].kind,
                                  !.filled = rows[o].filled]
    <3>2. /\ Goto(r, "pull") /\ req' = [req EXCEPT ![r] = q] /\ q.order = o /\ q.done = {}
          /\ o \in Amendable /\ UNCHANGED <<rows, rest, answered>>
      BY <3>1 DEF Update, NoReq
    <3> HIDE DEF q
    <3>3. OthersStay(r) /\ pc'[r] = "pull" /\ req'[r] = q
      BY <3>2, Others DEF TypeOK
    <3> QED BY <3>2, <3>3
  <2>2. CASE UpdateStep(r)
    <3>1. pc[r] \in UpdateLabels /\ answered' = answered
      BY <2>2 DEF UpdateStep, Pull, Amend, Resubmit, Rerecord
    <3>2. req[r].order \in Amendable /\ req[r] \in Locals
      BY SMTT(30), <3>1 DEF CancelInv, TypeOK, RequestsOK
    <3>3. \A o \in Orders \ Amendable : rows'[o] = rows[o] /\ rest'[o] = rest[o]
      BY <2>2, <3>2 DEF UpdateStep, Pull, Amend, Resubmit, Rerecord, Enter, TypeOK, StoreOK
    <3>4. \/ \E l \in UpdateLabels : Goto(r, l) /\ UNCHANGED req
          \/ \E k : Goto(r, "rerecord") /\ req' = [req EXCEPT ![r] = [req[r] EXCEPT !.taken = k]]
          \/ Finish(r)
      BY <2>2 DEF UpdateStep, Pull, Amend, Resubmit, Rerecord
    <3>5. CASE \E l \in UpdateLabels : Goto(r, l) /\ UNCHANGED req
      BY <3>1, <3>2, <3>3, <3>5, OthersGo DEF TypeOK
    <3>6. CASE \E k : Goto(r, "rerecord") /\ req' = [req EXCEPT ![r] = [req[r] EXCEPT !.taken = k]]
      <4>1. PICK k : Goto(r, "rerecord") /\ req' = [req EXCEPT ![r] = [req[r] EXCEPT !.taken = k]]
        BY <3>6
      <4> DEFINE q == [req[r] EXCEPT !.taken = k]
      <4>2. q.done = req[r].done /\ q.order = req[r].order
        BY <3>2 DEF Locals
      <4> HIDE DEF q
      <4>3. OthersStay(r) /\ pc'[r] = "rerecord" /\ req'[r] = q
        BY <4>1, Others DEF TypeOK, q
      <4> QED BY <3>1, <3>2, <3>3, <4>2, <4>3
    <3>7. CASE Finish(r)
      <4>1. OthersStay(r) /\ pc'[r] = "idle" /\ req'[r] = NoReq
        BY <3>7, Others DEF TypeOK, Finish
      <4> QED BY <3>1, <3>3, <4>1 DEF NoReq
    <3> QED BY <3>4, <3>5, <3>6, <3>7
  <2> QED BY <2>1, <2>2
<1>2. ASSUME NEW o \in Orders \ Amendable, Started(o) PROVE Started(o)'
  <2>1. pc'[r] \notin CreateLabels /\ rows'[o].status # "none"
    BY <1>1, <1>2 DEF CreateLabels, Started
  <2> QED BY <1>1, <1>2, <2>1, StartedStays
<1> QED BY <1>1, <1>2 DEF StaysGone

\* A step of a cancel request: itself, and the order it cancels, for good.
LEMMA CancelFrame ==
  ASSUME TypeOK, CancelInv, NEW r \in Requests,
         CancelStep(r) \/ \E S \in SUBSET Orders : Cancel(r, S)
  PROVE  /\ OthersStay(r) /\ pc'[r] \in CancelLabels \cup {"idle"}
         /\ \A o \in Orders : StaysGone(o)
         /\ answered' \in {answered, answered \cup req[r].done}
         /\ \A o \in req'[r].done \ Amendable : o \in req[r].done \/ Gone(o)'
         /\ \A o \in Orders \ Amendable :
              (pc'[r] \in {"cancel", "mark"} /\ req'[r].late /\ req'[r].order = o)
                 => Started(o)' /\ (pc'[r] = "mark" => rest'[o] = 0)
<1> USE DEF CancelLabels
<1>1. ASSUME OthersStay(r), pc'[r] \notin CreateLabels,
             \A o \in Orders : rows'[o].status \in {rows[o].status, "cancelled"},
             \A o \in Orders : rest'[o] \in {rest[o], 0}
      PROVE  \A o \in Orders : StaysGone(o)
  <2>1. ASSUME NEW o \in Orders, Started(o) PROVE Started(o)'
    <3>1. rows'[o].status # "none"
      BY <1>1, <2>1 DEF Started
    <3> QED BY <1>1, <2>1, <3>1, StartedStays
  <2>2. ASSUME NEW o \in Orders PROVE rest[o] = 0 => rest'[o] = 0
    BY <1>1, <2>2
  <2>3. ASSUME NEW o \in Orders PROVE rows[o].status \in Over => rows'[o].status \in Over
    BY <1>1, <2>3 DEF Over
  <2> QED BY <2>1, <2>2, <2>3 DEF StaysGone
<1>2. CASE \E S \in SUBSET Orders : Cancel(r, S)
  <2>1. PICK S \in SUBSET Orders : Cancel(r, S)
    BY <1>2
  <2> DEFINE q == [NoReq EXCEPT !.todo = S]
  <2>2. /\ Goto(r, "read") /\ req' = [req EXCEPT ![r] = q] /\ q.done = {}
        /\ UNCHANGED <<rows, rest, answered>>
    BY <2>1 DEF Cancel, NoReq
  <2> HIDE DEF q
  <2>3. OthersStay(r) /\ pc'[r] = "read" /\ req'[r] = q
    BY <2>2, Others DEF TypeOK
  <2>4. \A o \in Orders : StaysGone(o)
    BY <1>1, <2>2, <2>3 DEF CreateLabels
  <2> QED BY <2>2, <2>3, <2>4
<1>3. CASE Read(r)
  <2>1. PICK o \in req[r].todo :
          IF rows[o].status \in {"open", "partially_filled", "pending"}
          THEN /\ req' = [req EXCEPT ![r].todo = @ \ {o}, ![r].order = o,
                                     ![r].refund = @ + Refund(rows[o]),
                                     ![r].late = ~Active(o)]
               /\ disturbed' = IF Meets(o) THEN disturbed \cup {o} ELSE disturbed
               /\ Goto(r, "cancel")
          ELSE /\ req' = [req EXCEPT ![r].todo = @ \ {o}]
               /\ UNCHANGED <<pc, disturbed>>
    BY <1>3 DEF Read
  <2>2. req[r] \in Locals /\ pc[r] = "read" /\ UNCHANGED <<rows, rest, answered>>
    BY <1>3 DEF Read, TypeOK, RequestsOK
  <2>3. o \in Orders
    BY <2>1, <2>2 DEF Locals
  <2>4. CASE rows[o].status \in {"open", "partially_filled", "pending"}
    <3> DEFINE late == ~Active(o)
               refund == req[r].refund + Refund(rows[o])
               q == [req[r] EXCEPT !.todo = @ \ {o}, !.order = o, !.refund = refund, !.late = late]
    <3>1. req' = [req EXCEPT ![r] = q] /\ Goto(r, "cancel")
      BY <2>1, <2>4
    <3> HIDE DEF late, refund
    <3>2. q.order = o /\ q.late = late /\ q.done = req[r].done
      BY <2>2 DEF Locals
    <3> HIDE DEF q
    <3>3. OthersStay(r) /\ pc'[r] = "cancel" /\ req'[r] = q
      BY <3>1, Others DEF TypeOK
    <3>4. \A p \in Orders : StaysGone(p)
      BY <1>1, <2>2, <3>3 DEF CreateLabels
    <3>5. late => Started(o)
      BY <2>4 DEF late, Active, Started, CreateLabels
    <3>6. late => Started(o)'
      BY <2>3, <3>4, <3>5 DEF StaysGone
    <3> QED BY <2>2, <2>3, <3>2, <3>3, <3>4, <3>6
  <2>5. CASE rows[o].status \notin {"open", "partially_filled", "pending"}
    <3> DEFINE q == [req[r] EXCEPT !.todo = @ \ {o}]
    <3>1. req' = [req EXCEPT ![r] = q] /\ pc' = pc
      BY <2>1, <2>5
    <3>2. q.done = req[r].done
      BY <2>2 DEF Locals
    <3> HIDE DEF q
    <3>3. OthersStay(r) /\ pc'[r] = "read" /\ req'[r] = q
      BY <2>2, <3>1 DEF OthersStay, TypeOK, RequestsOK
    <3>4. \A p \in Orders : StaysGone(p)
      BY <1>1, <2>2, <3>3 DEF CreateLabels
    <3> QED BY <2>2, <3>2, <3>3, <3>4
  <2> QED BY <2>4, <2>5
<1>4. CASE EngineCancel(r)
  <2>1. /\ pc[r] = "cancel" /\ Goto(r, "mark") /\ UNCHANGED <<req, rows, answered>>
        /\ rest' = [rest EXCEPT ![req[r].order] = 0]
    BY <1>4 DEF EngineCancel
  <2>2. OthersStay(r) /\ pc'[r] = "mark" /\ req'[r] = req[r]
    BY <2>1, OthersGo DEF TypeOK
  <2>3. rest'[req[r].order] = 0 /\ req[r].order \in Orders
    BY <2>1, AtWork DEF TypeOK, StoreOK
  <2>4. \A o \in Orders : StaysGone(o)
    BY <1>1, <2>1, <2>2 DEF CreateLabels, TypeOK, StoreOK
  <2>5. ASSUME NEW o \in Orders \ Amendable, req[r].late, req[r].order = o
        PROVE  Started(o)' /\ rest'[o] = 0
    <3>1. Started(o)
      BY <2>1, <2>5 DEF CancelInv
    <3> QED BY <2>3, <2>4, <2>5, <3>1 DEF StaysGone
  <2> QED BY <2>1, <2>2, <2>4, <2>5
<1>5. CASE Mark(r)
  <2>1. pc[r] = "mark" /\ UNCHANGED <<rest, answered>>
    BY <1>5 DEF Mark
  <2>2. req[r] \in Locals /\ req[r].order \in Orders
    BY <2>1, AtWork
  <2> DEFINE done == IF req[r].late THEN req[r].done \cup {req[r].order} ELSE req[r].done
             q == [req[r] EXCEPT !.order = None, !.late = FALSE, !.done = done]
  <2>3. req' = [req EXCEPT ![r] = q] /\ Goto(r, "read")
    BY <1>5 DEF Mark
  <2> HIDE DEF done
  <2>4. q.done = done
    BY <2>2 DEF Locals
  <2> HIDE DEF q
  <2>5. OthersStay(r) /\ pc'[r] = "read" /\ req'[r] = q
    BY <2>3, Others DEF TypeOK
  <2>6. /\ rows'[req[r].order].status = "cancelled"
        /\ \A o \in Orders : rows'[o].status \in {rows[o].status, "cancelled"}
    <3>1. \A o \in Orders : rows[o] \in Row
      BY DEF TypeOK, StoreOK
    <3> QED BY <1>5, <2>2, <3>1 DEF Mark, TypeOK, StoreOK, Row
  <2>7. \A o \in Orders : StaysGone(o)
    BY <1>1, <2>1, <2>5, <2>6 DEF CreateLabels
  <2>8. ASSUME NEW o \in Orders \ Amendable, req[r].late, req[r].order = o PROVE Gone(o)'
    <3>1. Started(o) /\ rest[o] = 0
      BY <2>1, <2>8 DEF CancelInv
    <3>2. Started(o)'
      BY <2>7, <2>8, <3>1 DEF StaysGone
    <3> QED BY <2>1, <2>6, <2>8, <3>1, <3>2 DEF Gone, Over
  <2>9. ASSUME NEW o \in done \ Amendable PROVE o \in req[r].done \/ Gone(o)'
    BY <2>2, <2>8, <2>9 DEF done
  <2> QED BY <2>1, <2>4, <2>5, <2>7, <2>9
<1>6. CASE RefundAll(r)
  <2>1. Finish(r) /\ UNCHANGED <<rows, rest>> /\ answered' = answered \cup req[r].done
    BY <1>6 DEF RefundAll
  <2>2. OthersStay(r) /\ pc'[r] = "idle" /\ req'[r] = NoReq
    BY <2>1, Others DEF TypeOK, Finish
  <2>3. \A o \in Orders : StaysGone(o)
    BY <1>1, <2>1, <2>2 DEF CreateLabels
  <2> QED BY <2>1, <2>2, <2>3 DEF NoReq
<1> QED BY <1>2, <1>3, <1>4, <1>5, <1>6 DEF CancelStep

\* The market and the persistence pipeline keep a cancelled order where it is.
LEMMA MarketFrame ==
  ASSUME TypeOK,
         \/ \E o \in Orders : Take(o) \/ Persist(o)
         \/ UNCHANGED vars
  PROVE  UNCHANGED <<pc, req, answered>> /\ \A o \in Orders : StaysGone(o)
<1>1. UNCHANGED <<pc, req, answered>>
  BY DEF Take, Persist, vars, bounds, account
<1>2. ASSUME NEW o \in Orders
      PROVE  /\ rows[o].status # "none" => rows'[o].status # "none"
             /\ rows[o].status \in Over => rows'[o].status \in Over
             /\ rest[o] = 0 => rest'[o] = 0
  <2>1. CASE UNCHANGED vars
    BY <2>1 DEF vars
  <2>2. CASE \E p \in Orders : Take(p)
    BY <2>2 DEF Take, TypeOK, StoreOK
  <2>3. CASE \E p \in Orders : Persist(p)
    <3>1. PICK p \in Orders : Persist(p)
      BY <2>3
    <3> DEFINE filled == Least(rows[p].filled + 1, rows[p].amount)
               margin == AtLeastZero(rows[p].margin - Margin)
               status == IF rows[p].filled + 1 >= rows[p].amount THEN "filled"
                         ELSE "partially_filled"
               row == [rows[p] EXCEPT !.filled = filled, !.margin = margin, !.status = status]
    <3>2. rows' = [rows EXCEPT ![p] = row] /\ rest' = rest
      BY <3>1 DEF Persist, TypeOK, StoreOK
    <3>3. status \in Over /\ status # "none"
      BY DEF Over
    <3> HIDE DEF filled, margin, status
    <3>4. row.status = status
      <4>1. rows[p] \in Row
        BY <3>1 DEF TypeOK, StoreOK
      <4> QED BY <4>1 DEF Row
    <3> HIDE DEF row
    <3> QED BY <3>1, <3>2, <3>3, <3>4 DEF TypeOK, StoreOK
  <2> QED BY <2>1, <2>2, <2>3
<1>3. ASSUME NEW o \in Orders, Started(o) PROVE Started(o)'
  BY <1>1, <1>2, <1>3 DEF Started
<1> QED BY <1>1, <1>2, <1>3 DEF StaysGone

\* So does a request that is cut.
LEMMA CutFrame ==
  ASSUME TypeOK, NEW r \in Requests, Cut(r)
  PROVE  /\ OthersStay(r) /\ pc'[r] = "idle" /\ req'[r].done = {}
         /\ answered' = answered /\ \A o \in Orders : StaysGone(o)
<1>1. Finish(r) /\ UNCHANGED <<rows, rest, answered>>
  BY DEF Cut
<1>2. OthersStay(r) /\ pc'[r] = "idle" /\ req'[r] = NoReq
  BY <1>1, Others DEF TypeOK, Finish
<1>3. ASSUME NEW o \in Orders, Started(o) PROVE Started(o)'
  BY <1>1, <1>2, <1>3, StartedStays DEF Started, CreateLabels
<1> QED BY <1>1, <1>2, <1>3 DEF StaysGone, NoReq

\* A dropped error leaves a cancel that stands for nothing.
LEMMA IgnoredFrame ==
  ASSUME TypeOK, NEW r \in Requests, Ignored(r)
  PROVE  /\ OthersStay(r) /\ pc'[r] \in {"rejectrefund", "unfreeze", "read"}
         /\ req'[r].done = req[r].done
         /\ answered' = answered /\ \A o \in Orders : StaysGone(o)
<1>1. UNCHANGED <<rows, rest, answered>> /\ pc[r] \in {"reject", "release", "mark"}
  BY DEF Ignored
<1>2. req[r] \in Locals
  BY DEF TypeOK, RequestsOK
<1>3. /\ OthersStay(r) /\ req'[r].done = req[r].done
      /\ \/ pc'[r] \in {"rejectrefund", "unfreeze"} /\ req'[r] = req[r] /\ pc[r] # "mark"
         \/ pc'[r] = "read"
  <2>1. CASE (Goto(r, "rejectrefund") \/ Goto(r, "unfreeze")) /\ UNCHANGED req /\ pc[r] # "mark"
    BY <2>1, OthersGo DEF TypeOK
  <2> DEFINE q == [req[r] EXCEPT !.order = None, !.late = FALSE]
  <2>2. CASE Goto(r, "read") /\ req' = [req EXCEPT ![r] = q]
    <3>1. q.done = req[r].done
      BY <1>2 DEF Locals
    <3> HIDE DEF q
    <3>2. OthersStay(r) /\ pc'[r] = "read" /\ req'[r] = q
      BY <2>2, Others DEF TypeOK
    <3> QED BY <3>1, <3>2
  <2> QED BY <2>1, <2>2 DEF Ignored
<1>4. ASSUME NEW o \in Orders, Started(o) PROVE Started(o)'
  <2>1. pc'[r] \in CreateLabels => req'[r].order # o
    BY <1>1, <1>3, <1>4 DEF Started, CreateLabels
  <2> QED BY <1>1, <1>3, <1>4, <2>1, StartedStays DEF Started
<1> QED BY <1>1, <1>3, <1>4 DEF StaysGone

\* What a request's step must keep for the invariant to hold after it.
LEMMA StepKeepsCancel ==
  ASSUME TypeOK, CancelInv, NEW r \in Requests, OthersStay(r),
         \A o \in Orders \ Amendable : StaysGone(o),
         answered' \in {answered, answered \cup req[r].done},
         pc'[r] \in UpdateLabels => req'[r].order \in Amendable,
         \A o \in req'[r].done \ Amendable : o \in req[r].done \/ Gone(o)',
         \A o \in Orders \ Amendable :
            (pc'[r] \in {"cancel", "mark"} /\ req'[r].late /\ req'[r].order = o)
               => Started(o)' /\ (pc'[r] = "mark" => rest'[o] = 0),
         TypeOK'
  PROVE  CancelInv'
<1>1. ASSUME NEW o \in Orders \ Amendable, Gone(o) PROVE Gone(o)'
  BY <1>1 DEF Gone, StaysGone
<1>2. \A s \in Requests : req[s].done \subseteq Orders /\ req'[s].done \subseteq Orders
  <2>1. \A s \in Requests : req[s] \in Locals /\ req'[s] \in Locals
    BY DEF TypeOK, RequestsOK
  <2> QED BY <2>1 DEF Locals
<1>3. \A s \in Requests : pc'[s] \in UpdateLabels => req'[s].order \in Amendable
  BY DEF CancelInv, OthersStay
<1>4. ASSUME NEW o \in answered' \ Amendable PROVE Gone(o)'
  <2>1. o \in Orders /\ Gone(o)
    BY <1>4 DEF CancelInv, TypeOK, StoreOK
  <2> QED BY <1>1, <1>4, <2>1
<1>5. ASSUME NEW s \in Requests, NEW o \in req'[s].done \ Amendable PROVE Gone(o)'
  <2>1. o \in req[s].done \/ Gone(o)'
    BY <1>5 DEF OthersStay
  <2>2. o \in req[s].done => Gone(o)
    BY <1>5 DEF CancelInv
  <2> QED BY <1>1, <1>2, <1>5, <2>1, <2>2
<1>6. ASSUME NEW s \in Requests, NEW o \in Orders \ Amendable,
             pc'[s] \in {"cancel", "mark"}, req'[s].late, req'[s].order = o
      PROVE  Started(o)' /\ (pc'[s] = "mark" => rest'[o] = 0)
  <2>1. CASE s = r
    BY <1>6, <2>1
  <2>2. CASE s # r
    <3>1. pc'[s] = pc[s] /\ req'[s] = req[s]
      BY <1>6, <2>2 DEF OthersStay
    <3>2. Started(o) /\ (pc[s] = "mark" => rest[o] = 0)
      BY <1>6, <3>1 DEF CancelInv
    <3> QED BY <1>6, <3>1, <3>2 DEF StaysGone
  <2> QED BY <2>1, <2>2
<1>7. \A s \in Requests : pc'[s] \in {"cancel", "mark"} => req'[s].order \in Orders
  BY DEF TypeOK, RequestsOK
<1>8. ASSUME NEW s \in Requests, pc'[s] \in {"cancel", "mark"}, req'[s].late,
             req'[s].order \notin Amendable
      PROVE  (Started(req[s].order))' /\ (pc'[s] = "mark" => rest'[req'[s].order] = 0)
  <2>1. PICK o \in Orders \ Amendable : o = req'[s].order
    BY <1>7, <1>8
  <2>2. Started(o)' /\ (pc'[s] = "mark" => rest'[o] = 0)
    BY <1>6, <1>8, <2>1
  <2> QED BY <2>1, <2>2 DEF Started
<1> QED BY <1>3, <1>4, <1>5, <1>8 DEF CancelInv

\* A restart forgets the requests and restores open orders only.
LEMMA CrashKeepsCancel ==
  ASSUME TypeOK, CancelInv, Crash
  PROVE  CancelInv'
<1>1. PICK taken \in [Orders -> {0} \cup Quantities] :
        /\ \A o \in Orders : taken[o] <= Recovered(o)
        /\ rest' = [o \in Orders |-> Recovered(o) - taken[o]]
  BY DEF Crash
<1>2. /\ pc' = [r \in Requests |-> "idle"] /\ req' = [r \in Requests |-> NoReq]
      /\ UNCHANGED <<rows, answered>>
  BY DEF Crash
<1>3. ASSUME NEW o \in Orders, rows[o].status \in Over PROVE rest'[o] = 0
  <2>1. Recovered(o) = 0
    BY <1>3 DEF Recovered, Restored, Over
  <2>2. taken[o] \in Nat
    <3>1. taken[o] \in {0} \cup Quantities
      BY <1>1, <1>3
    <3>2. \A n \in {0} \cup Quantities : n \in Nat
      BY AmountAssumption
    <3> QED BY <3>1, <3>2
  <2> QED BY <1>1, <1>3, <2>1, <2>2
<1>4. ASSUME NEW o \in answered \ Amendable PROVE Gone(o)'
  <2>1. o \in Orders /\ Gone(o)
    BY <1>4 DEF CancelInv, TypeOK, StoreOK
  <2>2. Started(o)'
    BY <1>2, <2>1 DEF Gone, Started, CreateLabels
  <2> QED BY <1>2, <1>3, <2>1, <2>2 DEF Gone
<1> QED BY <1>2, <1>4 DEF CancelInv, UpdateLabels, NoReq

LEMMA CancelInvStep ==
  ASSUME TypeOK, CancelInv, TypeOK', [Next]_vars
  PROVE  CancelInv'
<1> USE DEF CreateLabels, UpdateLabels, CancelLabels
<1>1. ASSUME NEW r \in Requests,
             CreateStep(r) \/ \E o \in Orders, n \in Quantities, kind \in Kinds : Create(r, o, kind, n)
      PROVE  CancelInv'
  BY <1>1, CreateFrame, StepKeepsCancel
<1>2. ASSUME NEW r \in Requests,
             UpdateStep(r) \/ \E o \in Orders, n \in Quantities : Update(r, o, n)
      PROVE  CancelInv'
  BY <1>2, UpdateFrame, StepKeepsCancel
<1>3. ASSUME NEW r \in Requests, CancelStep(r) \/ \E S \in SUBSET Orders : Cancel(r, S)
      PROVE  CancelInv'
  BY <1>3, CancelFrame, StepKeepsCancel
<1>4. ASSUME NEW r \in Requests, Cut(r) PROVE CancelInv'
  BY <1>4, CutFrame, StepKeepsCancel
<1>5. CASE (\E o \in Orders : Take(o) \/ Persist(o)) \/ UNCHANGED vars
  <2>1. UNCHANGED <<pc, req, answered>> /\ \A o \in Orders : StaysGone(o)
    BY <1>5, MarketFrame
  <2>2. CASE Requests = {}
    BY <2>1, <2>2 DEF CancelInv, Gone, StaysGone, TypeOK, StoreOK
  <2>3. CASE Requests # {}
    <3>1. PICK r \in Requests : TRUE
      BY <2>3
    <3>2. OthersStay(r) /\ pc'[r] = pc[r] /\ req'[r] = req[r]
      BY <2>1 DEF OthersStay
    <3>3. ASSUME NEW o \in Orders \ Amendable, pc[r] \in {"cancel", "mark"}, req[r].late,
                 req[r].order = o
          PROVE  Started(o)' /\ (pc[r] = "mark" => rest'[o] = 0)
      <4>1. Started(o) /\ (pc[r] = "mark" => rest[o] = 0)
        BY <3>1, <3>3 DEF CancelInv
      <4> QED BY <2>1, <3>3, <4>1 DEF StaysGone
    <3>4. pc[r] \in UpdateLabels => req[r].order \in Amendable
      BY <3>1 DEF CancelInv
    <3> QED BY <2>1, <3>1, <3>2, <3>3, <3>4, StepKeepsCancel
  <2> QED BY <2>2, <2>3
<1>6. CASE Crash
  BY <1>6, CrashKeepsCancel
<1>7. ASSUME NEW r \in Requests, Ignored(r) PROVE CancelInv'
  BY <1>7, IgnoredFrame, StepKeepsCancel
<1> QED BY <1>1, <1>2, <1>3, <1>4, <1>5, <1>6, <1>7 DEF Next, Call

\* Once a cancel of an order nobody amends was answered, no later statement of
\* any request, no late trade and no restart brings lots of it to the book
\* (order.rs cancel_order, batch_cancel; engine.rs recover_orders_from_db).
THEOREM CancelIsKept == Spec => []CancelHolds
<1>1. Init => CancelInv
  BY InitCancel
<1>2. TypeOK /\ TypeOK' /\ CancelInv /\ [Next]_vars => CancelInv'
  BY CancelInvStep
<1>3. CancelInv => CancelHolds
  BY DEF CancelInv, CancelHolds, Gone
<1> QED BY <1>1, <1>2, <1>3, OrderFlowTypeCorrect, PTL DEF Spec

(***************************************************************************)
(* Filled amounts are never overstated.                                    *)
(***************************************************************************)

\* The trades of an order that its row may already show.
Spare(o) == traded[o] - pending[o]

\* The filled amount a request is about to write.
Holding == {"record", "pull", "amend", "resubmit", "rerecord"}
HeldBy(r) ==
    CASE pc[r] = "record" -> req[r].taken
      [] pc[r] = "rerecord" -> req[r].filled + req[r].taken
      [] OTHER -> req[r].filled

RowsFit == \A o \in Orders : rows[o].filled <= Spare(o)
Fits(r) ==
    \A o \in Orders : pc[r] \in Holding /\ req[r].order = o => HeldBy(r) <= Spare(o)
FillInv == RowsFit /\ \A r \in Requests : Fits(r)

SpareGrows == \A o \in Orders : Spare(o)' >= Spare(o)

LEMMA SpareInt == ASSUME StoreOK, NEW o \in Orders PROVE Spare(o) \in Int
BY DEF StoreOK, Spare

LEMMA HeldInt ==
  ASSUME TypeOK, NEW r \in Requests, pc[r] \in Holding
  PROVE  HeldBy(r) \in Int
BY AtWork DEF Holding, HeldBy

LEMMA InitFill == Init => FillInv
BY DEF Init, FillInv, RowsFit, Fits, Spare, Holding, NoRow

\* What a step of request r must keep.
LEMMA StepKeepsFill ==
  ASSUME TypeOK, TypeOK', FillInv, NEW r \in Requests, OthersStay(r), SpareGrows, RowsFit', Fits(r)'
  PROVE  FillInv'
<1>1. ASSUME NEW s \in Requests, s # r PROVE Fits(s)'
  <2>1. SUFFICES ASSUME NEW o \in Orders, pc'[s] \in Holding, req'[s].order = o
                 PROVE  HeldBy(s)' <= Spare(o)'
    BY DEF Fits
  <2>2. pc'[s] = pc[s] /\ req'[s] = req[s]
    BY <1>1 DEF OthersStay
  <2>3. HeldBy(s)' = HeldBy(s)
    BY <2>2 DEF HeldBy
  <2>4. HeldBy(s) <= Spare(o) /\ HeldBy(s) \in Int
    BY <1>1, <2>1, <2>2, HeldInt DEF FillInv, Fits
  <2>5. Spare(o)' >= Spare(o) /\ Spare(o) \in Int /\ Spare(o)' \in Int
    BY <2>1, SpareInt DEF SpareGrows, TypeOK, StoreOK, Spare
  <2> QED BY <2>3, <2>4, <2>5
<1> QED BY <1>1 DEF FillInv

\* A step that neither trades nor persists, nor raises a filled amount.
LEMMA QuietRows ==
  ASSUME TypeOK, TypeOK', FillInv, UNCHANGED <<traded, pending>>,
         \A o \in Orders : rows'[o].filled = rows[o].filled
  PROVE  SpareGrows /\ RowsFit'
<1>1. \A o \in Orders : Spare(o)' = Spare(o) /\ Spare(o) \in Int
  BY SpareInt DEF Spare, TypeOK
<1> QED BY <1>1 DEF SpareGrows, RowsFit, FillInv

LEMMA QuietKeepsFill ==
  ASSUME TypeOK, TypeOK', FillInv, NEW r \in Requests, OthersStay(r),
         UNCHANGED <<traded, pending>>, pc'[r] \notin Holding,
         \A o \in Orders : rows'[o].filled = rows[o].filled
  PROVE  FillInv'
<1>1. Fits(r)'
  BY DEF Fits
<1> QED BY <1>1, QuietRows, StepKeepsFill

\* The lots that an order's entry takes are spare from then on.
LEMMA EnterFill ==
  ASSUME TypeOK, NEW o \in Orders, NEW kind, NEW n \in Nat, NEW k \in 0..n, Enter(o, kind, n, k)
  PROVE  SpareGrows /\ Spare(o)' = Spare(o) + k
BY DEF Enter, SpareGrows, Spare, TypeOK, StoreOK

LEMMA CreateFill ==
  ASSUME TypeOK, TypeOK', FillInv, NEW r \in Requests,
         CreateStep(r) \/ \E o \in Orders, n \in Quantities, kind \in Kinds : Create(r, o, kind, n)
  PROVE  FillInv'
<1> USE DEF Holding, CreateLabels
<1>1. OthersStay(r)
  BY CreateFrame
<1>2. \A o \in Orders : rows[o] \in Row
  BY DEF TypeOK, StoreOK
<1>3. CASE \/ \E o \in Orders, n \in Quantities, kind \in Kinds : Create(r, o, kind, n)
           \/ Slippage(r) \/ Reject(r) \/ RejectRefund(r) \/ Release(r) \/ Unfreeze(r)
  <2>1. UNCHANGED <<traded, pending>>
    BY <1>3 DEF Create, Slippage, Reject, RejectRefund, Release, Unfreeze, bounds
  <2>2. \A o \in Orders : rows'[o].filled = rows[o].filled
    <3>1. CASE Reject(r)
      BY <1>2, <3>1 DEF Reject, TypeOK, StoreOK, Row
    <3>2. CASE Unfreeze(r)
      BY <1>2, <3>2 DEF Unfreeze, TypeOK, StoreOK, Row
    <3>3. CASE ~Reject(r) /\ ~Unfreeze(r)
      BY <1>3, <3>3 DEF Create, Slippage, RejectRefund, Release
    <3> QED BY <3>1, <3>2, <3>3
  <2>3. pc'[r] \notin Holding
    BY <1>3 DEF Create, Slippage, Reject, RejectRefund, Release, Unfreeze, Goto, Finish, TypeOK,
         RequestsOK
  <2> QED BY SMTT(30), <1>1, <2>1, <2>2, <2>3, QuietKeepsFill
<1>4. CASE Freeze(r)
  <2>1. UNCHANGED <<traded, pending>> /\ pc'[r] \notin Holding
    BY <1>4 DEF Freeze, Goto, TypeOK, RequestsOK
  <2>2. \A o \in Orders : rows'[o].filled = rows[o].filled \/ rows'[o].filled = 0
    BY <1>4 DEF Freeze, TypeOK, StoreOK
  <2>3. \A o \in Orders : rows[o].filled \in Nat
    BY <1>2 DEF Row
  <2>4. \A o \in Orders : Spare(o)' = Spare(o) /\ Spare(o) \in Int /\ rows[o].filled <= Spare(o)
    BY <2>1, SpareInt DEF Spare, TypeOK, FillInv, RowsFit
  <2>5. SpareGrows /\ RowsFit' /\ Fits(r)'
    BY <2>1, <2>2, <2>3, <2>4 DEF SpareGrows, RowsFit, Fits
  <2> QED BY <1>1, <2>5, StepKeepsFill
<1>5. CASE Submit(r)
  <2>1. pc[r] = "submit" /\ Goto(r, "record") /\ rows' = rows
    BY <1>5 DEF Submit
  <2>2. req[r] \in Locals /\ req[r].order \in Orders /\ req[r].amount \in Nat
    BY <2>1, AtWork
  <2>3. PICK k \in 0..req[r].amount :
          /\ Enter(req[r].order, req[r].kind, req[r].amount, k)
          /\ req' = [req EXCEPT ![r].taken = k]
    BY <1>5 DEF Submit
  <2>4. SpareGrows /\ \A o \in Orders : o = req[r].order => Spare(o)' = Spare(o) + k
    BY <2>2, <2>3, EnterFill
  <2>5. pc'[r] = "record" /\ req'[r].order = req[r].order /\ req'[r].taken = k
    BY <2>1, <2>2, <2>3 DEF Goto, TypeOK, RequestsOK, Locals
  <2>6. \A o \in Orders : /\ Spare(o) \in Int /\ Spare(o)' \in Int
                          /\ rows[o].filled \in Nat /\ rows[o].filled <= Spare(o)
    BY <1>2, SpareInt DEF TypeOK, StoreOK, Spare, FillInv, RowsFit, Row
  <2>7. RowsFit'
    BY <2>1, <2>4, <2>6 DEF SpareGrows, RowsFit
  <2>8. Fits(r)'
    <3>1. HeldBy(r)' = k
      BY <2>5 DEF HeldBy
    <3> QED BY <2>3, <2>4, <2>5, <2>6, <3>1 DEF Fits
  <2> QED BY <1>1, <2>4, <2>7, <2>8, StepKeepsFill
<1>6. CASE Record(r)
  <2>1. pc[r] = "record" /\ UNCHANGED <<traded, pending>>
    BY <1>6 DEF Record
  <2>2. req[r].order \in Orders /\ req[r].taken <= Spare(req[r].order)
    BY <2>1, AtWork DEF FillInv, Fits, HeldBy
  <2>3. \A o \in Orders : rows'[o].filled = IF o = req[r].order THEN req[r].taken ELSE rows[o].filled
    BY <1>2, <1>6, <2>2 DEF Record, TypeOK, StoreOK, Row
  <2>4. \A o \in Orders : Spare(o)' = Spare(o) /\ Spare(o) \in Int
    BY <2>1, SpareInt DEF Spare, TypeOK
  <2>5. SpareGrows /\ RowsFit'
    BY <2>2, <2>3, <2>4 DEF SpareGrows, RowsFit, FillInv
  <2>6. pc'[r] \notin Holding
    BY <1>6 DEF Record, Goto, Finish, TypeOK, RequestsOK
  <2> QED BY <1>1, <2>5, <2>6, StepKeepsFill DEF Fits
<1> QED BY <1>3, <1>4, <1>5, <1>6 DEF CreateStep

LEMMA UpdateFill ==
  ASSUME TypeOK, TypeOK', FillInv, CancelInv, NEW r \in Requests,
         UpdateStep(r) \/ \E o \in Orders, n \in Quantities : Update(r, o, n)
  PROVE  FillInv'
<1> USE DEF Holding, UpdateLabels
<1>1. OthersStay(r)
  BY UpdateFrame
<1>2. \A o \in Orders : /\ rows[o] \in Row /\ rows[o].filled \in Nat
                        /\ Spare(o) \in Int /\ Spare(o)' \in Int /\ rows[o].filled <= Spare(o)
  <2>1. \A o \in Orders : rows[o] \in Row
    BY DEF TypeOK, StoreOK
  <2> QED BY <2>1, SpareInt DEF TypeOK, StoreOK, Spare, FillInv, RowsFit, Row
<1>3. CASE \E o \in Orders, n \in Quantities : Update(r, o, n)
  <2>1. PICK o \in Orders, n \in Quantities : Update(r, o, n)
    BY <1>3
  <2> DEFINE q == [NoReq EXCEPT !.order = o, !.amount = n, !.kind = rows[o].kind,
                                !.filled = rows[o].filled]
  <2>2. /\ Goto(r, "pull") /\ req' = [req EXCEPT ![r] = q] /\ q.order = o
        /\ q.filled = rows[o].filled /\ UNCHANGED <<rows, traded, pending>>
    BY <2>1 DEF Update, NoReq
  <2> HIDE DEF q
  <2>3. pc'[r] = "pull" /\ req'[r] = q
    BY <2>2, Others DEF TypeOK
  <2>4. SpareGrows /\ RowsFit'
    BY <2>2, QuietRows
  <2>5. Fits(r)'
    BY <1>2, <2>1, <2>2, <2>3 DEF Fits, HeldBy, Spare
  <2> QED BY <1>1, <2>4, <2>5, StepKeepsFill
<1>4. CASE Pull(r) \/ Amend(r)
  <2>1. pc[r] \in {"pull", "amend"} /\ UNCHANGED <<traded, pending>>
    BY <1>4 DEF Pull, Amend
  <2>2. req[r].order \in Orders
    BY <2>1, AtWork
  <2>3. \A o \in Orders : rows'[o].filled = rows[o].filled
    <3>1. CASE Pull(r)
      BY <3>1 DEF Pull
    <3>2. CASE Amend(r)
      BY <1>2, <2>2, <3>2 DEF Amend, TypeOK, StoreOK, Row
    <3> QED BY <1>4, <3>1, <3>2
  <2>4. SpareGrows /\ RowsFit'
    BY <2>1, <2>3, QuietRows
  <2>5. pc'[r] = "idle" \/ (pc'[r] \in {"amend", "resubmit"} /\ req'[r] = req[r])
    BY <1>4 DEF Pull, Amend, Goto, Finish, TypeOK, RequestsOK
  <2>6. Fits(r)'
    <3>1. SUFFICES ASSUME NEW o \in Orders, pc'[r] \in Holding, req'[r].order = o
                   PROVE  HeldBy(r)' <= Spare(o)'
      BY DEF Fits
    <3>2. HeldBy(r)' = req[r].filled /\ HeldBy(r) = req[r].filled /\ req[r].order = o
      BY <2>1, <2>5, <3>1 DEF HeldBy
    <3>3. Spare(o)' = Spare(o)
      BY <2>1 DEF Spare
    <3> QED BY <2>1, <3>2, <3>3 DEF FillInv, Fits
  <2> QED BY <1>1, <2>4, <2>6, StepKeepsFill
<1>5. CASE Resubmit(r)
  <2>1. pc[r] = "resubmit" /\ Goto(r, "rerecord") /\ rows' = rows
    BY <1>5 DEF Resubmit
  <2>2. /\ req[r] \in Locals /\ req[r].order \in Orders /\ req[r].filled \in Nat
        /\ Unfilled(req[r]) \in Nat /\ req[r].kind \in {"limit", "market"}
    BY <2>1, AtWork
  <2>3. PICK k \in 0..Unfilled(req[r]) :
          /\ \E kind \in {"limit", "market"} : Enter(req[r].order, kind, Unfilled(req[r]), k)
          /\ req' = [req EXCEPT ![r].taken = k]
    BY <1>5, <2>2 DEF Resubmit
  <2>4. SpareGrows /\ \A o \in Orders : o = req[r].order => Spare(o)' = Spare(o) + k
    BY <2>2, <2>3, EnterFill
  <2>5. /\ pc'[r] = "rerecord" /\ req'[r].order = req[r].order /\ req'[r].taken = k
        /\ req'[r].filled = req[r].filled
    BY <2>1, <2>2, <2>3 DEF Goto, TypeOK, RequestsOK, Locals
  <2>6. RowsFit'
    BY <1>2, <2>1, <2>4 DEF SpareGrows, RowsFit
  <2>7. req[r].filled <= Spare(req[r].order)
    BY <2>1, <2>2 DEF FillInv, Fits, HeldBy
  <2>8. Fits(r)'
    <3>1. HeldBy(r)' = req[r].filled + k
      BY <2>5 DEF HeldBy
    <3> QED BY <1>2, <2>2, <2>3, <2>4, <2>5, <2>7, <3>1 DEF Fits
  <2> QED BY <1>1, <2>4, <2>6, <2>8, StepKeepsFill
<1>6. CASE Rerecord(r)
  <2> DEFINE n == req[r].filled + req[r].taken
  <2>1. pc[r] = "rerecord" /\ UNCHANGED <<traded, pending>> /\ Finish(r)
    BY <1>6 DEF Rerecord
  <2>2. req[r].order \in Orders /\ n <= Spare(req[r].order)
    BY <2>1, AtWork DEF FillInv, Fits, HeldBy
  <2>3. \A o \in Orders : rows'[o].filled = IF o = req[r].order THEN n ELSE rows[o].filled
    BY <1>2, <1>6, <2>2 DEF Rerecord, TypeOK, StoreOK, Row
  <2>4. \A o \in Orders : Spare(o)' = Spare(o) /\ Spare(o) \in Int
    BY <2>1, SpareInt DEF Spare, TypeOK
  <2> HIDE DEF n
  <2>5. SpareGrows /\ RowsFit'
    BY <2>2, <2>3, <2>4 DEF SpareGrows, RowsFit, FillInv
  <2>6. pc'[r] \notin Holding
    BY <2>1 DEF Goto, Finish, TypeOK, RequestsOK
  <2> QED BY <1>1, <2>5, <2>6, StepKeepsFill DEF Fits
<1> QED BY <1>3, <1>4, <1>5, <1>6 DEF UpdateStep

LEMMA CancelFill ==
  ASSUME TypeOK, TypeOK', FillInv, CancelInv, NEW r \in Requests,
         \/ CancelStep(r) \/ \E S \in SUBSET Orders : Cancel(r, S)
         \/ Cut(r) \/ Ignored(r)
  PROVE  FillInv'
<1>1. OthersStay(r) /\ pc'[r] \notin Holding
  BY SMTT(30), CancelFrame, CutFrame, IgnoredFrame DEF Holding, CancelLabels
<1>2. UNCHANGED <<traded, pending>>
  BY DEF CancelStep, Cancel, Read, EngineCancel, Mark, RefundAll, Cut, Ignored
<1>3. \A o \in Orders : rows'[o].filled = rows[o].filled
  <2>1. CASE Mark(r)
    <3>1. \A o \in Orders : rows[o] \in Row
      BY SMTT(30) DEF TypeOK, StoreOK
    <3> QED BY <2>1, <3>1 DEF Mark, TypeOK, StoreOK, Row
  <2>2. CASE ~Mark(r)
    BY <2>2 DEF CancelStep, Cancel, Read, EngineCancel, RefundAll, Cut, Ignored
  <2> QED BY <2>1, <2>2
<1> QED BY <1>1, <1>2, <1>3, QuietKeepsFill

\* A taken lot is pending at once; a persisted one moves from pending to the row.
LEMMA MarketFill ==
  ASSUME TypeOK, TypeOK', FillInv, \E o \in Orders : Take(o) \/ Persist(o)
  PROVE  FillInv'
<1>1. UNCHANGED <<pc, req>>
  BY DEF Take, Persist
<1>2. SpareGrows /\ RowsFit'
  <2>1. CASE \E o \in Orders : Take(o)
    <3>1. PICK o \in Orders : Take(o)
      BY <2>1
    <3>2. \A p \in Orders : Spare(p)' = Spare(p) /\ Spare(p) \in Int /\ rows' = rows
      BY <3>1, SpareInt DEF Take, TypeOK, StoreOK, Spare
    <3> QED BY <3>2 DEF SpareGrows, RowsFit, FillInv
  <2>2. CASE \E o \in Orders : Persist(o)
    <3>1. PICK o \in Orders : Persist(o)
      BY <2>2
    <3>2. \A p \in Orders : /\ Spare(p) \in Int
                            /\ Spare(p)' = IF p = o THEN Spare(p) + 1 ELSE Spare(p)
      BY <3>1, SpareInt DEF Persist, TypeOK, StoreOK, Spare
    <3> DEFINE filled == Least(rows[o].filled + 1, rows[o].amount)
               margin == AtLeastZero(rows[o].margin - Margin)
               status == IF rows[o].filled + 1 >= rows[o].amount THEN "filled"
                         ELSE "partially_filled"
               row == [rows[o] EXCEPT !.filled = filled, !.margin = margin, !.status = status]
    <3>3. rows[o] \in Row /\ rows[o].filled \in Nat /\ rows[o].amount \in Nat
      BY <3>1 DEF TypeOK, StoreOK, Row
    <3>4. filled <= rows[o].filled + 1 /\ filled \in Nat
      BY <3>3 DEF Least
    <3>5. rows' = [rows EXCEPT ![o] = row]
      BY <3>1 DEF Persist, TypeOK, StoreOK
    <3> HIDE DEF filled, margin, status
    <3>6. row.filled = filled
      BY <3>3 DEF Row
    <3> HIDE DEF row
    <3>7. \A p \in Orders : rows'[p] = IF p = o THEN row ELSE rows[p]
      BY <3>5 DEF TypeOK, StoreOK
    <3> QED BY <3>1, <3>2, <3>3, <3>4, <3>6, <3>7 DEF SpareGrows, RowsFit, FillInv
  <2> QED BY <2>1, <2>2
<1>3. ASSUME NEW r \in Requests PROVE Fits(r)'
  <2>1. SUFFICES ASSUME NEW o \in Orders, pc[r] \in Holding, req[r].order = o
                 PROVE  HeldBy(r) <= Spare(o)'
    BY <1>1 DEF Fits, HeldBy
  <2>2. HeldBy(r) <= Spare(o) /\ HeldBy(r) \in Int
    BY <2>1, HeldInt DEF FillInv, Fits
  <2>3. Spare(o)' >= Spare(o) /\ Spare(o) \in Int /\ Spare(o)' \in Int
    BY <1>2, <2>1, SpareInt DEF SpareGrows, TypeOK, StoreOK, Spare
  <2> QED BY <2>2, <2>3
<1> QED BY <1>2, <1>3 DEF FillInv

\* A restart loses what was pending, so there is only more to show.
LEMMA CrashFill ==
  ASSUME TypeOK, TypeOK', FillInv, Crash
  PROVE  FillInv'
<1>1. PICK taken \in [Orders -> {0} \cup Quantities] :
        traded' = [o \in Orders |-> traded[o] + taken[o]]
  BY DEF Crash
<1>2. /\ pending' = [o \in Orders |-> 0] /\ pc' = [r \in Requests |-> "idle"]
      /\ rows' = rows
  BY DEF Crash
<1>3. \A o \in Orders : taken[o] \in Nat
  <2>1. \A n \in {0} \cup Quantities : n \in Nat
    BY AmountAssumption
  <2>2. \A o \in Orders : taken[o] \in {0} \cup Quantities
    BY <1>1
  <2> QED BY <2>1, <2>2
<1>4. \A o \in Orders : /\ Spare(o)' >= Spare(o) /\ Spare(o) \in Int /\ Spare(o)' \in Int
                        /\ rows[o].filled \in Nat
  <2>1. \A o \in Orders : rows[o] \in Row
    BY DEF TypeOK, StoreOK
  <2> QED BY <1>1, <1>2, <1>3, <2>1 DEF TypeOK, StoreOK, Spare, Row
<1>5. RowsFit'
  BY <1>2, <1>4 DEF RowsFit, FillInv
<1> QED BY <1>2, <1>5 DEF FillInv, Fits, Holding

LEMMA FillStep ==
  ASSUME TypeOK, TypeOK', CancelInv, FillInv, [Next]_vars
  PROVE  FillInv'
<1>1. CASE UNCHANGED vars
  BY <1>1 DEF vars, FillInv, RowsFit, Fits, HeldBy, Spare
<1>2. ASSUME NEW r \in Requests,
             Call(r) \/ CreateStep(r) \/ UpdateStep(r) \/ CancelStep(r) \/ Cut(r) \/ Ignored(r)
      PROVE  FillInv'
  BY <1>2, CreateFill, UpdateFill, CancelFill DEF Call
<1> QED BY <1>1, <1>2, MarketFill, CrashFill DEF Next

\* No order of the handlers' absolute writes, the pipeline's increments, dropped
\* requests and restarts makes a row show more lots filled than were traded
\* (order.rs create_order, update_order; orchestrator.rs persist_trade_with_tx).
THEOREM FilledIsTraded == Spec => []FilledNeverOverstated
<1>1. Init => FillInv
  BY InitFill
<1>2. TypeOK /\ TypeOK' /\ CancelInv /\ FillInv /\ [Next]_vars => FillInv'
  BY FillStep
<1>3. TypeOK /\ FillInv => FilledNeverOverstated
  <2>1. SUFFICES ASSUME TypeOK, FillInv, NEW o \in Orders PROVE rows[o].filled <= traded[o]
    BY DEF FilledNeverOverstated
  <2>2. rows[o] \in Row
    BY <2>1 DEF TypeOK, StoreOK
  <2>3. rows[o].filled \in Nat /\ traded[o] \in Nat /\ pending[o] \in Nat
    BY <2>1, <2>2 DEF TypeOK, StoreOK, Row
  <2> QED BY <2>1, <2>3 DEF FillInv, RowsFit, Spare
<1>4. Init => CancelInv
  BY InitCancel
<1>5. TypeOK /\ TypeOK' /\ CancelInv /\ [Next]_vars => CancelInv'
  BY CancelInvStep
<1> QED BY <1>1, <1>2, <1>3, <1>4, <1>5, OrderFlowTypeCorrect, PTL DEF Spec

(***************************************************************************)
(* The account.  Covered and NothingVanishes say what the balance is worth *)
(* over all orders; a step changes one order.  The books attribute to each *)
(* order the margin still frozen for it and the lots its positions paid,   *)
(* and to each cancel request what it will give back.                      *)
(***************************************************************************)

\* Request r works on order o.
Works(r, o) == pc[r] \notin {"idle", "read"} /\ req[r].order = o
Busy(o) == \E r \in Requests : Works(r, o)

\* No row, no lots.
Fresh(o, h, s) ==
    /\ rows[o].status = "none" /\ h = 0 /\ s = 0
    /\ traded[o] = 0 /\ pending[o] = 0 /\ rest[o] = 0

\* Nothing of the order can trade any more; what is frozen covers the lots no
\* position was paid for.
Ended(o, h, s) ==
    /\ pending[o] = 0 /\ rest[o] = 0 /\ s <= traded[o]
    /\ Collateral * (traded[o] - s) <= h

Dead(o, h, s) == rows[o].status \in {"cancelled", "rejected"} /\ Ended(o, h, s)

\* The frozen margin of the row covers its amount less the lots paid; what
\* traded, what waits and what rests fits into the amount.
Backed(o, h, s, filled) ==
    /\ rows[o].status \in {"open", "partially_filled", "filled"}
    /\ h = rows[o].margin
    /\ \E left \in Nat : h = left * Margin /\ rows[o].amount <= left + s
    /\ s <= filled /\ filled + pending[o] + rest[o] <= rows[o].amount
    /\ traded[o] = filled + pending[o]

Live(o, h, s) == Backed(o, h, s, rows[o].filled)

AtRest(o, h, s) == Fresh(o, h, s) \/ Live(o, h, s) \/ Dead(o, h, s)

\* The create request froze margin for the whole order.
Placed(r, o) ==
    /\ rows[o].amount = req[r].amount /\ rows[o].margin = req[r].amount * Margin
    /\ pending[o] = 0

\* ... and the engine answered.
Entered(r, o) ==
    LET q == req[r] IN
    /\ Placed(r, o) /\ q.taken <= q.amount /\ traded[o] = q.taken
    /\ rest[o] = IF q.kind = "limit" THEN q.amount - q.taken ELSE 0

\* ... and the row says so; nothing is left to be done for an open one.
Recorded(r, o) ==
    LET q == req[r] IN
    /\ Entered(r, o) /\ rows[o].filled = q.taken
    /\ rows[o].status = Answer(q.kind, q.amount, q.taken) /\ rows[o].status # "open"

\* What holds of the order while a request is at its label.
Stage(r, o, h, s, d) ==
    LET q == req[r]
        whole == q.amount * Margin
    IN
    /\ pc[r] = "freeze" => Fresh(o, h, s)
    /\ pc[r] \in {"slippage", "submit", "reject", "rejectrefund"} =>
          /\ Placed(r, o) /\ h = whole /\ s = 0 /\ traded[o] = 0 /\ rest[o] = 0
          /\ pc[r] = "rejectrefund" => rows[o].status = "rejected"
    /\ pc[r] = "record" => Entered(r, o) /\ h = whole /\ s = 0
    /\ pc[r] = "release" => Recorded(r, o) /\ h = whole /\ s = 0
    /\ pc[r] = "unfreeze" =>
          Recorded(r, o) /\ h = whole - Released(q.kind, q.amount, q.taken) /\ s = q.taken
    /\ pc[r] \in {"pull", "amend", "resubmit"} =>
          /\ Live(o, h, s) /\ pending[o] = 0 /\ rows[o].filled = q.filled
          /\ q.filled <= q.amount /\ q.amount <= rows[o].amount
          /\ pc[r] # "pull" => rest[o] = 0
          /\ pc[r] = "resubmit" => rows[o].amount = q.amount
    /\ pc[r] = "rerecord" =>
          Backed(o, h, s, q.filled + q.taken) /\ pending[o] = 0 /\ rows[o].amount = q.amount
    /\ pc[r] = "cancel" =>
          /\ Live(o, h, s) /\ pending[o] = 0 /\ d <= q.refund
          /\ q.refund - d + Collateral * (traded[o] - s) <= h
    /\ pc[r] = "mark" => Ended(o, h, s)

\* What a request will give back that is no order's any more.
Owes(r, d) ==
    /\ pc[r] \notin CancelLabels => d = 0
    /\ pc[r] \in {"read", "mark"} => d = req[r].refund

\* Requests keep apart: each order has at most one.
Apart ==
    /\ \A r \in Requests : pc[r] = "read" => req[r].order = None
    /\ \A o \in Orders, r, q \in Requests : Works(r, o) /\ Works(q, o) => r = q

Books(held, paid, due) ==
    /\ available + frozen + Collateral * SumFunctionOnSet(paid, Orders) = Deposit
    /\ SumFunctionOnSet(held, Orders) + SumFunctionOnSet(due, Requests) <= frozen
    /\ \A o \in Orders :
          Busy(o) \/ AtRest(o, held[o], paid[o])
    /\ \A r \in Requests, o \in Orders : Works(r, o) => Stage(r, o, held[o], paid[o], due[r])
    /\ \A r \in Requests : Owes(r, due[r])

\* The account does not change but for one order's share and one request's.
SameOrder(p) ==
    /\ rows'[p] = rows[p] /\ traded'[p] = traded[p]
    /\ pending'[p] = pending[p] /\ rest'[p] = rest[p]

\* A request's step on the order it works on or turns to: the share of the
\* order and the debt of the request go from h0, s0, d0 to h, s, d.
Handled(r, o, h0, s0, d0, h, s, d) ==
    /\ OthersStay(r) /\ \A p \in Orders \ {o} : SameOrder(p) /\ ~Works(r, p)'
    /\ pc'[r] = "read" => req'[r].order = None
    /\ available' + frozen' + Collateral * (s - s0) = available + frozen
    /\ h + d - (h0 + d0) <= frozen' - frozen
    /\ Works(r, o)' => Stage(r, o, h, s, d)'
    /\ Works(r, o)' \/ AtRest(o, h, s)'
    /\ Owes(r, d)'

LEMMA StageSame ==
  ASSUME NEW q \in Requests, NEW p \in Orders, NEW h, NEW s, NEW d, SameOrder(p),
         pc'[q] = pc[q], req'[q] = req[q]
  PROVE  /\ Stage(q, p, h, s, d)' <=> Stage(q, p, h, s, d)
         /\ Works(q, p)' <=> Works(q, p)
         /\ Owes(q, d)' <=> Owes(q, d)
BY DEF SameOrder, Stage, Works, Owes, Fresh, Ended, Backed, Live, Placed, Entered, Recorded

LEMMA RestSame ==
  ASSUME NEW p \in Orders, NEW h, NEW s, SameOrder(p), AtRest(p, h, s)
  PROVE  AtRest(p, h, s)'
BY DEF SameOrder, AtRest, Fresh, Ended, Backed, Live, Dead

\* What is attributed to one order or request is frozen.
LEMMA ShareFrozen ==
  ASSUME TypeOK, NEW held \in [Orders -> Nat], NEW paid \in [Orders -> Nat],
         NEW due \in [Requests -> Nat], Books(held, paid, due)
  PROVE  /\ SumFunctionOnSet(held, Orders) \in Nat /\ SumFunctionOnSet(due, Requests) \in Nat
         /\ SumFunctionOnSet(paid, Orders) \in Nat /\ frozen \in Int /\ available \in Int
         /\ \A o \in Orders : held[o] <= frozen
         /\ \A r \in Requests : due[r] <= frozen
         /\ \A o \in Orders, r \in Requests : held[o] + due[r] <= frozen
<1>1. /\ SumFunctionOnSet(held, Orders) \in Nat /\ SumFunctionOnSet(paid, Orders) \in Nat
      /\ SumFunctionOnSet(due, Requests) \in Nat
      /\ \A o \in Orders : held[o] \in Nat /\ held[o] <= SumFunctionOnSet(held, Orders)
      /\ \A r \in Requests : due[r] \in Nat /\ due[r] <= SumFunctionOnSet(due, Requests)
  BY FiniteAssumption, SumNat
<1>2. frozen \in Int /\ available \in Int
  BY DEF TypeOK, StoreOK
<1>3. SumFunctionOnSet(held, Orders) + SumFunctionOnSet(due, Requests) <= frozen
  BY DEF Books
<1> QED BY <1>1, <1>2, <1>3

\* Such a step keeps the books.
LEMMA Rebook ==
  ASSUME TypeOK, TypeOK', Apart, NEW held \in [Orders -> Nat], NEW paid \in [Orders -> Nat],
         NEW due \in [Requests -> Nat], NEW o \in Orders, NEW r \in Requests, NEW h \in Nat,
         NEW s \in Nat, NEW d \in Nat,
         Books(held, paid, due), Handled(r, o, held[o], paid[o], due[r], h, s, d),
         \A q \in Requests \ {r} : ~Works(q, o), \A p \in Orders \ {o} : ~Works(r, p)
  PROVE  Apart' /\ Books([held EXCEPT ![o] = h], [paid EXCEPT ![o] = s], [due EXCEPT ![r] = d])'
<1> DEFINE held2 == [held EXCEPT ![o] = h]
           paid2 == [paid EXCEPT ![o] = s]
           due2  == [due EXCEPT ![r] = d]
<1>1. /\ held2[o] = h /\ paid2[o] = s /\ due2[r] = d
      /\ \A p \in Orders \ {o} : held2[p] = held[p] /\ paid2[p] = paid[p]
      /\ \A q \in Requests \ {r} : due2[q] = due[q]
  OBVIOUS
<1>0. /\ \A p \in Orders : held[p] \in Int /\ held2[p] \in Int /\ paid[p] \in Int /\ paid2[p] \in Int
      /\ \A q \in Requests : due[q] \in Int /\ due2[q] \in Int
  OBVIOUS
<1>2. /\ OthersStay(r) /\ \A p \in Orders \ {o} : SameOrder(p) /\ ~Works(r, p)'
      /\ pc'[r] = "read" => req'[r].order = None
      /\ Works(r, o)' => Stage(r, o, h, s, d)'
      /\ Works(r, o)' \/ AtRest(o, h, s)'
      /\ Owes(r, d)'
  BY DEF Handled
<1>3. \A q \in Requests \ {r}, p \in Orders : Works(q, p)' <=> Works(q, p)
  BY <1>2 DEF OthersStay, Works
<1>4. Apart'
  <2>1. \A q \in Requests : pc'[q] = "read" => req'[q].order = None
    BY <1>2 DEF OthersStay, Apart
  <2>2. \A p \in Orders, q, t \in Requests : Works(q, p)' /\ Works(t, p)' => q = t
    BY <1>2, <1>3 DEF Apart
  <2> QED BY <2>1, <2>2 DEF Apart
<1>5. /\ available' + frozen' + Collateral * SumFunctionOnSet(paid2, Orders) = Deposit
      /\ SumFunctionOnSet(held2, Orders) + SumFunctionOnSet(due2, Requests) <= frozen'
  <2>1. /\ SumFunctionOnSet(paid2, Orders) = SumFunctionOnSet(paid, Orders) + s - paid[o]
        /\ SumFunctionOnSet(held2, Orders) = SumFunctionOnSet(held, Orders) + h - held[o]
        /\ SumFunctionOnSet(due2, Requests) = SumFunctionOnSet(due, Requests) + d - due[r]
    <3> HIDE DEF held2, paid2, due2
    <3>1. SumFunctionOnSet(paid2, Orders) = SumFunctionOnSet(paid, Orders) + s - paid[o]
      BY <1>1, <1>0, FiniteAssumption, SumChange
    <3>2. SumFunctionOnSet(held2, Orders) = SumFunctionOnSet(held, Orders) + h - held[o]
      BY <1>1, <1>0, FiniteAssumption, SumChange
    <3>3. SumFunctionOnSet(due2, Requests) = SumFunctionOnSet(due, Requests) + d - due[r]
      BY <1>1, <1>0, FiniteAssumption, SumChange
    <3> QED BY <3>1, <3>2, <3>3
  <2>2. /\ SumFunctionOnSet(paid, Orders) \in Int /\ SumFunctionOnSet(held, Orders) \in Int
        /\ SumFunctionOnSet(due, Requests) \in Int /\ available \in Int /\ frozen \in Int
    BY ShareFrozen
  <2>3. available' \in Int /\ frozen' \in Int
    BY DEF TypeOK, StoreOK
  <2>4. PICK H \in Int, P \in Int, D \in Int : /\ H = SumFunctionOnSet(held, Orders)
          /\ P = SumFunctionOnSet(paid, Orders) /\ D = SumFunctionOnSet(due, Requests)
    BY <2>2
  <2>5. PICK dh \in Int, dp \in Int, dd \in Int : dh = h - held[o] /\ dp = s - paid[o] /\ dd = d - due[r]
    OBVIOUS
  <2>6. available + frozen + Collateral * P = Deposit /\ H + D <= frozen
    BY <2>4 DEF Books
  <2>7. available' + frozen' + Collateral * dp = available + frozen
    BY <2>5 DEF Handled
  <2>8. dh + dd <= frozen' - frozen
    BY <2>2, <2>3, <2>5 DEF Handled
  <2>9. available' + frozen' + Collateral * (P + dp) = Deposit /\ (H + dh) + (D + dd) <= frozen'
    <3>1. /\ Collateral * (P + dp) = Collateral * P + Collateral * dp
          /\ Collateral * P \in Int /\ Collateral * dp \in Int
      BY AmountAssumption, TimesSum
    <3>2. available \in Int /\ frozen \in Int /\ available' \in Int /\ frozen' \in Int
      BY <2>2, <2>3
    <3> HIDE DEF held2, paid2, due2
    <3>3. PICK x \in Int, y \in Int : x = Collateral * P /\ y = Collateral * dp
                                   /\ Collateral * (P + dp) = x + y
      BY <3>1
    <3>4. available + frozen + x = Deposit /\ available' + frozen' + y = available + frozen
      BY <2>6, <2>7, <3>3
    <3>5. PICK a \in Int, f \in Int, a2 \in Int, f2 \in Int :
            a = available /\ f = frozen /\ a2 = available' /\ f2 = frozen'
      BY <3>2
    <3>6. a + f + x = Deposit /\ a2 + f2 + y = a + f /\ H + D <= f /\ dh + dd <= f2 - f
      BY <2>6, <2>8, <3>4, <3>5
    <3>7. a2 + f2 + (x + y) = Deposit /\ (H + dh) + (D + dd) <= f2
      BY <3>6, AmountAssumption
    <3> QED BY <3>3, <3>5, <3>7
  <2>10. /\ P + dp = SumFunctionOnSet(paid2, Orders) /\ H + dh = SumFunctionOnSet(held2, Orders)
         /\ D + dd = SumFunctionOnSet(due2, Requests)
    <3> HIDE DEF held2, paid2, due2
    <3> QED BY <2>1, <2>4, <2>5
  <2> QED BY <2>9, <2>10
<1> HIDE DEF held2, paid2, due2
<1>6. \A p \in Orders : Busy(p)' \/ AtRest(p, held2[p], paid2[p])'
  <2>1. CASE Works(r, o)' \/ AtRest(o, h, s)'
    <3> SUFFICES ASSUME NEW p \in Orders, ~Busy(p)' PROVE AtRest(p, held2[p], paid2[p])'
      OBVIOUS
    <3>1. CASE p = o
      BY <1>1, <1>2, <3>1 DEF Busy
    <3>2. CASE p # o
      <4>1. ~Busy(p)
        BY <1>2, <1>3, <3>2 DEF Busy
      <4>2. AtRest(p, held[p], paid[p])
        BY <4>1 DEF Books
      <4>3. AtRest(p, held[p], paid[p])'
        BY <1>2, <3>2, <4>2, RestSame
      <4> QED BY <1>1, <3>2, <4>3
    <3> QED BY <3>1, <3>2
  <2> QED BY <1>2, <2>1
<1>7. \A q \in Requests, p \in Orders : Works(q, p)' => Stage(q, p, held2[p], paid2[p], due2[q])'
  <2> SUFFICES ASSUME NEW q \in Requests, NEW p \in Orders, Works(q, p)'
               PROVE  Stage(q, p, held2[p], paid2[p], due2[q])'
    OBVIOUS
  <2>1. CASE q = r
    BY <1>1, <1>2, <2>1
  <2>2. CASE q # r
    <3>1. Works(q, p) /\ p # o
      BY <1>3, <2>2
    <3>2. Stage(q, p, held[p], paid[p], due[q])
      BY <3>1 DEF Books
    <3>3. Stage(q, p, held[p], paid[p], due[q])'
      BY <1>2, <2>2, <3>1, <3>2, StageSame DEF OthersStay
    <3> QED BY <1>1, <2>2, <3>1, <3>3
  <2> QED BY <2>1, <2>2
<1>8. \A q \in Requests : Owes(q, due2[q])'
  <2> SUFFICES ASSUME NEW q \in Requests, q # r PROVE Owes(q, due[q])'
    BY <1>1, <1>2
  <2> QED BY <1>2 DEF Books, Owes, OthersStay
<1>9. Books(held2, paid2, due2)'
  BY <1>5, <1>6, <1>7, <1>8 DEF Books
<1> QED BY <1>4, <1>9 DEF held2, paid2, due2

LEMMA LotsCost ==
  ASSUME NEW n \in Nat, NEW k \in Nat
  PROVE  /\ n * Margin \in Nat /\ n * Collateral \in Nat /\ n * Collateral <= n * Margin
         /\ n * Collateral = Collateral * n /\ 0 * Margin = 0 /\ Collateral * 0 = 0
         /\ (n + k) * Margin = n * Margin + k * Margin
         /\ Collateral * (n + k) = Collateral * n + Collateral * k
<1>1. PICK c \in Nat, b \in Nat : c = Collateral /\ b = Buffer /\ Margin = c + b
  BY AmountAssumption DEF Margin
<1>2. n * (c + b) = n * c + n * b /\ n * c \in Nat /\ n * b \in Nat /\ n * c = c * n
      /\ 0 * (c + b) = 0 /\ c * 0 = 0 /\ (n + k) * (c + b) = n * (c + b) + k * (c + b)
      /\ c * (n + k) = c * n + c * k
  OBVIOUS
<1>3. n * c <= n * (c + b) /\ n * (c + b) \in Nat
  BY <1>2
<1> QED BY <1>1, <1>2, <1>3

\* n lots cost what k of them and the others cost.
LEMMA LotsSplit ==
  ASSUME NEW n \in Nat, NEW k \in Nat, k <= n
  PROVE  /\ n - k \in Nat /\ n * Margin - k * Margin = (n - k) * Margin
         /\ k * Margin <= n * Margin /\ k * Collateral <= n * Margin
<1>1. n - k \in Nat /\ n = (n - k) + k
  OBVIOUS
<1>2. n * Margin = (n - k) * Margin + k * Margin
  BY <1>1, LotsCost
<1>3. n * Margin \in Nat /\ k * Margin \in Nat /\ (n - k) * Margin \in Nat
      /\ k * Collateral \in Nat /\ k * Collateral <= k * Margin
  BY <1>1, LotsCost
<1> QED BY <1>1, <1>2, <1>3

LEMMA RequestTyped ==
  ASSUME TypeOK, NEW r \in Requests
  PROVE  /\ req[r].amount \in Nat /\ req[r].filled \in Nat /\ req[r].taken \in Nat
         /\ req[r].refund \in Int /\ req[r].kind \in {"limit", "market"}
         /\ req[r].order \in Orders \cup {None} /\ pc[r] \in Labels
BY DEF TypeOK, RequestsOK, Locals

LEMMA OrderTyped ==
  ASSUME TypeOK, NEW o \in Orders
  PROVE  /\ rows[o].amount \in Nat /\ rows[o].filled \in Nat /\ rows[o].margin \in Nat
         /\ rows[o].status \in Statuses /\ rows[o].kind \in {"limit", "market"}
         /\ traded[o] \in Nat /\ pending[o] \in Nat /\ rest[o] \in Nat
BY DEF TypeOK, StoreOK, Row

LEMMA MoneyTyped == ASSUME TypeOK PROVE available \in Int /\ frozen \in Int
BY DEF TypeOK, StoreOK

LEMMA NoDebt ==
  ASSUME NEW r \in Requests, NEW d, Owes(r, d), pc[r] \in CreateLabels \cup UpdateLabels \cup {"idle"}
  PROVE  d = 0
BY DEF Owes, CreateLabels, UpdateLabels, CancelLabels

LEMMA NoDebtNext ==
  ASSUME NEW r \in Requests, pc'[r] \in CreateLabels \cup UpdateLabels \cup {"idle"}
  PROVE  Owes(r, 0)'
BY DEF Owes, CreateLabels, UpdateLabels, CancelLabels

\* One step of a request on its order and its order only.
Alone(r, o) ==
    /\ OthersStay(r) /\ \A p \in Orders \ {o} : SameOrder(p) /\ ~Works(r, p)'
    /\ pc'[r] = "read" => req'[r].order = None

LEMMA FreezeHandled ==
  ASSUME TypeOK, NEW r \in Requests, NEW o \in Orders, NEW h0 \in Nat, NEW s0 \in Nat, NEW d0 \in Nat,
         Works(r, o), Stage(r, o, h0, s0, d0), Owes(r, d0), Freeze(r)
  PROVE  \E h, s, d \in Nat : Handled(r, o, h0, s0, d0, h, s, d)
<1> DEFINE q == req[r]
           m == q.amount * Margin
<1>1. q.amount \in Nat /\ m \in Nat /\ q.kind \in {"limit", "market"} /\ available \in Int /\ frozen \in Int
  BY RequestTyped, LotsCost, MoneyTyped
<1>2. pc[r] = "freeze" /\ q.order = o /\ Fresh(o, h0, s0) /\ d0 = 0
  BY NoDebt DEF Freeze, Works, Stage, CreateLabels
<1>3. Alone(r, o)
  BY <1>2 DEF Freeze, Goto, Alone, OthersStay, SameOrder, Works, TypeOK, StoreOK, RequestsOK
<1>4. /\ rows'[o].amount = q.amount /\ rows'[o].margin = m
      /\ traded'[o] = 0 /\ pending'[o] = 0 /\ rest'[o] = 0
      /\ pc'[r] \in {"slippage", "submit"} /\ req'[r] = q
      /\ available' = available - m /\ frozen' = frozen + m
  BY <1>2 DEF Freeze, Goto, Fresh, TypeOK, StoreOK, RequestsOK
<1>5. Works(r, o)' /\ Owes(r, 0)'
  BY <1>2, <1>4, NoDebtNext DEF Works, CreateLabels
<1>6. Stage(r, o, m, 0, 0)'
  BY <1>4 DEF Stage, Placed
<1>7. available' + frozen' + Collateral * (0 - s0) = available + frozen
      /\ m + 0 - (h0 + d0) <= frozen' - frozen
  <2> HIDE DEF m
  <2>1. s0 = 0 /\ h0 = 0 /\ 0 - s0 = 0 /\ Collateral * 0 = 0
    BY <1>2, LotsCost DEF Fresh
  <2> QED BY <1>1, <1>2, <1>4, <2>1
<1>8. Handled(r, o, h0, s0, d0, m, 0, 0)
  BY <1>3, <1>5, <1>6, <1>7 DEF Handled, Alone
<1> QED BY <1>1, <1>8

LEMMA CheckHandled ==
  ASSUME TypeOK, NEW r \in Requests, NEW o \in Orders, NEW h0 \in Nat, NEW s0 \in Nat, NEW d0 \in Nat,
         Works(r, o), Stage(r, o, h0, s0, d0), Owes(r, d0), Slippage(r) \/ Reject(r)
  PROVE  \E h, s, d \in Nat : Handled(r, o, h0, s0, d0, h, s, d)
<1> DEFINE q == req[r]
<1>1. available \in Int /\ frozen \in Int
  BY MoneyTyped
<1>2. /\ pc[r] \in {"slippage", "reject"} /\ q.order = o /\ d0 = 0
      /\ Placed(r, o) /\ h0 = q.amount * Margin /\ s0 = 0 /\ traded[o] = 0 /\ rest[o] = 0
  BY NoDebt DEF Slippage, Reject, Works, Stage, CreateLabels
<1>3. Alone(r, o)
  BY <1>2 DEF Slippage, Reject, Goto, Alone, OthersStay, SameOrder, Works, TypeOK, StoreOK, RequestsOK
<1>4. /\ rows'[o].amount = rows[o].amount /\ rows'[o].margin = rows[o].margin
      /\ traded'[o] = 0 /\ pending'[o] = pending[o] /\ rest'[o] = 0
      /\ pc'[r] \in {"submit", "reject", "rejectrefund"} /\ req'[r] = q
      /\ pc'[r] = "rejectrefund" => rows'[o].status = "rejected"
      /\ available' = available /\ frozen' = frozen
  BY <1>2 DEF Slippage, Reject, Goto, TypeOK, StoreOK, RequestsOK, Row, account
<1>5. Works(r, o)' /\ Owes(r, 0)'
  BY <1>2, <1>4, NoDebtNext DEF Works, CreateLabels
<1>6. Stage(r, o, h0, 0, 0)'
  BY <1>2, <1>4 DEF Stage, Placed
<1>7. available' + frozen' + Collateral * (0 - s0) = available + frozen
      /\ h0 + 0 - (h0 + d0) <= frozen' - frozen
  <2>1. 0 - s0 = 0 /\ Collateral * 0 = 0
    BY <1>2, LotsCost
  <2> QED BY <1>1, <1>2, <1>4, <2>1
<1>8. Handled(r, o, h0, s0, d0, h0, 0, 0)
  BY <1>3, <1>5, <1>6, <1>7 DEF Handled, Alone
<1> QED BY <1>8

LEMMA RejectHandled ==
  ASSUME TypeOK, NEW r \in Requests, NEW o \in Orders, NEW h0 \in Nat, NEW s0 \in Nat, NEW d0 \in Nat,
         Works(r, o), Stage(r, o, h0, s0, d0), Owes(r, d0), RejectRefund(r)
  PROVE  \E h, s, d \in Nat : Handled(r, o, h0, s0, d0, h, s, d)
<1> DEFINE q == req[r]
<1>1. available \in Int /\ frozen \in Int
  BY MoneyTyped
<1>2. /\ pc[r] = "rejectrefund" /\ q.order = o /\ d0 = 0
      /\ Placed(r, o) /\ h0 = q.amount * Margin /\ s0 = 0 /\ traded[o] = 0 /\ rest[o] = 0
      /\ rows[o].status = "rejected"
  BY NoDebt DEF RejectRefund, Works, Stage, CreateLabels
<1>3. Alone(r, o)
  BY <1>2 DEF RejectRefund, Finish, Goto, Alone, OthersStay, SameOrder, Works, TypeOK, StoreOK, RequestsOK
<1>4. /\ rows'[o] = rows[o]
      /\ traded'[o] = 0 /\ pending'[o] = pending[o] /\ rest'[o] = 0
      /\ pc'[r] = "idle"
      /\ available' = available + h0 /\ frozen' = frozen - h0
  BY <1>2 DEF RejectRefund, Finish, Goto, TypeOK, StoreOK, RequestsOK
<1>5. ~Works(r, o)' /\ Owes(r, 0)'
  BY <1>2, <1>4, NoDebtNext DEF Works
<1>6. AtRest(o, 0, 0)'
  <2>1. Collateral * 0 = 0 /\ 0 - 0 = 0
    BY LotsCost
  <2> QED BY <1>2, <1>4, <2>1 DEF AtRest, Dead, Ended, Placed
<1>7. available' + frozen' + Collateral * (0 - s0) = available + frozen
      /\ 0 + 0 - (h0 + d0) <= frozen' - frozen
  <2>1. 0 - s0 = 0 /\ Collateral * 0 = 0
    BY <1>2, LotsCost
  <2> QED BY <1>1, <1>2, <1>4, <2>1
<1>8. Handled(r, o, h0, s0, d0, 0, 0, 0)
  BY <1>3, <1>5, <1>6, <1>7 DEF Handled, Alone
<1> QED BY <1>8

LEMMA SubmitHandled ==
  ASSUME TypeOK, NEW r \in Requests, NEW o \in Orders, NEW h0 \in Nat, NEW s0 \in Nat, NEW d0 \in Nat,
         Works(r, o), Stage(r, o, h0, s0, d0), Owes(r, d0), Submit(r)
  PROVE  \E h, s, d \in Nat : Handled(r, o, h0, s0, d0, h, s, d)
<1> DEFINE q == req[r]
<1>1. available \in Int /\ frozen \in Int /\ q.amount \in Nat /\ rest[o] \in Nat
  BY MoneyTyped, RequestTyped, OrderTyped
<1>2. /\ pc[r] = "submit" /\ q.order = o /\ d0 = 0
      /\ Placed(r, o) /\ h0 = q.amount * Margin /\ s0 = 0 /\ traded[o] = 0 /\ rest[o] = 0
  BY NoDebt DEF Submit, Works, Stage, CreateLabels
<1>3. PICK k \in 0..q.amount : Enter(o, q.kind, q.amount, k) /\ req' = [req EXCEPT ![r].taken = k]
  BY <1>2 DEF Submit
<1>4. Alone(r, o)
  BY <1>2, <1>3 DEF Submit, Enter, Goto, Alone, OthersStay, SameOrder, Works, TypeOK, StoreOK, RequestsOK, Locals
<1>5. /\ rows'[o] = rows[o]
      /\ traded'[o] = 0 + k /\ pending'[o] = pending[o]
      /\ rest'[o] = IF q.kind = "limit" THEN 0 + (q.amount - k) ELSE 0
      /\ pc'[r] = "record" /\ req'[r].taken = k /\ req'[r].amount = q.amount
      /\ req'[r].kind = q.kind /\ req'[r].order = o
      /\ available' = available /\ frozen' = frozen
  BY <1>2, <1>3 DEF Submit, Enter, Goto, TypeOK, StoreOK, RequestsOK, Locals, account
<1>6. Works(r, o)' /\ Owes(r, 0)'
  BY <1>2, <1>5, NoDebtNext DEF Works, CreateLabels
<1>7. Stage(r, o, h0, 0, 0)'
  <2>1. 0 + k = k /\ k <= q.amount /\ 0 + (q.amount - k) = q.amount - k
    BY <1>1
  <2>2. Entered(r, o)'
    BY <1>2, <1>5, <2>1 DEF Entered, Placed
  <2> QED BY <1>2, <1>5, <2>2 DEF Stage
<1>8. available' + frozen' + Collateral * (0 - s0) = available + frozen
      /\ h0 + 0 - (h0 + d0) <= frozen' - frozen
  <2>1. 0 - s0 = 0 /\ Collateral * 0 = 0
    BY <1>2, LotsCost
  <2> QED BY <1>1, <1>2, <1>5, <2>1
<1>9. Handled(r, o, h0, s0, d0, h0, 0, 0)
  BY <1>4, <1>6, <1>7, <1>8 DEF Handled, Alone
<1> QED BY <1>9

LEMMA RecordHandled ==
  ASSUME TypeOK, NEW r \in Requests, NEW o \in Orders, NEW h0 \in Nat, NEW s0 \in Nat, NEW d0 \in Nat,
         Works(r, o), Stage(r, o, h0, s0, d0), Owes(r, d0), Record(r)
  PROVE  \E h, s, d \in Nat : Handled(r, o, h0, s0, d0, h, s, d)
<1> DEFINE q == req[r]
           status == Answer(q.kind, q.amount, q.taken)
<1>1. available \in Int /\ frozen \in Int /\ q.amount \in Nat /\ q.taken \in Nat /\ q.kind \in {"limit", "market"}
  BY MoneyTyped, RequestTyped
<1>2. /\ pc[r] = "record" /\ q.order = o /\ d0 = 0
      /\ Entered(r, o) /\ h0 = q.amount * Margin /\ s0 = 0
  BY NoDebt DEF Record, Works, Stage, CreateLabels
<1>3. Alone(r, o)
  BY <1>2 DEF Record, Finish, Goto, Alone, OthersStay, SameOrder, Works, TypeOK, StoreOK, RequestsOK
<1>4. /\ rows'[o].amount = rows[o].amount /\ rows'[o].margin = rows[o].margin
      /\ rows'[o].filled = q.taken /\ rows'[o].status = status
      /\ traded'[o] = traded[o] /\ pending'[o] = pending[o] /\ rest'[o] = rest[o]
      /\ available' = available /\ frozen' = frozen
  BY <1>2 DEF Record, TypeOK, StoreOK, Row, account
<1>5. \/ pc'[r] = "release" /\ req'[r] = q /\ (q.taken > 0 \/ status = "cancelled")
      \/ pc'[r] = "idle" /\ ~(q.taken > 0) /\ status # "cancelled"
  BY <1>2 DEF Record, Finish, Goto, TypeOK, RequestsOK
<1>6. available' + frozen' + Collateral * (0 - s0) = available + frozen
      /\ h0 + 0 - (h0 + d0) <= frozen' - frozen
  <2>1. 0 - s0 = 0 /\ Collateral * 0 = 0
    BY <1>2, LotsCost
  <2> QED BY <1>1, <1>2, <1>4, <2>1
<1>7. Owes(r, 0)'
  BY <1>5, NoDebtNext DEF CreateLabels
<1>8. CASE pc'[r] = "release"
  <2>1. Works(r, o)' /\ req'[r] = q /\ (q.taken > 0 \/ status = "cancelled")
    BY <1>2, <1>5, <1>8 DEF Works
  <2>2. status # "open"
    BY <1>1, <2>1 DEF Answer
  <2>3. Recorded(r, o)'
    BY <1>2, <1>4, <2>1, <2>2 DEF Recorded, Entered, Placed
  <2>4. Stage(r, o, h0, 0, 0)'
    BY <1>2, <1>8, <2>1, <2>3 DEF Stage
  <2>5. Handled(r, o, h0, s0, d0, h0, 0, 0)
    BY <1>3, <1>6, <1>7, <2>1, <2>4 DEF Handled, Alone
  <2> QED BY <2>5
<1>9. CASE pc'[r] = "idle"
  <2>1. q.taken = 0 /\ status # "cancelled" /\ ~Works(r, o)'
    BY <1>1, <1>5, <1>9 DEF Works
  <2>2. status \in {"filled", "open"}
    BY <1>1, <2>1 DEF Answer
  <2>3. /\ rows[o].amount = q.amount /\ rows[o].margin = h0 /\ pending[o] = 0 /\ traded[o] = 0
        /\ rest[o] \in {q.amount - 0, 0}
    BY <1>2, <2>1 DEF Entered, Placed
  <2>4. q.amount - 0 = q.amount /\ q.amount + 0 = q.amount /\ 0 + 0 + 0 <= q.amount /\ 0 <= 0
        /\ 0 + 0 + q.amount <= q.amount /\ 0 + 0 = 0 /\ q.amount <= q.amount + 0
    BY <1>1
  <2>5. Backed(o, h0, 0, 0)'
    BY <1>1, <1>2, <1>4, <2>1, <2>2, <2>3, <2>4 DEF Backed
  <2>6. AtRest(o, h0, 0)'
    BY <1>4, <2>1, <2>5 DEF AtRest, Live
  <2>7. Handled(r, o, h0, s0, d0, h0, 0, 0)
    BY <1>3, <1>6, <1>7, <1>9, <2>1, <2>6 DEF Handled, Alone
  <2> QED BY <2>7
<1> QED BY <1>5, <1>8, <1>9

\* What an answered order releases: what it took and never less.
LEMMA ReleasedCovers ==
  ASSUME NEW n \in Nat, NEW k \in Nat, NEW kind, k <= n
  PROVE  LET m == Released(kind, n, k) IN
         /\ m \in Nat /\ m <= n * Margin /\ k * Collateral \in Nat /\ k * Collateral <= m
         /\ k * Margin <= m
         /\ Unused(m, k) = m - k * Collateral
         /\ Answer(kind, n, k) = "partially_filled" => n * Margin - m = (n - k) * Margin
         /\ Answer(kind, n, k) # "partially_filled" => n * Margin - m = 0
<1> DEFINE m == Released(kind, n, k)
<1>1. /\ n * Margin \in Nat /\ k * Margin \in Nat /\ k * Collateral \in Nat /\ k * Collateral <= k * Margin
      /\ k * Margin <= n * Margin /\ k * Collateral <= n * Margin
      /\ n * Margin - k * Margin = (n - k) * Margin
  BY LotsCost, LotsSplit
<1>2. m = IF Answer(kind, n, k) = "partially_filled" THEN k * Margin ELSE n * Margin
  BY DEF Released
<1>3. m \in Nat /\ m <= n * Margin /\ k * Collateral <= m /\ k * Margin <= m
  <2> HIDE DEF m
  <2> QED BY <1>1, <1>2
<1>4. Unused(m, k) = m - k * Collateral
  <2>1. PICK x \in Nat, y \in Nat : x = m /\ y = k * Collateral /\ y <= x
    BY <1>1, <1>3
  <2>2. AtLeastZero(x - y) = x - y
    BY <2>1 DEF AtLeastZero
  <2> QED BY <2>1, <2>2 DEF Unused
<1>5. n * Margin - n * Margin = 0
  BY <1>1
<1> HIDE DEF m
<1>6. /\ Answer(kind, n, k) = "partially_filled" => n * Margin - m = (n - k) * Margin
      /\ Answer(kind, n, k) # "partially_filled" => n * Margin - m = 0
  BY <1>1, <1>2, <1>5
<1> QED BY <1>1, <1>3, <1>4, <1>6 DEF m

\* The clamp of the frozen margin does not bite while the books hold.
LEMMA MoveExact ==
  ASSUME NEW m \in Nat, NEW n \in Int, available \in Int, frozen \in Int, m <= frozen, Move(m, n)
  PROVE  available' = available + n /\ frozen' = frozen - m
<1>1. PICK f \in Int : f = frozen
  OBVIOUS
<1>2. AtLeastZero(f - m) = f - m
  BY <1>1 DEF AtLeastZero
<1> QED BY <1>1, <1>2 DEF Move

LEMMA ReleaseHandled ==
  ASSUME TypeOK, NEW r \in Requests, NEW o \in Orders, NEW h0 \in Nat, NEW s0 \in Nat, NEW d0 \in Nat,
         Works(r, o), Stage(r, o, h0, s0, d0), Owes(r, d0), h0 + d0 <= frozen, Release(r)
  PROVE  \E h, s, d \in Nat : Handled(r, o, h0, s0, d0, h, s, d)
<1> DEFINE q == req[r]
           m == Released(q.kind, q.amount, q.taken)
<1>1. available \in Int /\ frozen \in Int /\ q.amount \in Nat /\ q.taken \in Nat
  BY MoneyTyped, RequestTyped
<1>2. /\ pc[r] = "release" /\ q.order = o /\ d0 = 0
      /\ Recorded(r, o) /\ h0 = q.amount * Margin /\ s0 = 0 /\ q.taken <= q.amount
  BY NoDebt DEF Release, Works, Stage, CreateLabels, Recorded, Entered
<1>3. Alone(r, o)
  BY <1>2 DEF Release, Goto, Alone, OthersStay, SameOrder, Works, TypeOK, StoreOK, RequestsOK
<1>4. /\ rows'[o] = rows[o] /\ traded'[o] = traded[o] /\ pending'[o] = pending[o] /\ rest'[o] = rest[o]
      /\ pc'[r] = "unfreeze" /\ req'[r] = q
  BY <1>2 DEF Release, Goto, TypeOK, StoreOK, RequestsOK
<1>5. /\ m \in Nat /\ m <= h0 /\ q.taken * Collateral \in Nat /\ q.taken * Collateral <= m
      /\ Unused(m, q.taken) = m - q.taken * Collateral
  BY <1>1, <1>2, ReleasedCovers
<1>6. Move(m, Unused(m, q.taken))
  BY DEF Release
<1> HIDE DEF m
<1>7. available' = available + (m - q.taken * Collateral) /\ frozen' = frozen - m
  <2>1. m <= frozen /\ m - q.taken * Collateral \in Int
    BY <1>1, <1>2, <1>5
  <2> QED BY <1>1, <1>5, <1>6, <2>1, MoveExact
<1>8. h0 - m \in Nat
  BY <1>5
<1>9. available' + frozen' + Collateral * (q.taken - s0) = available + frozen
      /\ (h0 - m) + 0 - (h0 + d0) <= frozen' - frozen
  <2>1. PICK c \in Nat, k \in Nat : c = q.taken * Collateral /\ k = q.taken /\ Collateral * k = c
    BY <1>1, LotsCost
  <2>2. q.taken - s0 = k
    BY <1>2, <2>1
  <2>3. PICK a \in Int, f \in Int : a = available /\ f = frozen /\ available' = a + (m - c) /\ frozen' = f - m
    BY <1>1, <1>7, <2>1
  <2> QED BY <1>2, <1>5, <2>1, <2>2, <2>3
<1>10. Works(r, o)' /\ Owes(r, 0)'
  BY <1>2, <1>4, NoDebtNext DEF Works, CreateLabels
<1>11. Stage(r, o, h0 - m, q.taken, 0)'
  <2>1. Recorded(r, o)'
    BY <1>2, <1>4 DEF Recorded, Entered, Placed
  <2> QED BY <1>2, <1>4, <2>1 DEF Stage, m
<1>12. Handled(r, o, h0, s0, d0, h0 - m, q.taken, 0)
  BY <1>3, <1>9, <1>10, <1>11 DEF Handled, Alone
<1> QED BY <1>1, <1>8, <1>12

LEMMA UnfreezeHandled ==
  ASSUME TypeOK, NEW r \in Requests, NEW o \in Orders, NEW h0 \in Nat, NEW s0 \in Nat, NEW d0 \in Nat,
         Works(r, o), Stage(r, o, h0, s0, d0), Owes(r, d0), Unfreeze(r)
  PROVE  \E h, s, d \in Nat : Handled(r, o, h0, s0, d0, h, s, d)
<1> DEFINE q == req[r]
           n == q.amount
           k == q.taken
           m == Released(q.kind, n, k)
<1>1. available \in Int /\ frozen \in Int /\ n \in Nat /\ k \in Nat /\ q.kind \in {"limit", "market"}
      /\ n * Margin \in Nat
  BY MoneyTyped, RequestTyped, LotsCost
<1>2. /\ pc[r] = "unfreeze" /\ q.order = o /\ d0 = 0
      /\ Recorded(r, o) /\ h0 = n * Margin - m /\ s0 = k /\ k <= n
  BY NoDebt DEF Unfreeze, Works, Stage, CreateLabels, Recorded, Entered
<1>3. Alone(r, o)
  BY <1>2 DEF Unfreeze, Finish, Goto, Alone, OthersStay, SameOrder, Works, TypeOK, StoreOK, RequestsOK
<1>4. /\ rows[o].amount = n /\ rows[o].margin = n * Margin /\ rows[o].filled = k
      /\ rows[o].status = Answer(q.kind, n, k) /\ rows[o].status # "open"
      /\ traded[o] = k /\ pending[o] = 0 /\ rest[o] = IF q.kind = "limit" THEN n - k ELSE 0
  BY <1>2 DEF Recorded, Entered, Placed
<1>5. /\ rows'[o].amount = rows[o].amount /\ rows'[o].margin = AtLeastZero(rows[o].margin - m)
      /\ rows'[o].filled = rows[o].filled /\ rows'[o].status = rows[o].status
      /\ traded'[o] = traded[o] /\ pending'[o] = pending[o] /\ rest'[o] = rest[o]
      /\ pc'[r] = "idle" /\ available' = available /\ frozen' = frozen
  BY <1>2 DEF Unfreeze, Finish, Goto, TypeOK, StoreOK, RequestsOK, Row, account
<1>6. /\ rows[o].status = "partially_filled" => h0 = (n - k) * Margin
      /\ rows[o].status # "partially_filled" => h0 = 0
  BY <1>1, <1>2, <1>4, ReleasedCovers
<1>7. rows'[o].margin = h0
  <2> HIDE DEF m
  <2> QED BY <1>2, <1>4, <1>5 DEF AtLeastZero
<1>8. available' + frozen' + Collateral * (s0 - s0) = available + frozen
      /\ h0 + 0 - (h0 + d0) <= frozen' - frozen
  <2>1. s0 - s0 = 0 /\ Collateral * 0 = 0
    BY <1>1, <1>2, LotsCost
  <2> QED BY <1>1, <1>2, <1>5, <2>1
<1>9. ~Works(r, o)' /\ Owes(r, 0)'
  BY <1>5, NoDebtNext DEF Works
<1> HIDE DEF m
<1>10. AtRest(o, h0, s0)'
  <2>1. CASE rows[o].status = "partially_filled"
    <3>1. /\ n - k \in Nat /\ n <= (n - k) + s0 /\ s0 <= s0 /\ s0 = s0 + 0
          /\ s0 + 0 + (n - k) <= n /\ s0 + 0 + 0 <= n
      BY <1>1, <1>2
    <3>2. h0 = (n - k) * Margin
      BY <1>6, <2>1
    <3>3. Backed(o, h0, s0, s0)'
      BY <1>2, <1>4, <1>5, <1>7, <2>1, <3>1, <3>2 DEF Backed
    <3> QED BY <1>2, <1>4, <1>5, <3>3 DEF AtRest, Live
  <2>2. CASE rows[o].status = "filled"
    <3>1. n = k
      BY <1>1, <1>2, <1>4, <2>2 DEF Answer
    <3>2. /\ n - k = 0 /\ n <= 0 + s0 /\ s0 <= s0 /\ s0 = s0 + 0 /\ s0 + 0 + 0 <= n /\ 0 \in Nat
      BY <1>1, <1>2, <3>1
    <3>3. h0 = 0 * Margin
      BY <1>1, <1>6, <2>2, LotsCost
    <3>4. Backed(o, h0, s0, s0)'
      BY <1>2, <1>4, <1>5, <1>7, <2>2, <3>1, <3>2, <3>3 DEF Backed
    <3> QED BY <1>2, <1>4, <1>5, <3>4 DEF AtRest, Live
  <2>3. CASE rows[o].status = "cancelled"
    <3>1. k = 0 /\ q.kind # "limit"
      BY <1>1, <1>2, <1>4, <2>3 DEF Answer
    <3>2. k - s0 = 0 /\ Collateral * 0 = 0 /\ s0 <= k /\ h0 = 0
      BY <1>1, <1>2, <1>6, <2>3, <3>1, LotsCost
    <3> QED BY <1>4, <1>5, <2>3, <3>1, <3>2 DEF AtRest, Dead, Ended
  <2> QED BY <1>4, <2>1, <2>2, <2>3 DEF Answer
<1>11. Handled(r, o, h0, s0, d0, h0, s0, 0)
  BY <1>3, <1>8, <1>9, <1>10 DEF Handled, Alone
<1> QED BY <1>1, <1>11

\* What an order standing in the book is backed by.
LEMMA BackedFacts ==
  ASSUME TypeOK, NEW o \in Orders, NEW h \in Nat, NEW s \in Nat, NEW f \in Nat, Backed(o, h, s, f)
  PROVE  \E left \in Nat :
           /\ h = left * Margin /\ rows[o].margin = h /\ rows[o].amount <= left + s
           /\ s <= f /\ f + pending[o] + rest[o] <= rows[o].amount /\ traded[o] = f + pending[o]
           /\ rows[o].status \in {"open", "partially_filled", "filled"}
BY DEF Backed

LEMMA PullHandled ==
  ASSUME TypeOK, NEW r \in Requests, NEW o \in Orders, NEW h0 \in Nat, NEW s0 \in Nat, NEW d0 \in Nat,
         Works(r, o), Stage(r, o, h0, s0, d0), Owes(r, d0), Pull(r)
  PROVE  \E h, s, d \in Nat : Handled(r, o, h0, s0, d0, h, s, d)
<1> DEFINE q == req[r]
<1>1. /\ available \in Int /\ frozen \in Int /\ q.amount \in Nat /\ q.filled \in Nat
      /\ pending[o] \in Nat /\ rest[o] \in Nat /\ rows[o].filled \in Nat /\ rows[o].amount \in Nat
  BY MoneyTyped, RequestTyped, OrderTyped
<1>2. /\ pc[r] = "pull" /\ q.order = o /\ d0 = 0 /\ Live(o, h0, s0) /\ pending[o] = 0
      /\ rows[o].filled = q.filled /\ q.filled <= q.amount /\ q.amount <= rows[o].amount
  BY NoDebt DEF Pull, Works, Stage, UpdateLabels
<1>3. Alone(r, o)
  BY <1>2 DEF Pull, Goto, Alone, OthersStay, SameOrder, Works, TypeOK, StoreOK, RequestsOK
<1>4. /\ rows'[o] = rows[o] /\ traded'[o] = traded[o] /\ pending'[o] = pending[o] /\ rest'[o] = 0
      /\ pc'[r] = "amend" /\ req'[r] = q /\ available' = available /\ frozen' = frozen
  BY <1>2 DEF Pull, Goto, TypeOK, StoreOK, RequestsOK, account
<1>5. rows[o].filled + pending[o] + rest[o] <= rows[o].amount
  BY <1>2 DEF Live, Backed
<1>6. rows[o].filled + pending[o] + 0 <= rows[o].amount
  BY <1>1, <1>5
<1>7. Live(o, h0, s0)'
  BY <1>2, <1>4, <1>6 DEF Live, Backed
<1>8. Stage(r, o, h0, s0, 0)'
  BY <1>2, <1>4, <1>7 DEF Stage
<1>9. Works(r, o)' /\ Owes(r, 0)'
  BY <1>2, <1>4, NoDebtNext DEF Works, UpdateLabels
<1>10. available' + frozen' + Collateral * (s0 - s0) = available + frozen
       /\ h0 + 0 - (h0 + d0) <= frozen' - frozen
  <2>1. s0 - s0 = 0 /\ Collateral * 0 = 0
    BY LotsCost
  <2> QED BY <1>1, <1>2, <1>4, <2>1
<1>11. Handled(r, o, h0, s0, d0, h0, s0, 0)
  BY <1>3, <1>8, <1>9, <1>10 DEF Handled, Alone
<1> QED BY <1>11

LEMMA AmendHandled ==
  ASSUME TypeOK, NEW r \in Requests, NEW o \in Orders, NEW h0 \in Nat, NEW s0 \in Nat, NEW d0 \in Nat,
         Works(r, o), Stage(r, o, h0, s0, d0), Owes(r, d0), Amend(r)
  PROVE  \E h, s, d \in Nat : Handled(r, o, h0, s0, d0, h, s, d)
<1> DEFINE q == req[r]
<1>1. /\ available \in Int /\ frozen \in Int /\ q.amount \in Nat /\ q.filled \in Nat
      /\ rows[o].amount \in Nat
  BY MoneyTyped, RequestTyped, OrderTyped
<1>2. /\ pc[r] = "amend" /\ q.order = o /\ d0 = 0 /\ Live(o, h0, s0) /\ pending[o] = 0
      /\ rows[o].filled = q.filled /\ q.filled <= q.amount /\ q.amount <= rows[o].amount
      /\ rest[o] = 0
  BY NoDebt DEF Amend, Works, Stage, UpdateLabels
<1>3. Alone(r, o)
  BY <1>2 DEF Amend, Finish, Goto, Alone, OthersStay, SameOrder, Works, TypeOK, StoreOK, RequestsOK
<1>4. /\ rows'[o].amount = q.amount /\ rows'[o].margin = rows[o].margin
      /\ rows'[o].filled = rows[o].filled /\ rows'[o].status = rows[o].status
      /\ traded'[o] = traded[o] /\ pending'[o] = 0 /\ rest'[o] = 0
      /\ available' = available /\ frozen' = frozen
      /\ (pc'[r] = "resubmit" /\ req'[r] = q) \/ pc'[r] = "idle"
  BY <1>2 DEF Amend, Finish, Goto, TypeOK, StoreOK, RequestsOK, Row, account
<1>5. PICK left \in Nat : h0 = left * Margin /\ rows[o].amount <= left + s0
  BY <1>2 DEF Live, Backed
<1>6. q.amount <= left + s0 /\ q.filled + 0 + 0 <= q.amount /\ q.amount <= q.amount
  BY <1>1, <1>2, <1>5
<1>7. Live(o, h0, s0)'
  BY <1>2, <1>4, <1>5, <1>6 DEF Live, Backed
<1>8. Works(r, o)' => Stage(r, o, h0, s0, 0)'
  BY <1>2, <1>4, <1>6, <1>7 DEF Stage, Works
<1>9. Owes(r, 0)'
  BY <1>4, NoDebtNext DEF UpdateLabels
<1>10. available' + frozen' + Collateral * (s0 - s0) = available + frozen
       /\ h0 + 0 - (h0 + d0) <= frozen' - frozen
  <2>1. s0 - s0 = 0 /\ Collateral * 0 = 0
    BY LotsCost
  <2> QED BY <1>1, <1>2, <1>4, <2>1
<1>11. Handled(r, o, h0, s0, d0, h0, s0, 0)
  BY <1>3, <1>7, <1>8, <1>9, <1>10 DEF Handled, Alone, AtRest
<1> QED BY <1>11

LEMMA ResubmitHandled ==
  ASSUME TypeOK, NEW r \in Requests, NEW o \in Orders, NEW h0 \in Nat, NEW s0 \in Nat, NEW d0 \in Nat,
         Works(r, o), Stage(r, o, h0, s0, d0), Owes(r, d0), Resubmit(r)
  PROVE  \E h, s, d \in Nat : Handled(r, o, h0, s0, d0, h, s, d)
<1> DEFINE q == req[r]
<1>1. /\ available \in Int /\ frozen \in Int /\ q.amount \in Nat /\ q.filled \in Nat
      /\ rows[o].amount \in Nat /\ q.kind \in {"limit", "market"}
  BY MoneyTyped, RequestTyped, OrderTyped
<1>2. /\ pc[r] = "resubmit" /\ q.order = o /\ d0 = 0 /\ Live(o, h0, s0) /\ pending[o] = 0
      /\ rows[o].filled = q.filled /\ q.filled <= q.amount /\ rows[o].amount = q.amount
      /\ rest[o] = 0
  BY NoDebt DEF Resubmit, Works, Stage, UpdateLabels
<1>3. Unfilled(q) = q.amount - q.filled /\ q.amount - q.filled \in Nat
  <2>1. PICK x \in Nat : x = q.amount - q.filled
    BY <1>1, <1>2
  <2> QED BY <2>1 DEF Unfilled, AtLeastZero
<1>4. PICK n \in Nat : n = q.amount - q.filled /\ Unfilled(q) = n
  BY <1>3
<1>5. PICK k \in 0..n : Enter(o, q.kind, n, k) /\ req' = [req EXCEPT ![r].taken = k]
  BY <1>2, <1>4 DEF Resubmit
<1>6. Alone(r, o)
  BY <1>2, <1>5 DEF Resubmit, Enter, Goto, Alone, OthersStay, SameOrder, Works, TypeOK, StoreOK, RequestsOK, Locals
<1>7. /\ rows'[o] = rows[o]
      /\ traded'[o] = traded[o] + k /\ pending'[o] = pending[o]
      /\ rest'[o] = IF q.kind = "limit" THEN 0 + (n - k) ELSE 0
      /\ pc'[r] = "rerecord" /\ req'[r].taken = k /\ req'[r].amount = q.amount
      /\ req'[r].filled = q.filled /\ req'[r].order = o
      /\ available' = available /\ frozen' = frozen
  BY <1>2, <1>5 DEF Resubmit, Enter, Goto, TypeOK, StoreOK, RequestsOK, Locals, account
<1>8. PICK left \in Nat, f \in Nat :
         /\ h0 = left * Margin /\ rows[o].amount <= left + s0 /\ f = q.filled
         /\ traded[o] = f + 0 /\ s0 <= f /\ h0 = rows[o].margin
         /\ rows[o].status \in {"open", "partially_filled", "filled"}
  BY <1>1, <1>2 DEF Live, Backed
<1>9. s0 <= f + k /\ f + k + 0 + (0 + (n - k)) <= q.amount /\ f + k + 0 + 0 <= q.amount
      /\ f + 0 + k = f + k + 0
  BY <1>1, <1>4, <1>8
<1>10. Backed(o, h0, s0, f + k)'
  <2>1. /\ rest'[o] \in {0 + (n - k), 0} /\ pending'[o] = 0 /\ traded'[o] = f + k + 0
        /\ rows'[o] = rows[o] /\ rows[o].amount = q.amount
    BY <1>2, <1>7, <1>8, <1>9
  <2>2. f + k + pending'[o] + rest'[o] <= rows'[o].amount
    BY <1>9, <2>1
  <2> QED BY <1>8, <1>9, <2>1, <2>2 DEF Backed
<1>11. Works(r, o)' /\ Owes(r, 0)'
  BY <1>2, <1>7, NoDebtNext DEF Works, UpdateLabels
<1>12. Stage(r, o, h0, s0, 0)'
  BY <1>2, <1>7, <1>8, <1>10 DEF Stage
<1>13. available' + frozen' + Collateral * (s0 - s0) = available + frozen
       /\ h0 + 0 - (h0 + d0) <= frozen' - frozen
  <2>1. s0 - s0 = 0 /\ Collateral * 0 = 0
    BY LotsCost
  <2> QED BY <1>1, <1>2, <1>7, <2>1
<1>14. Handled(r, o, h0, s0, d0, h0, s0, 0)
  BY <1>6, <1>11, <1>12, <1>13 DEF Handled, Alone
<1> QED BY <1>14

LEMMA RerecordHandled ==
  ASSUME TypeOK, NEW r \in Requests, NEW o \in Orders, NEW h0 \in Nat, NEW s0 \in Nat, NEW d0 \in Nat,
         Works(r, o), Stage(r, o, h0, s0, d0), Owes(r, d0), Rerecord(r)
  PROVE  \E h, s, d \in Nat : Handled(r, o, h0, s0, d0, h, s, d)
<1> DEFINE q == req[r]
<1>1. available \in Int /\ frozen \in Int /\ q.filled \in Nat /\ q.taken \in Nat
  BY MoneyTyped, RequestTyped
<1>2. PICK f \in Nat : f = q.filled + q.taken
  BY <1>1
<1>3. /\ pc[r] = "rerecord" /\ q.order = o /\ d0 = 0 /\ Backed(o, h0, s0, f) /\ pending[o] = 0
  BY <1>2, NoDebt DEF Rerecord, Works, Stage, UpdateLabels
<1>4. Alone(r, o)
  BY <1>3 DEF Rerecord, Finish, Goto, Alone, OthersStay, SameOrder, Works, TypeOK, StoreOK, RequestsOK
<1>5. /\ rows'[o].amount = rows[o].amount /\ rows'[o].margin = rows[o].margin
      /\ rows'[o].filled = f /\ rows'[o].status \in {"open", "partially_filled", "filled"}
      /\ traded'[o] = traded[o] /\ pending'[o] = pending[o] /\ rest'[o] = rest[o]
      /\ available' = available /\ frozen' = frozen
      /\ pc'[r] = "idle"
  BY <1>2, <1>3 DEF Rerecord, Finish, Goto, TypeOK, StoreOK, RequestsOK, Row, account
<1>6. Live(o, h0, s0)'
  BY <1>3, <1>5 DEF Live, Backed
<1>7. ~Works(r, o)' /\ Owes(r, 0)'
  BY <1>5, NoDebtNext DEF Works
<1>8. available' + frozen' + Collateral * (s0 - s0) = available + frozen
       /\ h0 + 0 - (h0 + d0) <= frozen' - frozen
  <2>1. s0 - s0 = 0 /\ Collateral * 0 = 0
    BY LotsCost
  <2> QED BY <1>1, <1>3, <1>5, <2>1
<1>9. Handled(r, o, h0, s0, d0, h0, s0, 0)
  BY <1>4, <1>5, <1>6, <1>7, <1>8 DEF Handled, Alone, AtRest
<1> QED BY <1>9

LEMMA EngineCancelHandled ==
  ASSUME TypeOK, NEW r \in Requests, NEW o \in Orders, NEW h0 \in Nat, NEW s0 \in Nat, NEW d0 \in Nat,
         Works(r, o), Stage(r, o, h0, s0, d0), EngineCancel(r)
  PROVE  \E h, s, d \in Nat : Handled(r, o, h0, s0, d0, h, s, d)
<1>1. /\ available \in Int /\ frozen \in Int /\ rows[o].filled \in Nat /\ traded[o] \in Nat
      /\ req[r].refund \in Int
  BY MoneyTyped, RequestTyped, OrderTyped
<1>2. /\ pc[r] = "cancel" /\ req[r].order = o /\ Live(o, h0, s0) /\ pending[o] = 0
      /\ d0 <= req[r].refund /\ req[r].refund - d0 + Collateral * (traded[o] - s0) <= h0
  BY DEF EngineCancel, Works, Stage
<1>3. PICK d \in Nat, c \in Nat : d = req[r].refund /\ d0 <= d /\ c = Collateral * (traded[o] - s0)
                                  /\ s0 <= traded[o]
  <2>1. s0 <= traded[o]
    BY <1>1, <1>2 DEF Live, Backed
  <2>2. PICK n \in Nat : n = traded[o] - s0
    BY <1>1, <2>1
  <2>3. Collateral * n \in Nat
    BY LotsCost
  <2>4. req[r].refund \in Nat
    BY <1>1, <1>2
  <2> QED BY <1>2, <2>1, <2>2, <2>3, <2>4
<1>4. PICK h \in Nat : h = h0 - (d - d0) /\ c <= h
  <2>1. d - d0 + c <= h0
    BY <1>2, <1>3
  <2> QED BY <1>3, <2>1
<1>5. Alone(r, o)
  BY <1>2 DEF EngineCancel, Goto, Alone, OthersStay, SameOrder, Works, TypeOK, StoreOK, RequestsOK
<1>6. /\ traded'[o] = traded[o] /\ pending'[o] = 0 /\ rest'[o] = 0
      /\ pc'[r] = "mark" /\ req'[r] = req[r] /\ available' = available /\ frozen' = frozen
  BY <1>2 DEF EngineCancel, Goto, TypeOK, StoreOK, RequestsOK, account
<1>7. Ended(o, h, s0)'
  BY <1>3, <1>4, <1>6 DEF Ended
<1>8. Works(r, o)' /\ Stage(r, o, h, s0, d)' /\ Owes(r, d)'
  BY <1>2, <1>3, <1>6, <1>7 DEF Works, Stage, Owes, CancelLabels
<1>9. available' + frozen' + Collateral * (s0 - s0) = available + frozen
      /\ h + d - (h0 + d0) <= frozen' - frozen
  <2>1. s0 - s0 = 0 /\ Collateral * 0 = 0
    BY LotsCost
  <2>2. h + d - (h0 + d0) = 0
    BY <1>3, <1>4
  <2> QED BY <1>1, <1>6, <2>1, <2>2
<1>10. Handled(r, o, h0, s0, d0, h, s0, d)
  BY <1>5, <1>8, <1>9 DEF Handled, Alone
<1> QED BY <1>10

LEMMA MarkHandled ==
  ASSUME TypeOK, NEW r \in Requests, NEW o \in Orders, NEW h0 \in Nat, NEW s0 \in Nat, NEW d0 \in Nat,
         Works(r, o), Stage(r, o, h0, s0, d0), Owes(r, d0), Mark(r)
  PROVE  \E h, s, d \in Nat : Handled(r, o, h0, s0, d0, h, s, d)
<1>1. available \in Int /\ frozen \in Int
  BY MoneyTyped
<1>2. pc[r] = "mark" /\ req[r].order = o /\ Ended(o, h0, s0) /\ d0 = req[r].refund
  BY DEF Mark, Works, Stage, Owes
<1>3. /\ pc'[r] = "read" /\ req'[r].order = None /\ req'[r].refund = req[r].refund
      /\ OthersStay(r)
  BY <1>2 DEF Mark, Goto, TypeOK, RequestsOK, Locals, OthersStay
<1>4. Alone(r, o)
  BY <1>2, <1>3 DEF Mark, Goto, Alone, SameOrder, Works, TypeOK, StoreOK, RequestsOK
<1>5. /\ rows'[o].status = "cancelled"
      /\ traded'[o] = traded[o] /\ pending'[o] = pending[o] /\ rest'[o] = rest[o]
      /\ available' = available /\ frozen' = frozen
  BY <1>2 DEF Mark, TypeOK, StoreOK, Row, account
<1>6. AtRest(o, h0, s0)'
  BY <1>2, <1>5 DEF AtRest, Dead, Ended
<1>7. ~Works(r, o)' /\ Owes(r, d0)'
  BY <1>2, <1>3 DEF Works, Owes, CancelLabels
<1>8. available' + frozen' + Collateral * (s0 - s0) = available + frozen
      /\ h0 + d0 - (h0 + d0) <= frozen' - frozen
  <2>1. s0 - s0 = 0 /\ Collateral * 0 = 0
    BY LotsCost
  <2> QED BY <1>1, <1>5, <2>1
<1>9. Handled(r, o, h0, s0, d0, h0, s0, d0)
  BY <1>4, <1>6, <1>7, <1>8 DEF Handled, Alone
<1> QED BY <1>9

\* Every step of a request on its order.
LEMMA WorkHandled ==
  ASSUME TypeOK, NEW r \in Requests, NEW o \in Orders, NEW h0 \in Nat, NEW s0 \in Nat, NEW d0 \in Nat,
         Works(r, o), Stage(r, o, h0, s0, d0), Owes(r, d0), h0 + d0 <= frozen,
         CreateStep(r) \/ UpdateStep(r) \/ EngineCancel(r) \/ Mark(r)
  PROVE  \E h, s, d \in Nat : Handled(r, o, h0, s0, d0, h, s, d)
<1>1. CASE CreateStep(r)
  BY <1>1, FreezeHandled, CheckHandled, RejectHandled, SubmitHandled, RecordHandled, ReleaseHandled,
     UnfreezeHandled DEF CreateStep
<1>2. CASE UpdateStep(r)
  BY <1>2, PullHandled, AmendHandled, ResubmitHandled, RerecordHandled DEF UpdateStep
<1> QED BY <1>1, <1>2, EngineCancelHandled, MarkHandled

LEMMA TimesMonotone ==
  ASSUME NEW x \in Nat, NEW y \in Nat, NEW z \in Nat, x <= y
  PROVE  x * z <= y * z /\ x * z \in Nat /\ y * z \in Nat
<1>1. PICK e \in Nat : y = x + e
  <2>1. y - x \in Nat /\ y = x + (y - x)
    OBVIOUS
  <2> QED BY <2>1
<1>2. (x + e) * z = x * z + e * z /\ x * z \in Nat /\ e * z \in Nat
  OBVIOUS
<1> QED BY <1>1, <1>2

LEMMA TimesCancel ==
  ASSUME NEW x \in Nat, NEW y \in Nat, NEW z \in Nat \ {0}, x * z <= y * z
  PROVE  x <= y
<1> SUFFICES ASSUME ~(x <= y) PROVE FALSE
  OBVIOUS
<1>1. y + 1 \in Nat /\ y + 1 <= x
  OBVIOUS
<1>2. (y + 1) * z <= x * z /\ (y + 1) * z = y * z + z /\ y * z \in Nat
  <2>1. (y + 1) * z <= x * z
    BY <1>1, TimesMonotone
  <2>2. (y + 1) * z = y * z + z /\ y * z \in Nat
    OBVIOUS
  <2> QED BY <2>1, <2>2
<1>3. x * z \in Nat
  OBVIOUS
<1> QED BY <1>2, <1>3

LEMMA QuotientBelow ==
  ASSUME NEW x \in Nat, NEW a \in Nat \ {0}
  PROVE  x \div a \in Nat /\ (x \div a) * a <= x
OBVIOUS

\* What a cancel refunds leaves enough for the lots no position was paid for.
LEMMA RefundFits ==
  ASSUME NEW a \in Nat, NEW f \in Nat, NEW left \in Nat, NEW s \in Nat,
         s <= f, f <= a, a <= left + s
  PROVE  LET R == IF a = 0 THEN 0 ELSE (left * Margin * (a - f)) \div a IN
         R \in Nat /\ R + (f - s) * Margin <= left * Margin
<1> DEFINE M == Margin
           R == IF a = 0 THEN 0 ELSE (left * M * (a - f)) \div a
<1>0. M \in Nat
  BY MarginNat
<1> HIDE DEF M
<1>1. PICK u \in Nat : u = f - s /\ f = s + u
  <2>1. f - s \in Nat /\ f = s + (f - s)
    OBVIOUS
  <2> QED BY <2>1
<1>2. PICK g \in Nat : g = a - f /\ a = f + g
  <2>1. a - f \in Nat /\ a = f + (a - f)
    OBVIOUS
  <2> QED BY <2>1
<1>3. PICK L \in Nat : L = left * M
  BY <1>0
<1>4. CASE a = 0
  <2>1. R = 0 /\ u = 0 /\ 0 * M = 0 /\ 0 <= L
    BY <1>0, <1>1, <1>2, <1>4
  <2> QED BY <1>1, <1>3, <2>1 DEF M
<1>5. CASE a # 0
  <2>1. PICK X \in Nat : X = L * g
    OBVIOUS
  <2>2. R = X \div a
    BY <1>2, <1>3, <1>5, <2>1
  <2> HIDE DEF R
  <2>3. PICK Q \in Nat : Q = R /\ Q * a <= X
    BY <1>5, <2>2, QuotientBelow
  <2>4. u * a <= left * f
    <3>1. u <= left /\ a <= left + s
      BY <1>1, <1>2
    <3>2. u * s <= left * s /\ u * s \in Nat /\ left * s \in Nat
      BY <3>1, TimesMonotone
    <3>3. a * u <= (left + s) * u /\ a * u \in Nat
      BY <3>1, TimesMonotone
    <3>4. (left + s) * u = left * u + s * u /\ s * u = u * s /\ left * (s + u) = left * s + left * u
          /\ a * u = u * a /\ left * u \in Nat
      OBVIOUS
    <3> QED BY <1>1, <3>2, <3>3, <3>4
  <2>5. (u * M) * a <= L * f
    <3>1. (u * a) * M <= (left * f) * M
      <4>1. u * a \in Nat /\ left * f \in Nat
        OBVIOUS
      <4> QED BY <1>0, <2>4, <4>1, TimesMonotone
    <3>2. (u * a) * M = (u * M) * a /\ (left * f) * M = (left * M) * f
      BY <1>0
    <3> QED BY <1>3, <3>1, <3>2
  <2>6. PICK W \in Nat : W = u * M
    BY <1>0
  <2>7. (Q + W) * a = Q * a + W * a /\ L * a = L * f + L * g
        /\ Q * a \in Nat /\ W * a \in Nat /\ L * f \in Nat /\ L * g \in Nat
    <3>1. (Q + W) * a = Q * a + W * a /\ Q * a \in Nat /\ W * a \in Nat /\ L * f \in Nat /\ L * g \in Nat
      OBVIOUS
    <3>2. L * (f + g) = L * f + L * g
      OBVIOUS
    <3> QED BY <1>2, <3>1, <3>2
  <2>8. (Q + W) * a <= L * a
    BY <2>1, <2>3, <2>5, <2>6, <2>7
  <2>9. Q + W <= L
    BY <1>5, <2>8, TimesCancel
  <2> QED BY <1>1, <1>3, <2>3, <2>6, <2>9 DEF M, R
<1> QED BY <1>4, <1>5

LEMMA SameLots == ASSUME NEW s \in Nat PROVE s - s = 0 /\ Collateral * 0 = 0
<1>1. 0 \in Nat /\ s - s = 0
  OBVIOUS
<1> QED BY <1>1, LotsCost

LEMMA CreateHandled ==
  ASSUME TypeOK, NEW r \in Requests, NEW o \in Orders, NEW kind \in Kinds, NEW n \in Quantities,
         NEW h0 \in Nat, NEW s0 \in Nat, NEW d0 \in Nat, AtRest(o, h0, s0), Owes(r, d0),
         Create(r, o, kind, n)
  PROVE  \E h, s, d \in Nat : Handled(r, o, h0, s0, d0, h, s, d)
<1>1. available \in Int /\ frozen \in Int
  BY MoneyTyped
<1>2. pc[r] = "idle" /\ rows[o].status = "none" /\ d0 = 0
  BY NoDebt DEF Create
<1>3. Fresh(o, h0, s0)
  BY <1>2 DEF AtRest, Live, Backed, Dead
<1>4. /\ pc'[r] = "freeze" /\ req'[r].order = o /\ OthersStay(r)
      /\ UNCHANGED <<rows, traded, pending, rest, available, frozen>>
  BY DEF Create, Goto, TypeOK, RequestsOK, NoReq, OthersStay, account
<1>5. Alone(r, o)
  BY <1>4 DEF Alone, SameOrder, Works
<1>6. Works(r, o)' /\ Owes(r, 0)' /\ Fresh(o, h0, s0)'
  BY <1>3, <1>4, NoDebtNext DEF Works, CreateLabels, Fresh
<1>7. Stage(r, o, h0, s0, 0)'
  BY <1>4, <1>6 DEF Stage
<1>8. available' + frozen' + Collateral * (s0 - s0) = available + frozen
      /\ h0 + 0 - (h0 + d0) <= frozen' - frozen
  <2>1. s0 - s0 = 0 /\ Collateral * 0 = 0
    BY SameLots
  <2> QED BY <1>1, <1>2, <1>4, <2>1
<1>9. Handled(r, o, h0, s0, d0, h0, s0, 0)
  BY <1>5, <1>6, <1>7, <1>8 DEF Handled, Alone
<1> QED BY <1>9

LEMMA UpdateHandled ==
  ASSUME TypeOK, NEW r \in Requests, NEW o \in Orders, NEW n \in Quantities,
         NEW h0 \in Nat, NEW s0 \in Nat, NEW d0 \in Nat, AtRest(o, h0, s0), Owes(r, d0),
         Update(r, o, n), o \notin disturbed'
  PROVE  \E h, s, d \in Nat : Handled(r, o, h0, s0, d0, h, s, d)
<1>1. available \in Int /\ frozen \in Int /\ pending[o] \in Nat /\ rows[o].amount \in Nat
      /\ rows[o].filled \in Nat /\ n \in Nat
  BY MoneyTyped, OrderTyped, AmountAssumption
<1>2. pc[r] = "idle" /\ rows[o].status \in {"open", "partially_filled"} /\ d0 = 0
      /\ n >= rows[o].filled
  BY NoDebt DEF Update
<1>3. ~Meets(o) /\ ~(n > rows[o].amount)
  BY DEF Update
<1>4. pending[o] = 0 /\ rows[o].filled <= n /\ n <= rows[o].amount
  BY <1>1, <1>2, <1>3 DEF Meets
<1>5. Live(o, h0, s0)
  BY <1>2 DEF AtRest, Fresh, Dead
<1>6. /\ pc'[r] = "pull" /\ req'[r].order = o /\ req'[r].amount = n /\ req'[r].filled = rows[o].filled
      /\ OthersStay(r) /\ UNCHANGED <<rows, traded, pending, rest, available, frozen>>
  BY DEF Update, Goto, TypeOK, RequestsOK, NoReq, OthersStay, account
<1>7. Alone(r, o)
  BY <1>6 DEF Alone, SameOrder, Works
<1>8. Works(r, o)' /\ Owes(r, 0)' /\ Live(o, h0, s0)'
  BY <1>5, <1>6, NoDebtNext DEF Works, UpdateLabels, Live, Backed
<1>9. Stage(r, o, h0, s0, 0)'
  BY <1>4, <1>6, <1>8 DEF Stage
<1>10. available' + frozen' + Collateral * (s0 - s0) = available + frozen
      /\ h0 + 0 - (h0 + d0) <= frozen' - frozen
  <2>1. s0 - s0 = 0 /\ Collateral * 0 = 0
    BY LotsCost
  <2> QED BY <1>1, <1>2, <1>6, <2>1
<1>11. Handled(r, o, h0, s0, d0, h0, s0, 0)
  BY <1>7, <1>8, <1>9, <1>10 DEF Handled, Alone
<1> QED BY <1>11

\* A cancel request turns to an order that is not over.
Finds(r, o) ==
    /\ pc[r] = "read" /\ o \in req[r].todo
    /\ rows[o].status \in {"open", "partially_filled", "pending"}
    /\ req' = [req EXCEPT ![r].todo = @ \ {o}, ![r].order = o,
                          ![r].refund = @ + Refund(rows[o]), ![r].late = ~Active(o)]
    /\ disturbed' = IF Meets(o) THEN disturbed \cup {o} ELSE disturbed
    /\ Goto(r, "cancel")
    /\ UNCHANGED <<rows, account, rest, pending, bounds, traded, answered>>

LEMMA FindsHandled ==
  ASSUME TypeOK, NEW r \in Requests, NEW o \in Orders, NEW h0 \in Nat, NEW s0 \in Nat, NEW d0 \in Nat,
         AtRest(o, h0, s0), Owes(r, d0), Finds(r, o), o \notin disturbed'
  PROVE  \E h, s, d \in Nat : Handled(r, o, h0, s0, d0, h, s, d)
<1>1. /\ available \in Int /\ frozen \in Int /\ pending[o] \in Nat /\ rows[o].amount \in Nat
      /\ rows[o].filled \in Nat /\ traded[o] \in Nat /\ rest[o] \in Nat
  BY MoneyTyped, OrderTyped
<1>2. pc[r] = "read" /\ rows[o].status \in {"open", "partially_filled", "pending"}
      /\ d0 = req[r].refund /\ ~Meets(o) /\ pending[o] = 0
  BY <1>1 DEF Finds, Owes, Meets
<1>3. Live(o, h0, s0)
  BY <1>2 DEF AtRest, Fresh, Dead
<1>4. PICK left \in Nat, f \in Nat, a \in Nat :
         /\ h0 = left * Margin /\ rows[o].margin = h0 /\ a = rows[o].amount /\ f = rows[o].filled
         /\ a <= left + s0 /\ s0 <= f /\ f + 0 + rest[o] <= a /\ traded[o] = f + 0
  BY <1>1, <1>2, <1>3 DEF Live, Backed
<1>5. f <= a /\ traded[o] = f /\ f - s0 \in Nat
  BY <1>1, <1>4
<1>6. PICK R \in Nat : R = Refund(rows[o]) /\ R + (f - s0) * Margin <= h0
  <2>1. Refund(rows[o]) = IF a = 0 THEN 0 ELSE (left * Margin * (a - f)) \div a
    BY <1>4 DEF Refund
  <2>2. LET R == IF a = 0 THEN 0 ELSE (left * Margin * (a - f)) \div a IN
        R \in Nat /\ R + (f - s0) * Margin <= left * Margin
    BY Zenon, <1>4, <1>5, RefundFits
  <2> QED BY Zenon, <1>4, <2>1, <2>2
<1>7. R + Collateral * (f - s0) <= h0
  <2>1. PICK u \in Nat : u = f - s0
    BY <1>5
  <2>2. Collateral * u <= u * Margin /\ Collateral * u \in Nat /\ u * Margin \in Nat
    BY LotsCost
  <2> QED BY <1>6, <2>1, <2>2
<1>8. /\ pc'[r] = "cancel" /\ req'[r].order = o /\ req'[r].refund = d0 + R
      /\ OthersStay(r) /\ UNCHANGED <<rows, traded, pending, rest, available, frozen>>
  BY <1>2, <1>6 DEF Finds, Goto, TypeOK, RequestsOK, Locals, OthersStay, account
<1>9. Alone(r, o)
  BY <1>8 DEF Alone, SameOrder, Works
<1>10. Works(r, o)' /\ Owes(r, d0)' /\ Live(o, h0, s0)'
  BY <1>3, <1>8 DEF Works, Owes, CancelLabels, Live, Backed
<1>11. Stage(r, o, h0, s0, d0)'
  <2>1. d0 <= d0 + R /\ d0 + R - d0 = R
    OBVIOUS
  <2>2. d0 + R - d0 + Collateral * (traded[o] - s0) <= h0
    BY <1>5, <1>7, <2>1
  <2> QED BY <1>2, <1>8, <1>10, <2>1, <2>2 DEF Stage
<1>12. available' + frozen' + Collateral * (s0 - s0) = available + frozen
      /\ h0 + d0 - (h0 + d0) <= frozen' - frozen
  <2>1. s0 - s0 = 0 /\ Collateral * 0 = 0
    BY LotsCost
  <2> QED BY <1>1, <1>8, <2>1
<1>13. Handled(r, o, h0, s0, d0, h0, s0, d0)
  BY <1>9, <1>10, <1>11, <1>12 DEF Handled, Alone
<1> QED BY <1>13

\* A request's step that concerns no order.
LEMMA RebookRequest ==
  ASSUME TypeOK, Apart, NEW held \in [Orders -> Nat], NEW paid \in [Orders -> Nat],
         NEW due \in [Requests -> Nat], NEW r \in Requests, NEW d \in Nat,
         Books(held, paid, due), OthersStay(r), UNCHANGED <<rows, rest, pending, traded>>,
         \A p \in Orders : ~Works(r, p) /\ ~Works(r, p)',
         pc'[r] = "read" => req'[r].order = None, Owes(r, d)',
         available' + frozen' = available + frozen, available' \in Int, frozen' \in Int,
         d - due[r] <= frozen' - frozen
  PROVE  Apart' /\ Books(held, paid, [due EXCEPT ![r] = d])'
<1> DEFINE due2 == [due EXCEPT ![r] = d]
<1>1. /\ due2[r] = d /\ \A q \in Requests \ {r} : due2[q] = due[q]
      /\ \A q \in Requests : due[q] \in Int /\ due2[q] \in Int
  OBVIOUS
<1> HIDE DEF due2
<1>2. \A q \in Requests, p \in Orders : Works(q, p)' <=> Works(q, p)
  BY DEF OthersStay, Works
<1>3. Apart'
  <2>1. \A q \in Requests : pc'[q] = "read" => req'[q].order = None
    BY DEF OthersStay, Apart
  <2> QED BY <1>2, <2>1 DEF Apart
<1>4. \A p \in Orders : SameOrder(p)
  BY DEF SameOrder
<1>5. SumFunctionOnSet(held, Orders) + SumFunctionOnSet(due2, Requests) <= frozen'
  <2>1. SumFunctionOnSet(due2, Requests) = SumFunctionOnSet(due, Requests) + d - due[r]
    BY <1>1, FiniteAssumption, SumChange
  <2>2. /\ SumFunctionOnSet(held, Orders) \in Nat /\ SumFunctionOnSet(due, Requests) \in Nat
        /\ available \in Int /\ frozen \in Int /\ due[r] \in Nat
    BY ShareFrozen
  <2>3. PICK H \in Nat, D \in Nat, f \in Int, f2 \in Int, x \in Nat :
          /\ H = SumFunctionOnSet(held, Orders) /\ D = SumFunctionOnSet(due, Requests)
          /\ f = frozen /\ f2 = frozen' /\ x = due[r]
    BY <2>2
  <2>4. H + D <= f /\ d - x <= f2 - f
    BY <2>3 DEF Books
  <2>5. H + (D + d - x) <= f2
    BY <2>4
  <2> QED BY <2>1, <2>3, <2>5
<1>6. available' + frozen' + Collateral * SumFunctionOnSet(paid, Orders) = Deposit
  BY DEF Books
<1>7. \A p \in Orders : Busy(p)' \/ AtRest(p, held[p], paid[p])'
  <2> SUFFICES ASSUME NEW p \in Orders, ~Busy(p)' PROVE AtRest(p, held[p], paid[p])'
    OBVIOUS
  <2>1. ~Busy(p)
    BY <1>2 DEF Busy
  <2>2. AtRest(p, held[p], paid[p])
    BY <2>1 DEF Books
  <2> QED BY <1>4, <2>2, RestSame
<1>8. \A q \in Requests, p \in Orders : Works(q, p)' => Stage(q, p, held[p], paid[p], due2[q])'
  <2> SUFFICES ASSUME NEW q \in Requests, NEW p \in Orders, Works(q, p)'
               PROVE  Stage(q, p, held[p], paid[p], due2[q])'
    OBVIOUS
  <2>1. Works(q, p) /\ q # r
    BY <1>2
  <2>2. Stage(q, p, held[p], paid[p], due[q])
    BY <2>1 DEF Books
  <2>3. Stage(q, p, held[p], paid[p], due[q])'
    BY <1>4, <2>1, <2>2, StageSame DEF OthersStay
  <2> QED BY <1>1, <2>1, <2>3
<1>9. \A q \in Requests : Owes(q, due2[q])'
  <2> SUFFICES ASSUME NEW q \in Requests, q # r PROVE Owes(q, due[q])'
    BY <1>1
  <2> QED BY DEF Books, Owes, OthersStay
<1>10. Books(held, paid, due2)'
  BY <1>5, <1>6, <1>7, <1>8, <1>9 DEF Books
<1> QED BY <1>3, <1>10 DEF due2

\* A step of the market or the persistence pipeline on an order at rest.
LEMMA RebookOrder ==
  ASSUME TypeOK, TypeOK', Apart, NEW held \in [Orders -> Nat], NEW paid \in [Orders -> Nat],
         NEW due \in [Requests -> Nat], NEW o \in Orders, NEW h \in Nat, NEW s \in Nat,
         Books(held, paid, due), UNCHANGED <<pc, req>>, ~Busy(o),
         \A p \in Orders \ {o} : SameOrder(p), AtRest(o, h, s)',
         available' + frozen' + Collateral * (s - paid[o]) = available + frozen,
         h - held[o] <= frozen' - frozen
  PROVE  Apart' /\ Books([held EXCEPT ![o] = h], [paid EXCEPT ![o] = s], due)'
<1> DEFINE held2 == [held EXCEPT ![o] = h]
           paid2 == [paid EXCEPT ![o] = s]
<1>1. /\ held2[o] = h /\ paid2[o] = s
      /\ \A p \in Orders \ {o} : held2[p] = held[p] /\ paid2[p] = paid[p]
      /\ \A p \in Orders : held[p] \in Int /\ held2[p] \in Int /\ paid[p] \in Int /\ paid2[p] \in Int
  OBVIOUS
<1> HIDE DEF held2, paid2
<1>2. \A q \in Requests, p \in Orders : Works(q, p)' <=> Works(q, p)
  BY DEF Works
<1>3. Apart'
  BY <1>2 DEF Apart
<1>4. /\ available' + frozen' + Collateral * SumFunctionOnSet(paid2, Orders) = Deposit
      /\ SumFunctionOnSet(held2, Orders) + SumFunctionOnSet(due, Requests) <= frozen'
  <2>1. /\ SumFunctionOnSet(paid2, Orders) = SumFunctionOnSet(paid, Orders) + s - paid[o]
        /\ SumFunctionOnSet(held2, Orders) = SumFunctionOnSet(held, Orders) + h - held[o]
    <3>1. SumFunctionOnSet(paid2, Orders) = SumFunctionOnSet(paid, Orders) + s - paid[o]
      BY <1>1, FiniteAssumption, SumChange
    <3>2. SumFunctionOnSet(held2, Orders) = SumFunctionOnSet(held, Orders) + h - held[o]
      BY <1>1, FiniteAssumption, SumChange
    <3> QED BY <3>1, <3>2
  <2>2. /\ SumFunctionOnSet(held, Orders) \in Nat /\ SumFunctionOnSet(due, Requests) \in Nat
        /\ SumFunctionOnSet(paid, Orders) \in Nat
        /\ available \in Int /\ frozen \in Int
    BY ShareFrozen
  <2>3. PICK H \in Int, P \in Int, D \in Int, a \in Int, f \in Int :
          /\ H = SumFunctionOnSet(held, Orders) /\ P = SumFunctionOnSet(paid, Orders)
          /\ D = SumFunctionOnSet(due, Requests) /\ a = available /\ f = frozen
    BY <2>2
  <2>4. PICK a2 \in Int, f2 \in Int : a2 = available' /\ f2 = frozen'
    BY DEF TypeOK, StoreOK
  <2>5. PICK dh \in Int, dp \in Int : dh = h - held[o] /\ dp = s - paid[o]
    OBVIOUS
  <2>6. PICK x \in Int, y \in Int : x = Collateral * P /\ y = Collateral * dp /\ Collateral * (P + dp) = x + y
    BY AmountAssumption, TimesSum
  <2>7. a + f + x = Deposit /\ a2 + f2 + y = a + f /\ H + D <= f /\ dh <= f2 - f
    BY <2>3, <2>4, <2>5, <2>6 DEF Books
  <2>8. a2 + f2 + (x + y) = Deposit /\ (H + dh) + D <= f2
    BY <2>7, AmountAssumption
  <2>9. P + dp = SumFunctionOnSet(paid2, Orders) /\ H + dh = SumFunctionOnSet(held2, Orders)
    BY <2>1, <2>3, <2>5
  <2> QED BY <2>3, <2>4, <2>6, <2>8, <2>9
<1>5. \A p \in Orders : Busy(p)' \/ AtRest(p, held2[p], paid2[p])'
  <2> SUFFICES ASSUME NEW p \in Orders, p # o, ~Busy(p)' PROVE AtRest(p, held2[p], paid2[p])'
    BY <1>1
  <2>1. ~Busy(p)
    BY <1>2 DEF Busy
  <2>2. AtRest(p, held[p], paid[p])
    BY <2>1 DEF Books
  <2>3. AtRest(p, held[p], paid[p])'
    BY <2>2, RestSame
  <2> QED BY <1>1, <2>3
<1>6. \A q \in Requests, p \in Orders : Works(q, p)' => Stage(q, p, held2[p], paid2[p], due[q])'
  <2> SUFFICES ASSUME NEW q \in Requests, NEW p \in Orders, Works(q, p)'
               PROVE  Stage(q, p, held2[p], paid2[p], due[q])'
    OBVIOUS
  <2>1. Works(q, p) /\ p # o
    BY <1>2 DEF Busy
  <2>2. Stage(q, p, held[p], paid[p], due[q])
    BY <2>1 DEF Books
  <2>3. Stage(q, p, held[p], paid[p], due[q])'
    BY <2>1, <2>2, StageSame
  <2> QED BY <1>1, <2>1, <2>3
<1>7. \A q \in Requests : Owes(q, due[q])'
  BY DEF Books, Owes
<1>8. Books(held2, paid2, due)'
  BY <1>4, <1>5, <1>6, <1>7 DEF Books
<1> QED BY <1>3, <1>8 DEF held2, paid2

LEMMA PendingRests ==
  ASSUME TypeOK, NEW r \in Requests, NEW o \in Orders, NEW h \in Nat, NEW s \in Nat, NEW d \in Nat,
         Works(r, o), Stage(r, o, h, s, d)
  PROVE  pending[o] = 0
BY RequestTyped DEF Works, Stage, Fresh, Placed, Entered, Recorded, Ended, Labels, CreateLabels,
   UpdateLabels, CancelLabels

\* An order standing in the book, in numbers.
Stands(o, h, s, left, f, a, p, e) ==
    /\ h = left * Margin /\ rows[o].margin = h /\ a = rows[o].amount /\ f = rows[o].filled
    /\ p = pending[o] /\ e = rest[o] /\ a <= left + s /\ s <= f /\ f + p + e <= a
    /\ traded[o] = f + p /\ rows[o].status \in {"open", "partially_filled", "filled"}

\* Only a standing order trades or waits.
LEMMA StandingLive ==
  ASSUME NEW o \in Orders, NEW h \in Nat, NEW s \in Nat, TypeOK, AtRest(o, h, s),
         rest[o] > 0 \/ pending[o] > 0
  PROVE  \E left, f, a, p, e \in Nat : Stands(o, h, s, left, f, a, p, e)
<1>1. /\ pending[o] \in Nat /\ rest[o] \in Nat /\ rows[o].amount \in Nat /\ rows[o].filled \in Nat
  BY OrderTyped
<1>2. ~(rest[o] = 0 /\ pending[o] = 0)
  BY <1>1
<1>3. Live(o, h, s)
  BY <1>2 DEF AtRest, Fresh, Dead, Ended
<1> QED BY <1>1, <1>3 DEF Live, Backed, Stands

LEMMA BusyActive == ASSUME NEW o \in Orders, Busy(o) PROVE Active(o)
BY DEF Busy, Works, Active

LEMMA TakeBooks ==
  ASSUME TypeOK, TypeOK', Apart, NEW held \in [Orders -> Nat], NEW paid \in [Orders -> Nat],
         NEW due \in [Requests -> Nat], NEW o \in Orders, Books(held, paid, due),
         Take(o), o \notin disturbed'
  PROVE  Apart' /\ \E h \in [Orders -> Nat], s \in [Orders -> Nat], d \in [Requests -> Nat] : Books(h, s, d)'
<1>1. ~Busy(o)
  BY BusyActive DEF Take
<1>2. AtRest(o, held[o], paid[o]) /\ rest[o] > 0 /\ held[o] \in Nat /\ paid[o] \in Nat
  BY <1>1 DEF Books, Take
<1>3. PICK h \in Nat, s \in Nat : h = held[o] /\ s = paid[o] /\ AtRest(o, h, s)
  BY <1>2
<1>s. PICK left, f, a, p, e \in Nat : Stands(o, h, s, left, f, a, p, e)
  BY <1>2, <1>3, StandingLive
<1>4. /\ h = left * Margin /\ rows[o].margin = h /\ a = rows[o].amount /\ f = rows[o].filled
      /\ p = pending[o] /\ e = rest[o] /\ a <= left + s /\ s <= f /\ f + p + e <= a
      /\ traded[o] = f + p /\ rows[o].status \in {"open", "partially_filled", "filled"}
  BY <1>s DEF Stands
<1>5. /\ traded'[o] = traded[o] + 1 /\ pending'[o] = p + 1 /\ rest'[o] = e - 1
      /\ UNCHANGED <<rows, available, frozen, pc, req>> /\ \A q \in Orders \ {o} : SameOrder(q)
  BY <1>4 DEF Take, TypeOK, StoreOK, account, SameOrder
<1>6. f + (p + 1) + (e - 1) <= a /\ f + p + 1 = f + (p + 1)
  BY <1>4
<1>7. AtRest(o, h, s)'
  BY <1>4, <1>5, <1>6 DEF AtRest, Live, Backed
<1>8. /\ available' + frozen' + Collateral * (s - paid[o]) = available + frozen
      /\ h - held[o] <= frozen' - frozen
  <2>1. s - paid[o] = 0 /\ Collateral * 0 = 0 /\ h - held[o] = 0
    BY <1>3, SameLots
  <2> QED BY <1>5, <2>1, MoneyTyped
<1>9. Apart' /\ Books([held EXCEPT ![o] = h], [paid EXCEPT ![o] = s], due)'
  BY <1>1, <1>5, <1>7, <1>8, RebookOrder
<1> QED BY <1>9

LEMMA PersistBooks ==
  ASSUME TypeOK, TypeOK', Apart, NEW held \in [Orders -> Nat], NEW paid \in [Orders -> Nat],
         NEW due \in [Requests -> Nat], NEW o \in Orders, Books(held, paid, due), Persist(o)
  PROVE  Apart' /\ \E h \in [Orders -> Nat], s \in [Orders -> Nat], d \in [Requests -> Nat] : Books(h, s, d)'
<1>0. pending[o] > 0 /\ pending[o] \in Nat
  BY OrderTyped DEF Persist
<1>1. ~Busy(o)
  <2> SUFFICES ASSUME NEW r \in Requests, Works(r, o) PROVE FALSE
    BY DEF Busy
  <2>1. Stage(r, o, held[o], paid[o], due[r]) /\ held[o] \in Nat /\ paid[o] \in Nat /\ due[r] \in Nat
    BY DEF Books
  <2>2. pending[o] = 0
    BY <2>1, PendingRests
  <2> QED BY <1>0, <2>2
<1>2. AtRest(o, held[o], paid[o]) /\ held[o] \in Nat /\ paid[o] \in Nat /\ held[o] <= frozen
      /\ available \in Int /\ frozen \in Int
  BY <1>1, ShareFrozen DEF Books
<1>3. PICK h0 \in Nat, s \in Nat : h0 = held[o] /\ s = paid[o] /\ AtRest(o, h0, s)
  BY <1>2
<1>s. PICK left, f, a, p, e \in Nat : Stands(o, h0, s, left, f, a, p, e)
  BY <1>0, <1>3, StandingLive
<1>4. /\ h0 = left * Margin /\ rows[o].margin = h0 /\ a = rows[o].amount /\ f = rows[o].filled
      /\ p = pending[o] /\ e = rest[o] /\ a <= left + s /\ s <= f /\ f + p + e <= a
      /\ traded[o] = f + p /\ rows[o].status \in {"open", "partially_filled", "filled"}
  BY <1>s DEF Stands
<1>5. /\ p >= 1 /\ left >= 1 /\ left - 1 \in Nat /\ f + 1 <= a /\ s + 1 <= f + 1
      /\ a <= (left - 1) + (s + 1) /\ (f + 1) + (p - 1) + e <= a /\ f + p = (f + 1) + (p - 1)
  BY <1>0, <1>4
<1>6. PICK m \in Nat, h \in Nat : m = Margin /\ h = (left - 1) * Margin /\ h0 = h + m
  <2>1. PICK k \in Nat : k = left - 1 /\ left = k + 1 /\ 1 \in Nat
    BY <1>5
  <2>2. (k + 1) * Margin = k * Margin + 1 * Margin /\ k * Margin \in Nat
    BY <2>1, LotsCost
  <2>3. Margin \in Nat /\ 1 * Margin = Margin
    BY MarginNat
  <2> QED BY <1>4, <2>1, <2>2, <2>3
<1>7. Least(f + 1, a) = f + 1 /\ AtLeastZero(h0 - m) = h
  <2>1. h0 - m = h
    BY <1>6
  <2> QED BY <1>5, <2>1 DEF Least, AtLeastZero
<1>8. /\ traded'[o] = traded[o] /\ pending'[o] = p - 1 /\ rest'[o] = e
      /\ rows'[o].filled = f + 1 /\ rows'[o].margin = h /\ rows'[o].amount = a
      /\ rows'[o].status \in {"partially_filled", "filled"}
      /\ UNCHANGED <<pc, req>>
  BY <1>4, <1>6, <1>7 DEF Persist, TypeOK, StoreOK, Row
<1>9. \A q \in Orders \ {o} : SameOrder(q)
  BY DEF Persist, TypeOK, StoreOK, SameOrder
<1>13. PICK t \in Nat : t = s + 1
  OBVIOUS
<1>10. AtRest(o, h, t)'
  <2>1. f + 1 + (p - 1) + e <= a /\ traded[o] = f + 1 + (p - 1)
    BY <1>4, <1>5
  <2> QED BY <1>4, <1>5, <1>6, <1>8, <1>13, <2>1 DEF AtRest, Live, Backed
<1>11. available' = available + Buffer /\ frozen' = frozen - m
  <2>1. Move(m, Buffer) /\ m <= frozen
    BY <1>2, <1>3, <1>6 DEF Persist
  <2> QED BY <1>2, <2>1, MoveExact, AmountAssumption
<1>12. /\ available' + frozen' + Collateral * (t - paid[o]) = available + frozen
       /\ h - held[o] <= frozen' - frozen
  <2>1. t - paid[o] = 1
    BY <1>3, <1>13
  <2>2. PICK c \in Nat, b \in Nat : c = Collateral /\ b = Buffer /\ m = c + b /\ Collateral * 1 = c
    BY <1>6, AmountAssumption DEF Margin
  <2>3. PICK x \in Int, y \in Int : x = available /\ y = frozen
    BY <1>2
  <2>4. (x + b) + (y - m) + c = x + y /\ h - h0 <= (y - m) - y
    BY <1>6, <2>2
  <2> QED BY <1>3, <1>11, <2>1, <2>2, <2>3, <2>4
<1>14. Apart' /\ Books([held EXCEPT ![o] = h], [paid EXCEPT ![o] = t], due)'
  BY <1>1, <1>8, <1>9, <1>10, <1>12, <1>13, RebookOrder
<1> QED BY <1>14

SomeBooks == \E held, paid \in [Orders -> Nat], due \in [Requests -> Nat] : Books(held, paid, due)

AccountInv == disturbed = {} => Apart /\ SomeBooks

LEMMA StepOnOrder ==
  ASSUME NEW r \in Requests, NEW o \in Orders,
         NEW held \in [Orders -> Nat], NEW paid \in [Orders -> Nat], NEW due \in [Requests -> Nat],
         TypeOK, TypeOK', Apart, Books(held, paid, due),
         \E h, s, d \in Nat : Handled(r, o, held[o], paid[o], due[r], h, s, d),
         \A q \in Requests \ {r} : ~Works(q, o), \A p \in Orders \ {o} : ~Works(r, p)
  PROVE  Apart' /\ SomeBooks'
<1>1. PICK h \in Nat, s \in Nat, d \in Nat : Handled(r, o, held[o], paid[o], due[r], h, s, d)
  OBVIOUS
<1>2. Apart' /\ Books([held EXCEPT ![o] = h], [paid EXCEPT ![o] = s], [due EXCEPT ![r] = d])'
  BY <1>1, Rebook
<1>3. /\ [held EXCEPT ![o] = h] \in [Orders -> Nat] /\ [paid EXCEPT ![o] = s] \in [Orders -> Nat]
      /\ [due EXCEPT ![r] = d] \in [Requests -> Nat]
  OBVIOUS
<1> QED BY <1>2, <1>3 DEF SomeBooks

LEMMA WorkKeeps ==
  ASSUME NEW r \in Requests, TypeOK, TypeOK', Apart, SomeBooks,
         CreateStep(r) \/ UpdateStep(r) \/ EngineCancel(r) \/ Mark(r)
  PROVE  Apart' /\ SomeBooks'
<1>1. PICK held \in [Orders -> Nat], paid \in [Orders -> Nat], due \in [Requests -> Nat] : Books(held, paid, due)
  BY SMTT(30) DEF SomeBooks
<1>2. pc[r] \notin {"idle", "read"}
  BY DEF CreateStep, Freeze, Slippage, Reject, RejectRefund, Submit, Record, Release, Unfreeze,
         UpdateStep, Pull, Amend, Resubmit, Rerecord, EngineCancel, Mark
<1>3. PICK o \in Orders : o = req[r].order
  BY <1>2 DEF TypeOK, RequestsOK
<1>4. Works(r, o) /\ \A q \in Requests \ {r} : ~Works(q, o)
  BY <1>2, <1>3 DEF Works, Apart
<1>5. \A p \in Orders \ {o} : ~Works(r, p)
  BY <1>3 DEF Works
<1>6. held[o] \in Nat /\ paid[o] \in Nat /\ due[r] \in Nat /\ held[o] + due[r] <= frozen
  BY <1>1, ShareFrozen
<1>7. Stage(r, o, held[o], paid[o], due[r]) /\ Owes(r, due[r])
  BY <1>1, <1>4 DEF Books
<1>8. \E h, s, d \in Nat : Handled(r, o, held[o], paid[o], due[r], h, s, d)
  BY <1>4, <1>6, <1>7, WorkHandled
<1> QED BY <1>1, <1>4, <1>5, <1>8, StepOnOrder

LEMMA StartKeeps ==
  ASSUME NEW r \in Requests, NEW o \in Orders, TypeOK, TypeOK', Apart, SomeBooks, disturbed' = {},
         (\E n \in Quantities, kind \in Kinds : Create(r, o, kind, n))
           \/ (\E n \in Quantities : Update(r, o, n)) \/ Finds(r, o)
  PROVE  Apart' /\ SomeBooks'
<1>1. PICK held \in [Orders -> Nat], paid \in [Orders -> Nat], due \in [Requests -> Nat] : Books(held, paid, due)
  BY DEF SomeBooks
<1>2. pc[r] \in {"idle", "read"}
  BY DEF Create, Update, Finds
<1>3. ~Active(o)
  BY DEF Create, Update, Finds, Meets
<1>4. ~Busy(o)
  BY <1>3, BusyActive
<1>5. (\A q \in Requests : ~Works(q, o)) /\ (\A p \in Orders : ~Works(r, p))
  BY <1>2, <1>4 DEF Busy, Works
<1>6. held[o] \in Nat /\ paid[o] \in Nat /\ due[r] \in Nat /\ AtRest(o, held[o], paid[o])
      /\ Owes(r, due[r]) /\ o \notin disturbed'
  BY <1>1, <1>4 DEF Books
<1>7. \E h, s, d \in Nat : Handled(r, o, held[o], paid[o], due[r], h, s, d)
  BY <1>6, CreateHandled, UpdateHandled, FindsHandled
<1> QED BY SMTT(30), <1>1, <1>5, <1>7, StepOnOrder

\* A request that begins, passes an order by, refunds, or is cut between two orders.
LEMMA RequestKeeps ==
  ASSUME NEW r \in Requests, TypeOK, TypeOK', Apart, SomeBooks, disturbed' = {},
         (\E S \in SUBSET Orders : Cancel(r, S)) \/ RefundAll(r) \/ Cut(r)
           \/ (Read(r) /\ pc'[r] = "read")
  PROVE  Apart' /\ SomeBooks'
<1>1. PICK held \in [Orders -> Nat], paid \in [Orders -> Nat], due \in [Requests -> Nat] : Books(held, paid, due)
  BY DEF SomeBooks
<1>2. due[r] \in Nat /\ due[r] <= frozen /\ Owes(r, due[r]) /\ available \in Int /\ frozen \in Int
  BY <1>1, ShareFrozen DEF Books
<1>3. available' \in Int /\ frozen' \in Int
  BY DEF TypeOK, StoreOK
<1>4. SUFFICES \E d \in Nat :
                  /\ OthersStay(r) /\ UNCHANGED <<rows, rest, pending, traded>>
                  /\ pc[r] \in {"idle", "read"} /\ pc'[r] \in {"idle", "read"}
                  /\ pc'[r] = "read" => req'[r].order = None
                  /\ Owes(r, d)' /\ available' + frozen' = available + frozen
                  /\ d - due[r] <= frozen' - frozen
  <2>1. PICK d \in Nat :
                  /\ OthersStay(r) /\ UNCHANGED <<rows, rest, pending, traded>>
                  /\ pc[r] \in {"idle", "read"} /\ pc'[r] \in {"idle", "read"}
                  /\ pc'[r] = "read" => req'[r].order = None
                  /\ Owes(r, d)' /\ available' + frozen' = available + frozen
                  /\ d - due[r] <= frozen' - frozen
    BY <1>4
  <2>2. \A p \in Orders : ~Works(r, p) /\ ~Works(r, p)'
    BY <2>1 DEF Works
  <2>3. Apart' /\ Books(held, paid, [due EXCEPT ![r] = d])'
    BY <1>1, <1>3, <2>1, <2>2, RebookRequest
  <2>4. [due EXCEPT ![r] = d] \in [Requests -> Nat]
    OBVIOUS
  <2> QED BY <2>3, <2>4 DEF SomeBooks
<1>5. CASE \E S \in SUBSET Orders : Cancel(r, S)
  <2>1. /\ pc[r] = "idle" /\ pc'[r] = "read" /\ req'[r].order = None /\ req'[r].refund = 0
        /\ OthersStay(r) /\ UNCHANGED <<rows, rest, pending, traded, available, frozen>>
    BY <1>5 DEF Cancel, Goto, OthersStay, NoReq, TypeOK, RequestsOK, account
  <2>2. due[r] = 0
    BY <1>2, <2>1, NoDebt
  <2>3. Owes(r, 0)'
    BY <2>1 DEF Owes, CancelLabels
  <2>4. 0 - due[r] <= frozen' - frozen
    BY <1>2, <2>1, <2>2
  <2> QED BY <2>1, <2>3, <2>4
<1>6. CASE Read(r) /\ pc'[r] = "read"
  <2>1. /\ pc[r] = "read" /\ req'[r].order = req[r].order /\ req'[r].refund = req[r].refund
        /\ OthersStay(r) /\ UNCHANGED <<rows, rest, pending, traded, available, frozen>>
    BY <1>6 DEF Read, Goto, OthersStay, TypeOK, RequestsOK, Locals, account
  <2>2. req[r].order = None
    BY <2>1 DEF Apart
  <2>3. Owes(r, due[r])'
    BY <1>2, <1>6, <2>1 DEF Owes, CancelLabels
  <2>4. due[r] - due[r] <= frozen' - frozen
    BY <1>2, <2>1
  <2> QED BY <1>2, <1>6, <2>1, <2>2, <2>3, <2>4
<1>7. CASE RefundAll(r)
  <2>1. /\ pc[r] = "read" /\ pc'[r] = "idle"
        /\ OthersStay(r) /\ UNCHANGED <<rows, rest, pending, traded>>
    BY <1>7 DEF RefundAll, Finish, Goto, OthersStay, TypeOK, RequestsOK
  <2>2. PICK d \in Nat : d = due[r] /\ d = req[r].refund /\ d <= frozen
    BY <1>2, <2>1 DEF Owes
  <2>3. available' = available + d /\ frozen' = frozen - d
    <3>1. CASE d > 0
      <4>1. Move(d, d) /\ d \in Int
        BY <1>7, <2>2, <3>1 DEF RefundAll
      <4> QED BY <1>2, <2>2, <4>1, MoveExact
    <3>2. CASE ~(d > 0)
      <4>1. d = 0 /\ available' = available /\ frozen' = frozen
        BY <1>7, <2>2, <3>2 DEF RefundAll, account
      <4> QED BY <1>2, <4>1
    <3> QED BY <3>1, <3>2
  <2>4. Owes(r, 0)'
    BY <2>1, NoDebtNext
  <2>5. available' + frozen' = available + frozen /\ 0 - due[r] <= frozen' - frozen
    <3>1. PICK a \in Int, f \in Int : a = available /\ f = frozen
      BY <1>2
    <3> QED BY <2>2, <2>3, <3>1
  <2> QED BY <2>1, <2>4, <2>5
<1>8. CASE Cut(r)
  <2>1. /\ pc[r] # "idle" /\ pc'[r] = "idle" /\ req[r].order = None
        /\ OthersStay(r) /\ UNCHANGED <<rows, rest, pending, traded, available, frozen>>
    BY <1>8 DEF Cut, Finish, Goto, OthersStay, TypeOK, RequestsOK, account
  <2>2. pc[r] = "read"
    BY <2>1, NoneAssumption DEF TypeOK, RequestsOK
  <2>3. Owes(r, 0)'
    BY <2>1, NoDebtNext
  <2>4. 0 - due[r] <= frozen' - frozen
    BY <1>2, <2>1
  <2> QED BY <2>1, <2>2, <2>3, <2>4
<1> QED BY <1>5, <1>6, <1>7, <1>8

LEMMA MarketKeeps ==
  ASSUME NEW o \in Orders, TypeOK, TypeOK', Apart, SomeBooks, disturbed' = {}, Take(o) \/ Persist(o)
  PROVE  Apart' /\ SomeBooks'
<1>1. PICK held \in [Orders -> Nat], paid \in [Orders -> Nat], due \in [Requests -> Nat] : Books(held, paid, due)
  BY DEF SomeBooks
<1>2. Apart' /\ \E h \in [Orders -> Nat], s \in [Orders -> Nat], d \in [Requests -> Nat] : Books(h, s, d)'
  BY <1>1, TakeBooks, PersistBooks
<1> QED BY <1>2 DEF SomeBooks

\* A restart that disturbs nothing finds every order at rest; what requests
\* between two orders still owed is owed no more.
LEMMA CrashKeeps ==
  ASSUME TypeOK, TypeOK', Apart, SomeBooks, disturbed' = {}, Crash
  PROVE  Apart' /\ SomeBooks'
<1>1. PICK held \in [Orders -> Nat], paid \in [Orders -> Nat], due \in [Requests -> Nat] : Books(held, paid, due)
  BY DEF SomeBooks
<1>2. PICK taken \in [Orders -> {0} \cup Quantities] :
        /\ rest' = [o \in Orders |-> Recovered(o) - taken[o]]
        /\ traded' = [o \in Orders |-> traded[o] + taken[o]]
        /\ disturbed' = disturbed \cup
             {o \in Orders : Active(o) \/ pending[o] > 0 \/ taken[o] > 0}
  BY DEF Crash
<1>3. /\ pending' = [o \in Orders |-> 0] /\ pc' = [r \in Requests |-> "idle"]
      /\ UNCHANGED <<rows, available, frozen>>
  BY DEF Crash, account
<1>4. ASSUME NEW o \in Orders PROVE AtRest(o, held[o], paid[o])'
  <2>1. ~Active(o) /\ ~(pending[o] > 0) /\ ~(taken[o] > 0)
    BY <1>2
  <2>2. taken[o] \in Nat
    <3>1. taken[o] \in {0} \cup Quantities
      BY <1>2
    <3>2. \A n \in {0} \cup Quantities : n \in Nat
      BY AmountAssumption
    <3> QED BY <3>1, <3>2
  <2>3. pending[o] = 0 /\ taken[o] = 0
    BY <2>1, <2>2, OrderTyped
  <2>4. AtRest(o, held[o], paid[o])
    BY <1>1, <2>1, BusyActive DEF Books
  <2>5. PICK a \in Nat, f \in Nat, e \in Nat :
          a = rows[o].amount /\ f = rows[o].filled /\ e = Recovered(o) /\ rest'[o] = e
    <3>1. Recovered(o) \in Nat
      BY OrderTyped, ClampNat DEF Recovered
    <3>2. rest'[o] = Recovered(o) - 0
      BY <1>2, <2>3
    <3> QED BY <3>1, <3>2, OrderTyped
  <2>6. rows'[o] = rows[o] /\ pending'[o] = 0 /\ traded'[o] = traded[o]
    BY <1>2, <1>3, <2>3, OrderTyped
  <2>7. CASE Fresh(o, held[o], paid[o])
    <3>1. Recovered(o) = 0
      BY <2>7 DEF Fresh, Recovered, Restored
    <3> QED BY <2>5, <2>6, <2>7, <3>1 DEF AtRest, Fresh
  <2>8. CASE Dead(o, held[o], paid[o])
    <3>1. Recovered(o) = 0
      BY <2>8 DEF Dead, Recovered, Restored
    <3> QED BY <2>5, <2>6, <2>8, <3>1 DEF AtRest, Dead, Ended
  <2>9. CASE Live(o, held[o], paid[o])
    <3>1. f + 0 + rest[o] <= a /\ rest[o] \in Nat
      BY <2>3, <2>5, <2>9, OrderTyped DEF Live, Backed
    <3>2. e = a - f \/ e = 0
      BY <2>5, <3>1 DEF Recovered, AtLeastZero
    <3>3. f + 0 + e <= a
      BY <3>1, <3>2
    <3> QED BY <2>3, <2>5, <2>6, <2>9, <3>3 DEF AtRest, Live, Backed
  <2> QED BY <2>4, <2>7, <2>8, <2>9 DEF AtRest
<1>5. \A r \in Requests, o \in Orders : ~Works(r, o)'
  BY <1>3 DEF Works
<1> DEFINE none == [r \in Requests |-> 0]
<1>6. \A r \in Requests : Owes(r, none[r])'
  BY <1>3, NoDebtNext
<1>7. none \in [Requests -> Nat] /\ SumFunctionOnSet(none, Requests) = 0
  BY FiniteAssumption, SumZero
<1> HIDE DEF none
<1>8. SumFunctionOnSet(held, Orders) + SumFunctionOnSet(none, Requests) <= frozen
  <2>1. PICK H \in Nat, D \in Nat, f \in Int :
          H = SumFunctionOnSet(held, Orders) /\ D = SumFunctionOnSet(due, Requests) /\ f = frozen
    BY <1>1, ShareFrozen
  <2>2. H + D <= f
    BY <1>1, <2>1 DEF Books
  <2> QED BY <1>7, <2>1, <2>2
<1>9. Books(held, paid, none)'
  <2>1. available' + frozen' + Collateral * SumFunctionOnSet(paid, Orders) = Deposit
    BY <1>1, <1>3 DEF Books
  <2>2. SumFunctionOnSet(held, Orders) + SumFunctionOnSet(none, Requests) <= frozen'
    BY <1>3, <1>8
  <2> QED BY <1>4, <1>5, <1>6, <2>1, <2>2 DEF Books
<1>10. Apart'
  BY <1>3, <1>5 DEF Apart
<1> QED BY <1>1, <1>7, <1>9, <1>10 DEF SomeBooks

LEMMA InitAccount == Init => AccountInv
<1> SUFFICES ASSUME Init PROVE Apart /\ SomeBooks
  BY DEF AccountInv
<1> DEFINE none == [o \in Orders |-> 0]
           debts == [r \in Requests |-> 0]
<1>1. /\ none \in [Orders -> Nat] /\ debts \in [Requests -> Nat]
      /\ SumFunctionOnSet(none, Orders) = 0 /\ SumFunctionOnSet(debts, Requests) = 0
  BY FiniteAssumption, SumZero
<1>2. \A o \in Orders : AtRest(o, none[o], none[o])
  BY DEF Init, NoRow, AtRest, Fresh
<1>3. \A r \in Requests : Owes(r, debts[r])
  BY DEF Init, Owes, CancelLabels
<1> HIDE DEF none, debts
<1>4. \A r \in Requests, o \in Orders : ~Works(r, o)
  BY DEF Init, Works
<1>5. Apart
  BY <1>4 DEF Init, Apart
<1>6. available + frozen + Collateral * SumFunctionOnSet(none, Orders) = Deposit
  <2>1. Collateral * 0 = 0
    BY SameLots
  <2> QED BY <1>1, <2>1, AmountAssumption DEF Init
<1>7. SumFunctionOnSet(none, Orders) + SumFunctionOnSet(debts, Requests) <= frozen
  BY <1>1 DEF Init
<1>8. Books(none, none, debts)
  BY <1>2, <1>3, <1>4, <1>6, <1>7 DEF Books
<1> QED BY <1>1, <1>5, <1>8 DEF SomeBooks

LEMMA DisturbedGrows == ASSUME [Next]_vars PROVE disturbed \subseteq disturbed'
<1>1. ASSUME NEW r \in Requests, CreateStep(r) PROVE disturbed' = disturbed
  BY <1>1 DEF CreateStep, Freeze, Slippage, Reject, RejectRefund, Submit, Record, Release, Unfreeze
<1>2. ASSUME NEW r \in Requests, UpdateStep(r) PROVE disturbed' = disturbed
  BY SMTT(30), <1>2 DEF UpdateStep, Pull, Amend, Resubmit, Rerecord
<1>3. ASSUME NEW r \in Requests, CancelStep(r) PROVE disturbed \subseteq disturbed'
  BY <1>3 DEF CancelStep, Read, EngineCancel, Mark, RefundAll
<1>4. ASSUME NEW r \in Requests, Call(r) PROVE disturbed \subseteq disturbed'
  BY ZenonT(40), <1>4 DEF Call, Create, Update, Cancel
<1>5. ASSUME NEW r \in Requests, Cut(r) \/ Ignored(r) PROVE disturbed \subseteq disturbed'
  BY <1>5 DEF Cut, Ignored
<1>6. ASSUME NEW o \in Orders, Take(o) \/ Persist(o) PROVE disturbed \subseteq disturbed'
  BY <1>6 DEF Take, Persist
<1>7. CASE Crash
  BY <1>7 DEF Crash
<1>8. CASE UNCHANGED vars
  BY <1>8 DEF vars
<1> QED BY <1>1, <1>2, <1>3, <1>4, <1>5, <1>6, <1>7, <1>8 DEF Next

LEMMA ReadCases ==
  ASSUME NEW r \in Requests, TypeOK, Read(r)
  PROVE  (\E o \in Orders : Finds(r, o)) \/ pc'[r] = "read"
<1>1. PICK o \in req[r].todo :
        IF rows[o].status \in {"open", "partially_filled", "pending"}
        THEN /\ req' = [req EXCEPT ![r].todo = @ \ {o}, ![r].order = o,
                                   ![r].refund = @ + Refund(rows[o]),
                                   ![r].late = ~Active(o)]
             /\ disturbed' = IF Meets(o) THEN disturbed \cup {o} ELSE disturbed
             /\ Goto(r, "cancel")
        ELSE /\ req' = [req EXCEPT ![r].todo = @ \ {o}]
             /\ UNCHANGED <<pc, disturbed>>
  BY DEF Read
<1>2. o \in Orders
  BY <1>1 DEF TypeOK, RequestsOK, Locals
<1> QED BY ZenonT(40), <1>1, <1>2 DEF Read, Finds

LEMMA AccountStep ==
  ASSUME TypeOK, TypeOK', AccountInv, [Next]_vars
  PROVE  AccountInv'
<1> SUFFICES ASSUME disturbed' = {} PROVE Apart' /\ SomeBooks'
  BY DEF AccountInv
<1>1. Apart /\ SomeBooks
  BY DisturbedGrows DEF AccountInv
<1>2. ASSUME NEW r \in Requests, CreateStep(r) \/ UpdateStep(r) \/ EngineCancel(r) \/ Mark(r)
      PROVE  Apart' /\ SomeBooks'
  BY <1>1, <1>2, WorkKeeps
<1>3. ASSUME NEW r \in Requests, Call(r) PROVE Apart' /\ SomeBooks'
  BY <1>1, <1>3, StartKeeps, RequestKeeps DEF Call
<1>4. ASSUME NEW r \in Requests, Read(r) PROVE Apart' /\ SomeBooks'
  <2>1. CASE \E o \in Orders : Finds(r, o)
    BY <1>1, <2>1, StartKeeps
  <2>2. CASE pc'[r] = "read"
    BY <1>1, <1>4, <2>2, RequestKeeps
  <2> QED BY <1>4, <2>1, <2>2, ReadCases
<1>5. ASSUME NEW r \in Requests, RefundAll(r) \/ Cut(r) PROVE Apart' /\ SomeBooks'
  BY <1>1, <1>5, RequestKeeps
<1>6. ASSUME NEW r \in Requests, Ignored(r) PROVE FALSE
  BY <1>6 DEF Ignored
<1>7. ASSUME NEW o \in Orders, Take(o) \/ Persist(o) PROVE Apart' /\ SomeBooks'
  BY <1>1, <1>7, MarketKeeps
<1>8. CASE Crash
  BY <1>1, <1>8, CrashKeeps
<1>9. CASE UNCHANGED vars
  <2>1. PICK held \in [Orders -> Nat], paid \in [Orders -> Nat], due \in [Requests -> Nat] : Books(held, paid, due)
    BY <1>1 DEF SomeBooks
  <2>2. /\ UNCHANGED <<rows, rest, pending, traded, pc, req, available, frozen>>
        /\ \A o \in Orders : SameOrder(o)
    BY <1>9 DEF vars, account, SameOrder
  <2>3. \A r \in Requests, o \in Orders : Works(r, o)' <=> Works(r, o)
    BY <2>2 DEF Works
  <2>4. \A o \in Orders : Busy(o)' \/ AtRest(o, held[o], paid[o])'
    BY <2>1, <2>2, <2>3, RestSame DEF Books, Busy
  <2>5. \A r \in Requests, o \in Orders : Works(r, o)' => Stage(r, o, held[o], paid[o], due[r])'
    BY <2>1, <2>2, <2>3, StageSame DEF Books
  <2>6. \A r \in Requests : Owes(r, due[r])'
    BY <2>1, <2>2 DEF Books, Owes
  <2>7. Books(held, paid, due)'
    BY <2>1, <2>2, <2>4, <2>5, <2>6 DEF Books
  <2>8. Apart'
    BY <1>1, <2>2, <2>3 DEF Apart
  <2> QED BY <2>1, <2>7, <2>8 DEF SomeBooks
<1> QED BY <1>2, <1>3, <1>4, <1>5, <1>6, <1>7, <1>8, <1>9 DEF Next, CancelStep

\* What is frozen for the order covers its lots no position was paid for and
\* those that rest.
Covers(o, h, s) == s <= traded[o] /\ Collateral * (traded[o] - s) + Margin * rest[o] <= h

LEMMA LotsFit ==
  ASSUME NEW u \in Nat, NEW e \in Nat, NEW left \in Nat, u + e <= left
  PROVE  Collateral * u + Margin * e <= left * Margin
<1>1. /\ Collateral * u <= u * Margin /\ Collateral * u \in Nat
      /\ (u + e) * Margin = u * Margin + e * Margin
      /\ u * Margin \in Nat /\ e * Margin \in Nat /\ left * Margin \in Nat
  BY LotsCost
<1>2. (u + e) * Margin <= left * Margin
  <2>1. PICK n \in Nat : n = u + e
    OBVIOUS
  <2> QED BY <2>1, MarginNat, TimesMonotone
<1>3. Margin * e = e * Margin
  BY MarginNat
<1> QED BY <1>1, <1>2, <1>3

LEMMA EndedCovers ==
  ASSUME TypeOK, NEW o \in Orders, NEW h \in Nat, NEW s \in Nat, Ended(o, h, s)
  PROVE  Covers(o, h, s)
<1>1. traded[o] \in Nat /\ rest[o] = 0 /\ s <= traded[o] /\ Collateral * (traded[o] - s) <= h
  BY OrderTyped DEF Ended
<1>2. PICK u \in Nat : u = traded[o] - s /\ Collateral * u \in Nat
  <2>1. traded[o] - s \in Nat
    BY <1>1
  <2> QED BY <2>1, LotsCost
<1>3. Margin * 0 = 0
  BY MarginNat
<1> QED BY <1>1, <1>2, <1>3 DEF Covers

LEMMA BackedCovers ==
  ASSUME TypeOK, NEW o \in Orders, NEW h \in Nat, NEW s \in Nat, NEW f \in Nat, Backed(o, h, s, f)
  PROVE  Covers(o, h, s)
<1>1. PICK left \in Nat :
        /\ h = left * Margin /\ rows[o].amount <= left + s
        /\ s <= f /\ f + pending[o] + rest[o] <= rows[o].amount /\ traded[o] = f + pending[o]
  BY BackedFacts
<1>2. PICK a \in Nat, p \in Nat, e \in Nat, t \in Nat :
        a = rows[o].amount /\ p = pending[o] /\ e = rest[o] /\ t = traded[o]
  BY OrderTyped
<1>3. s <= t /\ t - s \in Nat /\ (t - s) + e <= left
  BY <1>1, <1>2
<1>4. Collateral * (t - s) + Margin * e <= left * Margin
  BY <1>3, LotsFit
<1> QED BY <1>1, <1>2, <1>3, <1>4 DEF Covers

LEMMA EnteredCovers ==
  ASSUME TypeOK, NEW r \in Requests, NEW o \in Orders, Entered(r, o)
  PROVE  Covers(o, req[r].amount * Margin, 0)
<1>1. PICK n \in Nat, k \in Nat, e \in Nat :
        /\ n = req[r].amount /\ k = req[r].taken /\ k <= n /\ traded[o] = k
        /\ e = rest[o] /\ e = IF req[r].kind = "limit" THEN n - k ELSE 0
  BY RequestTyped, OrderTyped DEF Entered
<1>2. k + e <= n /\ 0 <= k /\ k - 0 = k
  BY <1>1
<1>3. Collateral * k + Margin * e <= n * Margin
  BY <1>2, LotsFit
<1> QED BY <1>1, <1>2, <1>3 DEF Covers

\* A taker's release leaves what its resting lots need.
LEMMA ReleaseCovers ==
  ASSUME TypeOK, NEW r \in Requests, NEW o \in Orders, NEW h \in Nat, NEW s \in Nat,
         Recorded(r, o), s = req[r].taken,
         h = req[r].amount * Margin - Released(req[r].kind, req[r].amount, req[r].taken)
  PROVE  Covers(o, h, s)
<1>1. PICK n \in Nat, k \in Nat, e \in Nat :
        /\ n = req[r].amount /\ k = req[r].taken /\ k <= n /\ traded[o] = k
        /\ e = rest[o] /\ e = IF req[r].kind = "limit" THEN n - k ELSE 0
        /\ Answer(req[r].kind, n, k) # "open" /\ req[r].kind \in {"limit", "market"}
  BY RequestTyped, OrderTyped DEF Recorded, Entered
<1>2. k - s = 0 /\ s <= k /\ Collateral * 0 = 0 /\ n - k \in Nat /\ Margin * 0 = 0
  <2>1. k - s = 0 /\ s <= k /\ n - k \in Nat
    BY <1>1
  <2>2. Collateral * 0 = 0 /\ Margin * 0 = 0
    BY LotsCost, MarginNat
  <2> QED BY <2>1, <2>2
<1>3. Margin * e <= h
  <2>1. CASE Answer(req[r].kind, n, k) = "partially_filled"
    <3>1. h = (n - k) * Margin
      BY <1>1, <2>1, ReleasedCovers
    <3>2. e <= n - k
      BY <1>1
    <3>3. e * Margin <= (n - k) * Margin
      BY <1>2, <3>2, MarginNat, TimesMonotone
    <3>4. Margin * e = e * Margin
      BY MarginNat
    <3> QED BY <3>1, <3>3, <3>4
  <2>2. CASE Answer(req[r].kind, n, k) # "partially_filled"
    <3>1. e = 0
      BY <1>1, <2>2 DEF Answer
    <3> QED BY <1>2, <3>1
  <2> QED BY <2>1, <2>2
<1>4. Margin * e \in Nat
  BY MarginNat, TimesNat
<1> QED BY <1>1, <1>2, <1>3, <1>4 DEF Covers

LEMMA FreshCovers ==
  ASSUME NEW o \in Orders, NEW h \in Nat, traded[o] = 0, rest[o] = 0
  PROVE  Covers(o, h, 0)
<1>1. 0 - 0 = 0 /\ Collateral * 0 = 0 /\ Margin * 0 = 0
  BY LotsCost, MarginNat
<1> QED BY <1>1 DEF Covers

LEMMA StageCovers ==
  ASSUME TypeOK, NEW r \in Requests, NEW o \in Orders, NEW h \in Nat, NEW s \in Nat, NEW d \in Nat,
         Works(r, o), Stage(r, o, h, s, d)
  PROVE  Covers(o, h, s)
<1>1. CASE pc[r] = "freeze"
  BY <1>1, FreshCovers DEF Stage, Fresh
<1>2. CASE pc[r] \in {"slippage", "submit", "reject", "rejectrefund"}
  BY <1>2, FreshCovers DEF Stage
<1>3. CASE pc[r] \in {"record", "release"}
  BY <1>3, EnteredCovers DEF Stage, Recorded
<1>4. CASE pc[r] = "unfreeze"
  BY <1>4, ReleaseCovers DEF Stage
<1>5. CASE pc[r] \in {"pull", "amend", "resubmit", "cancel"}
  <2>1. Backed(o, h, s, rows[o].filled)
    BY <1>5 DEF Stage, Live
  <2> QED BY <2>1, OrderTyped, BackedCovers
<1>6. CASE pc[r] = "rerecord"
  <2>1. Backed(o, h, s, req[r].filled + req[r].taken) /\ req[r].filled + req[r].taken \in Nat
    BY <1>6, RequestTyped DEF Stage
  <2> QED BY <2>1, BackedCovers
<1>7. CASE pc[r] = "mark"
  BY <1>7, EndedCovers DEF Stage
<1> QED BY <1>1, <1>2, <1>3, <1>4, <1>5, <1>6, <1>7, RequestTyped
    DEF Works, Labels, CreateLabels, UpdateLabels, CancelLabels

LEMMA BooksCover ==
  ASSUME TypeOK, NEW held \in [Orders -> Nat], NEW paid \in [Orders -> Nat],
         NEW due \in [Requests -> Nat], Books(held, paid, due), NEW o \in Orders
  PROVE  Covers(o, held[o], paid[o])
<1>1. held[o] \in Nat /\ paid[o] \in Nat
  OBVIOUS
<1>2. CASE Busy(o)
  <2>1. PICK r \in Requests : Works(r, o) /\ Stage(r, o, held[o], paid[o], due[r]) /\ due[r] \in Nat
    BY <1>2 DEF Busy, Books
  <2> QED BY <1>1, <2>1, StageCovers
<1>3. CASE AtRest(o, held[o], paid[o])
  <2>1. CASE Fresh(o, held[o], paid[o])
    BY <1>1, <2>1, FreshCovers DEF Fresh
  <2>2. CASE Dead(o, held[o], paid[o])
    BY <1>1, <2>2, EndedCovers DEF Dead
  <2>3. CASE Live(o, held[o], paid[o])
    BY <1>1, <2>3, OrderTyped, BackedCovers DEF Live
  <2> QED BY <1>3, <2>1, <2>2, <2>3 DEF AtRest
<1> QED BY <1>2, <1>3 DEF Books

\* Summed over the orders.
LEMMA BooksBalance ==
  ASSUME TypeOK, SomeBooks
  PROVE  /\ available + Collateral * Total(traded) + Margin * Total(rest) <= Deposit
         /\ available + frozen + Collateral * Total(traded) >= Deposit
<1>1. PICK held \in [Orders -> Nat], paid \in [Orders -> Nat], due \in [Requests -> Nat] : Books(held, paid, due)
  BY DEF SomeBooks
<1>2. \A o \in Orders : /\ Covers(o, held[o], paid[o]) /\ held[o] \in Nat /\ paid[o] \in Nat
                        /\ traded[o] \in Nat /\ rest[o] \in Nat
  BY <1>1, BooksCover, OrderTyped
<1> DEFINE open == [o \in Orders |-> traded[o] - paid[o]]
           none == [o \in Orders |-> 0]
           kept == [o \in Orders |-> Margin * rest[o]]
           need == [o \in Orders |-> Collateral * (traded[o] - paid[o]) + Margin * rest[o]]
<1>3. PICK c \in Nat, m \in Nat : c = Collateral /\ m = Margin
  BY AmountAssumption, MarginNat
<1>4. \A o \in Orders : /\ open[o] \in Nat /\ traded[o] = 1 * open[o] + paid[o]
                        /\ none[o] = 0 /\ kept[o] \in Int /\ need[o] \in Int
                        /\ kept[o] = m * rest[o] + none[o]
                        /\ need[o] = c * open[o] + kept[o] /\ need[o] <= held[o]
  <2> SUFFICES ASSUME NEW o \in Orders
               PROVE  /\ open[o] \in Nat /\ traded[o] = 1 * open[o] + paid[o]
                      /\ none[o] = 0 /\ kept[o] \in Int /\ need[o] \in Int
                      /\ kept[o] = m * rest[o] + none[o]
                      /\ need[o] = c * open[o] + kept[o] /\ need[o] <= held[o]
    OBVIOUS
  <2>1. PICK u \in Nat : u = traded[o] - paid[o] /\ traded[o] = u + paid[o]
    <3>1. traded[o] - paid[o] \in Nat /\ traded[o] = (traded[o] - paid[o]) + paid[o]
      BY <1>2 DEF Covers
    <3> QED BY <3>1
  <2>2. c * u \in Int /\ m * rest[o] \in Int /\ 1 * u = u
    BY <1>2, TimesNat
  <2>3. open[o] = u /\ none[o] = 0 /\ kept[o] = m * rest[o] /\ need[o] = c * u + m * rest[o]
    BY <1>3, <2>1
  <2>4. need[o] <= held[o]
    BY <1>2 DEF Covers
  <2> HIDE DEF open, none, kept, need
  <2> QED BY <1>2, <2>1, <2>2, <2>3, <2>4
<1> HIDE DEF open, none, kept, need
<1>5. PICK T \in Int, P \in Int, U \in Int, E \in Int, K \in Int, N \in Int, H \in Int :
        /\ T = Total(traded) /\ P = SumFunctionOnSet(paid, Orders) /\ U = SumFunctionOnSet(open, Orders)
        /\ E = Total(rest) /\ K = SumFunctionOnSet(kept, Orders)
        /\ N = SumFunctionOnSet(need, Orders) /\ H = SumFunctionOnSet(held, Orders)
  <2>1. \A o \in Orders : /\ traded[o] \in Int /\ paid[o] \in Int /\ open[o] \in Int /\ rest[o] \in Int
                          /\ kept[o] \in Int /\ need[o] \in Int /\ held[o] \in Int
    BY <1>2, <1>4
  <2> QED BY <2>1, FiniteAssumption, SumInt DEF Total
<1>6. T = 1 * U + P
  BY <1>2, <1>4, <1>5, FiniteAssumption, SumLinear DEF Total
<1>7. K = m * E + 0
  <2>1. SumFunctionOnSet(none, Orders) = 0
    BY <1>4, FiniteAssumption, SumZero
  <2>2. SumFunctionOnSet(kept, Orders) = m * SumFunctionOnSet(rest, Orders) + SumFunctionOnSet(none, Orders)
    <3>1. \A o \in Orders : rest[o] \in Int /\ none[o] \in Int /\ kept[o] = m * rest[o] + none[o]
      BY <1>2, <1>4
    <3> QED BY <1>3, <3>1, FiniteAssumption, SumLinear
  <2> QED BY <1>5, <2>1, <2>2 DEF Total
<1>8. N = c * U + K
  <2>1. \A o \in Orders : open[o] \in Int /\ kept[o] \in Int /\ need[o] = c * open[o] + kept[o]
    BY <1>4
  <2> QED BY <1>3, <1>5, <2>1, FiniteAssumption, SumLinear
<1>9. N <= H
  <2>1. \A o \in Orders : need[o] \in Int /\ held[o] \in Int /\ need[o] <= held[o]
    BY <1>2, <1>4
  <2> QED BY <1>5, <2>1, FiniteAssumption, SumMonotone
<1>10. U \in Nat
  BY <1>4, <1>5, FiniteAssumption, SumNat
<1>11. PICK a \in Int, f \in Int, D \in Nat : a = available /\ f = frozen /\ D = SumFunctionOnSet(due, Requests)
  BY <1>1, ShareFrozen
<1>12. a + f + c * P = Deposit /\ H + D <= f
  BY <1>1, <1>3, <1>5, <1>11 DEF Books
<1>13. PICK x \in Int, y \in Int, z \in Int : x = c * P /\ y = c * U /\ z = m * E
  BY TimesInt
<1>14. c * T = y + x /\ y \in Nat
  <2>1. T = U + P
    BY <1>6
  <2>2. c * (U + P) = c * U + c * P
    BY TimesSum
  <2>3. c * U \in Nat
    BY <1>10, TimesNat
  <2> QED BY <1>13, <2>1, <2>2, <2>3
<1>15. y + z <= H
  BY <1>7, <1>8, <1>9, <1>13
<1>16. a + (y + x) + z <= Deposit /\ a + f + (y + x) >= Deposit
  BY <1>11, <1>12, <1>13, <1>14, <1>15, AmountAssumption
<1> QED BY <1>3, <1>5, <1>11, <1>13, <1>14, <1>16

LEMMA AccountKept == Spec => [](TypeOK /\ AccountInv)
<1>1. Init => AccountInv
  BY InitAccount
<1>2. TypeOK /\ TypeOK' /\ AccountInv /\ [Next]_vars => AccountInv'
  BY AccountStep
<1> QED BY <1>1, <1>2, OrderFlowTypeCorrect, PTL DEF Spec

\* While the requests for one order come one at a time, after the order's trades
\* were persisted and never to raise its amount, the deposit covers what the
\* user may spend, what the positions took and what the resting lots will need,
\* whatever the handlers and the pipeline of different orders do in between
\* (order.rs create_order, update_order, cancel_order, batch_cancel;
\* orchestrator.rs persist_trade_with_tx).
THEOREM AccountCovered == Spec => []CoveredUnlessDisturbed
<1>1. TypeOK /\ AccountInv => CoveredUnlessDisturbed
  BY BooksBalance DEF AccountInv, CoveredUnlessDisturbed, Covered
<1> QED BY <1>1, AccountKept, PTL

\* ... and none of the user's money is lost: the unused part of every margin
\* that is released comes back (order.rs create_order, cancel_order;
\* orchestrator.rs persist_trade_with_tx).
THEOREM MoneyKept == Spec => []NothingVanishes
<1>1. TypeOK /\ AccountInv => NothingVanishes
  BY BooksBalance DEF AccountInv, NothingVanishes
<1> QED BY <1>1, AccountKept, PTL
====
