--------------------------- MODULE PositionsProofs ---------------------------
(***************************************************************************)
(* Theorems about Positions for every number of workers, positions and     *)
(* orders, and for all amounts: every variable keeps its type; as long as  *)
(* no row changed between a read of the service and its write, a user      *)
(* holds one side of the market at a time and the collateral of a position *)
(* is paid out once; and as long as nothing leaked, the money adds up.     *)
(***************************************************************************)
EXTENDS Positions, SumFacts, TLAPS

(***************************************************************************)
(* Arithmetic.                                                             *)
(***************************************************************************)

LEMMA TimesInt == ASSUME NEW m \in Int, NEW n \in Int PROVE m * n \in Int
OBVIOUS

LEMMA TimesNat == ASSUME NEW m \in Nat, NEW n \in Nat PROVE m * n \in Nat
OBVIOUS

LEMMA QuotientInt == ASSUME NEW m \in Int, NEW n \in Nat \ {0} PROVE m \div n \in Int
OBVIOUS

LEMMA QuotientNat == ASSUME NEW m \in Nat, NEW n \in Nat \ {0} PROVE m \div n \in Nat
OBVIOUS

LEMMA FloorNat == ASSUME NEW n \in Int PROVE AtLeastZero(n) \in Nat
BY DEF AtLeastZero

LEMMA LeastInt == ASSUME NEW m \in Int, NEW n \in Int PROVE Least(m, n) \in Int
BY DEF Least

LEMMA ShareInt ==
  ASSUME NEW amount \in Int, NEW part \in Int, NEW whole \in Int
  PROVE  Share(amount, part, whole) \in Int
<1>1. CASE whole > 0
  BY <1>1, TimesInt, QuotientInt DEF Share
<1>2. CASE ~(whole > 0)
  BY <1>2 DEF Share
<1> QED BY <1>1, <1>2

LEMMA BufferInt == ASSUME NEW size \in Int PROVE Buffer(size) \in Int
BY AmountAssumption, QuotientInt DEF Buffer

LEMMA MarginNat == ASSUME NEW size \in Nat PROVE Margin(size) \in Nat
BY AmountAssumption, QuotientNat DEF Margin, Buffer

LEMMA MoveInt ==
  ASSUME NEW m \in Int, NEW n \in Int, Move(m, n), available \in Int, frozen \in Int
  PROVE  available' \in Int /\ frozen' \in Int
BY FloorNat DEF Move

(***************************************************************************)
(* Rows.                                                                   *)
(***************************************************************************)

LEMMA NoRowRow == NoRow \in Row
BY DEF NoRow, Row, Sides

LEMMA RowFields ==
  ASSUME NEW row \in Row
  PROVE  /\ row.tokens \in Int /\ row.size \in Int /\ row.coll \in Int
         /\ row.tfee \in Int /\ row.ffee \in Int /\ row.side \in Sides
BY DEF Row

\* What a close of c leaves of a row.
LEMMA SharesInt ==
  ASSUME NEW row \in Row, NEW c \in Int
  PROVE  /\ row.tokens - Share(row.tokens, c, row.size) \in Int
         /\ row.coll - Share(row.coll, c, row.size) \in Int
         /\ row.tfee - Share(row.tfee, c, row.size) \in Int
         /\ row.ffee - Share(row.ffee, c, row.size) \in Int
<1>1. /\ Share(row.tokens, c, row.size) \in Int /\ Share(row.coll, c, row.size) \in Int
      /\ Share(row.tfee, c, row.size) \in Int /\ Share(row.ffee, c, row.size) \in Int
  BY RowFields, ShareInt
<1> QED BY <1>1, RowFields

LEMMA ShutRow == ASSUME NEW row \in Row PROVE Shut(row) \in Row
<1>1. PICK zero \in Int : zero = 0
  OBVIOUS
<1> DEFINE half == [row EXCEPT !.status = "closed", !.tokens = zero, !.size = zero, !.coll = zero]
<1>2. half \in Row
  BY DEF Row
<1>3. Shut(row) = [half EXCEPT !.tfee = zero, !.ffee = zero]
  BY <1>1 DEF Shut
<1> HIDE DEF half
<1> QED BY <1>2, <1>3 DEF Row

LEMMA HandlerShutRow ==
  ASSUME NEW row \in Row
  PROVE  HandlerShut(row) \in Row /\ [HandlerShut(row) EXCEPT !.status = "liquidated"] \in Row
<1>1. PICK zero \in Int : zero = 0
  OBVIOUS
<1>2. [row EXCEPT !.status = "closed", !.tokens = zero, !.size = zero, !.coll = zero] \in Row
  BY DEF Row
<1>3. HandlerShut(row) \in Row
  BY <1>1, <1>2 DEF HandlerShut
<1> QED BY <1>3 DEF Row

LEMMA CutRow ==
  ASSUME NEW row \in Row, NEW c \in Int
  PROVE  Cut(row, c) \in Row
<1> DEFINE tokens == row.tokens - Share(row.tokens, c, row.size)
           coll   == row.coll - Share(row.coll, c, row.size)
           tfee   == row.tfee - Share(row.tfee, c, row.size)
           ffee   == row.ffee - Share(row.ffee, c, row.size)
           half   == [row EXCEPT !.tokens = tokens, !.size = row.size - c, !.coll = coll]
<1>1. tokens \in Int /\ coll \in Int /\ tfee \in Int /\ ffee \in Int
  BY SharesInt
<1>2. row.size - c \in Int
  BY RowFields
<1>3. AtLeastZero(tfee) \in Int /\ AtLeastZero(ffee) \in Int
  BY <1>1, FloorNat
<1>4. Cut(row, c) = [half EXCEPT !.tfee = AtLeastZero(tfee), !.ffee = AtLeastZero(ffee)]
  BY DEF Cut, Row
<1> HIDE DEF tokens, coll, tfee, ffee
<1>5. half \in Row
  BY <1>1, <1>2 DEF Row
<1> HIDE DEF half
<1> QED BY <1>3, <1>4, <1>5 DEF Row

LEMMA HandlerCutRow ==
  ASSUME NEW row \in Row, NEW c \in Int
  PROVE  HandlerCut(row, c) \in Row
<1> DEFINE tokens == row.tokens - Share(row.tokens, c, row.size)
           coll   == row.coll - Share(row.coll, c, row.size)
           tfee   == row.tfee - Share(row.tfee, c, row.size)
           ffee   == row.ffee - Share(row.ffee, c, row.size)
           half   == [row EXCEPT !.tokens = tokens, !.size = row.size - c, !.coll = coll]
<1>1. tokens \in Int /\ coll \in Int /\ tfee \in Int /\ ffee \in Int
  BY SharesInt
<1>2. row.size - c \in Int
  BY RowFields
<1>3. HandlerCut(row, c) = [half EXCEPT !.tfee = tfee, !.ffee = ffee]
  BY DEF HandlerCut, Row
<1> HIDE DEF tokens, coll, tfee, ffee
<1>4. half \in Row
  BY <1>1, <1>2 DEF Row
<1> HIDE DEF half
<1> QED BY <1>1, <1>3, <1>4 DEF Row

LEMMA ProfitInt ==
  ASSUME NEW row \in Row, NEW price \in Nat
  PROVE  Profit(row, price) \in Int
<1>1. row.tokens * price \in Int
  BY RowFields, TimesInt
<1> QED BY <1>1, RowFields DEF Profit

LEMMA BookInt ==
  ASSUME NEW row \in Row, NEW c \in Int, NEW price \in Nat
  PROVE  Gain(row, c, price) \in Int /\ Charge(row, c) \in Int /\ Payout(row, c, price) \in Int
<1>1. Gain(row, c, price) \in Int
  BY RowFields, ProfitInt, ShareInt DEF Gain
<1>2. /\ Share(row.tfee, c, row.size) \in Int /\ Share(row.ffee, c, row.size) \in Int
      /\ Share(row.coll, c, row.size) \in Int
  BY RowFields, ShareInt
<1>3. Charge(row, c) \in Int
  BY <1>2 DEF Charge
<1>4. Payout(row, c, price) \in Int
  BY <1>1, <1>2, <1>3 DEF Payout
<1> QED BY <1>1, <1>3, <1>4

\* Booking a close keeps the types of the books.
LEMMA BookTypes ==
  ASSUME NEW p \in Pids, NEW row \in Row, NEW c \in Int, NEW price \in Nat,
         Book(p, row, c, price),
         pnl \in Int, fees \in Int, absorbed \in Int, closings \in [Pids -> Nat]
  PROVE  pnl' \in Int /\ fees' \in Int /\ absorbed' \in Int /\ closings' \in [Pids -> Nat]
<1>1. /\ Gain(row, c, price) \in Int /\ Charge(row, c) \in Int
      /\ AtLeastZero(-Payout(row, c, price)) \in Int
  BY BookInt, FloorNat
<1> QED BY <1>1 DEF Book

LEMMA CloseAmounts ==
  ASSUME NEW row \in Row, NEW n \in Int, NEW price \in Nat
  PROVE  /\ Closed(row, n, price) \in Int
         /\ HandlerCloses(row, n) \in Int
<1>1. Closed(row, n, price) \in Int
  BY RowFields, LeastInt DEF Closed
<1>2. HandlerCloses(row, n) \in Int
  BY RowFields, ShareInt, LeastInt DEF HandlerCloses
<1> QED BY <1>1, <1>2

(***************************************************************************)
(* Types.                                                                  *)
(***************************************************************************)

\* A worker that is to write a row knows which one; a fee has its order.
PidLabels == {"decrease", "write", "addfreeze", "addread", "addwrite", "removewrite",
              "removepay", "liquidate", "fund"}
Ready == \A w \in Workers :
    /\ pc[w] \in PidLabels => loc[w].pid \in Pids
    /\ pc[w] = "fee" => loc[w].order \in Orders

LEMMA InitTypes == Init => TypeOK /\ Ready
<1> SUFFICES ASSUME Init PROVE TypeOK /\ Ready
  OBVIOUS
<1>1. NoRow \in Row /\ NoOrder \in OrderRow
  BY DEF NoRow, Row, NoOrder, OrderRow, Sides
<1>2. NoLoc \in Locals
  BY <1>1 DEF NoLoc, Locals, Sides
<1> QED BY <1>1, <1>2, AmountAssumption DEF Init, TypeOK, Ready, Labels, PidLabels

LEMMA NoLocLocals == NoLoc \in Locals /\ NoOrder \in OrderRow
<1>1. NoRow \in Row
  BY NoRowRow
<1> QED BY <1>1 DEF NoLoc, Locals, Sides, NoOrder, OrderRow

\* A worker moves to a label with locals of their type.
LEMMA WorkerMoves ==
  ASSUME TypeOK, Ready, NEW w \in Workers, NEW label \in Labels, NEW q \in Locals,
         pc' = [pc EXCEPT ![w] = label], loc' = [loc EXCEPT ![w] = q],
         label \in PidLabels => q.pid \in Pids,
         label = "fee" => q.order \in Orders
  PROVE  pc' \in [Workers -> Labels] /\ loc' \in [Workers -> Locals] /\ Ready'
BY DEF TypeOK, Ready

LEMMA FinishMoves ==
  ASSUME TypeOK, Ready, NEW w \in Workers, Finish(w)
  PROVE  pc' \in [Workers -> Labels] /\ loc' \in [Workers -> Locals] /\ Ready'
<1>1. NoLoc \in Locals /\ "idle" \in Labels /\ "idle" \notin PidLabels /\ "idle" # "fee"
  BY NoLocLocals DEF Labels, PidLabels
<1> QED BY <1>1, WorkerMoves DEF Finish, Goto

\* An order only changes its status.
LEMMA OrderStatus ==
  ASSUME TypeOK, NEW o, NEW status \in {"open", "filled", "applying", "applied"},
         orders' = [orders EXCEPT ![o].status = status]
  PROVE  orders' \in [Orders -> OrderRow]
<1>1. ASSUME NEW row \in OrderRow PROVE [row EXCEPT !.status = status] \in OrderRow
  BY DEF OrderRow
<1>2. \A q \in Orders : [orders[q] EXCEPT !.status = status] \in OrderRow
  BY <1>1 DEF TypeOK
<1> QED BY <1>2 DEF TypeOK

LEMMA FailMoves ==
  ASSUME TypeOK, Ready, NEW w \in Workers, Fail(w)
  PROVE  /\ pc' \in [Workers -> Labels] /\ loc' \in [Workers -> Locals] /\ Ready'
         /\ lock' = None /\ orders' \in [Orders -> OrderRow]
<1>1. CASE ByTrade(w)
  <2>1. Finish(w) /\ lock' = None
        /\ orders' = [orders EXCEPT ![loc[w].order].status = "filled"]
    BY <1>1 DEF Fail, Unlock
  <2>2. orders' \in [Orders -> OrderRow]
    BY <2>1, OrderStatus
  <2> QED BY <2>1, <2>2, FinishMoves
<1>2. CASE ~ByTrade(w)
  <2>1. Goto(w, "thaw") /\ UNCHANGED <<loc, orders>> /\ lock' = None
    BY <1>2 DEF Fail, Unlock
  <2> QED BY <2>1 DEF TypeOK, Ready, Goto, Labels, PidLabels
<1> QED BY <1>1, <1>2

LEMMA DoneMoves ==
  ASSUME TypeOK, Ready, NEW w \in Workers, NEW p \in Pids \cup {None}, Done(w, p)
  PROVE  /\ pc' \in [Workers -> Labels] /\ loc' \in [Workers -> Locals] /\ Ready'
         /\ lock' = None
<1>1. CASE ByTrade(w)
  <2> DEFINE q == [NoLoc EXCEPT !.order = loc[w].order, !.pid = p]
  <2>1. Goto(w, "fee") /\ loc' = [loc EXCEPT ![w] = q] /\ lock' = None
    BY <1>1 DEF Done, Unlock
  <2>2. loc[w].order \in Orders
    BY <1>1 DEF ByTrade, TypeOK, Locals
  <2>3. q \in Locals /\ q.order \in Orders
    BY <2>2, NoLocLocals DEF Locals
  <2> HIDE DEF q
  <2> QED BY <2>1, <2>3, WorkerMoves DEF Goto, Labels, PidLabels
<1>2. CASE ~ByTrade(w)
  BY <1>2, FinishMoves DEF Done, Unlock
<1> QED BY <1>1, <1>2

-----------------------------------------------------------------------------
(* Orders and requests of the user. *)

\* What an order is taken to require is a natural number.
LEMMA RequiredNat ==
  ASSUME TypeOK, NEW side \in Sides, NEW size \in Nat, NEW need \in Required(side, size)
  PROVE  need \in Nat
<1>1. CASE Open(Opposite(side)) = {}
  <2>1. need = Margin(size)
    BY <1>1 DEF Required
  <2> QED BY <2>1, MarginNat
<1>2. CASE Open(Opposite(side)) # {}
  <2>1. PICK p \in Open(Opposite(side)) :
          need = IF size <= pos[p].size THEN FeeEstimate(size) ELSE Margin(size - pos[p].size)
    BY <1>2 DEF Required
  <2>2. p \in Pids /\ pos[p].size \in Int
    BY <2>1 DEF Open, TypeOK, Row
  <2>3. Leverage * size \in Nat
    BY AmountAssumption, TimesNat
  <2>4. FeeEstimate(size) \in Nat
    BY <2>3, AmountAssumption, QuotientNat DEF FeeEstimate
  <2>5. size > pos[p].size => size - pos[p].size \in Nat
    BY <2>2
  <2>6. size > pos[p].size => Margin(size - pos[p].size) \in Nat
    BY <2>5, MarginNat
  <2> QED BY <2>1, <2>2, <2>4, <2>6
<1> QED BY <1>1, <1>2

\* An order is placed with what is frozen and what it is taken to require.
LEMMA Placed ==
  ASSUME TypeOK, NEW o \in Orders, NEW side \in Sides, NEW n \in Lots,
         NEW price \in Prices, Place(o, side, n, price)
  PROVE  \E need, m \in Nat :
           /\ m \in {0, need} /\ orders[o].status = "none" /\ available >= m
           /\ available' = available - m /\ frozen' = frozen + m
           /\ orders' = [orders EXCEPT ![o] = [status |-> "pending", side |-> side, lots |-> n,
                           price |-> price, margin |-> m, need |-> need, due |-> "none"]]
           /\ UNCHANGED <<pos, lock, pc, loc, calls, books>>
<1>1. n \in Nat /\ price \in Nat /\ n * price \in Nat
  BY AmountAssumption, TimesNat
<1>2. PICK need \in Required(side, n * price) :
        LET m == IF Closes(side, n) THEN 0 ELSE need IN
        /\ orders[o].status = "none" /\ available >= m
        /\ available' = available - m /\ frozen' = frozen + m
        /\ orders' = [orders EXCEPT ![o] = [status |-> "pending", side |-> side, lots |-> n,
                        price |-> price, margin |-> m, need |-> need, due |-> "none"]]
        /\ UNCHANGED <<pos, lock, pc, loc, calls, books>>
  BY DEF Place
<1>3. need \in Nat
  BY <1>1, RequiredNat
<1> DEFINE m == IF Closes(side, n) THEN 0 ELSE need
<1>4. m \in Nat /\ m \in {0, need}
  BY <1>3
<1>5. /\ orders[o].status = "none" /\ available >= m
      /\ available' = available - m /\ frozen' = frozen + m
      /\ orders' = [orders EXCEPT ![o] = [status |-> "pending", side |-> side, lots |-> n,
                      price |-> price, margin |-> m, need |-> need, due |-> "none"]]
      /\ UNCHANGED <<pos, lock, pc, loc, calls, books>>
  BY <1>2
<1> HIDE DEF m
<1> QED BY <1>3, <1>4, <1>5

LEMMA PlaceTypes ==
  ASSUME TypeOK, Ready, NEW o \in Orders, NEW side \in Sides, NEW n \in Lots,
         NEW price \in Prices, Place(o, side, n, price)
  PROVE  TypeOK' /\ Ready'
<1>1. PICK need \in Nat, m \in Nat :
        /\ available' = available - m /\ frozen' = frozen + m
        /\ orders' = [orders EXCEPT ![o] = [status |-> "pending", side |-> side, lots |-> n,
                        price |-> price, margin |-> m, need |-> need, due |-> "none"]]
        /\ UNCHANGED <<pos, lock, pc, loc, calls, books>>
  BY Placed
<1>2. n \in Nat /\ price \in Nat
  BY AmountAssumption
<1> QED BY <1>1, <1>2 DEF TypeOK, Ready, OrderRow, books

LEMMA RestTypes ==
  ASSUME TypeOK, Ready, NEW o \in Orders, Rest(o)
  PROVE  TypeOK' /\ Ready'
<1>1. ASSUME NEW row \in OrderRow PROVE [row EXCEPT !.status = "open", !.need = 0] \in OrderRow
  BY DEF OrderRow
<1>2. orders' \in [Orders -> OrderRow]
  BY <1>1 DEF Rest, TypeOK
<1> QED BY <1>2 DEF Rest, TypeOK, Ready, books, account

LEMMA MatchTypes ==
  ASSUME TypeOK, Ready, NEW o \in Orders, NEW price \in Prices, Match(o, price)
  PROVE  TypeOK' /\ Ready'
<1>1. price \in Nat
  BY AmountAssumption
<1>2. ASSUME NEW row \in OrderRow
      PROVE  [row EXCEPT !.status = "filled", !.price = price, !.due = "row"] \in OrderRow
  BY <1>1 DEF OrderRow
<1>3. orders' \in [Orders -> OrderRow]
  BY <1>2 DEF Match, TypeOK
<1> QED BY <1>3 DEF Match, TypeOK, Ready, books, account

LEMMA UnfilledTypes ==
  ASSUME TypeOK, Ready, NEW o \in Orders, Unfilled(o)
  PROVE  TypeOK' /\ Ready'
<1>1. ASSUME NEW row \in OrderRow
      PROVE  [row EXCEPT !.status = "cancelled", !.due = "row"] \in OrderRow
  BY DEF OrderRow
<1>2. orders' \in [Orders -> OrderRow]
  BY <1>1 DEF Unfilled, TypeOK
<1> QED BY <1>2 DEF Unfilled, TypeOK, Ready, books, account

\* An order only changes what its request has still to do.
LEMMA OrderDue ==
  ASSUME TypeOK, NEW o \in Orders, NEW due \in {"none", "release", "lost"},
         NEW need \in Nat,
         orders' = [orders EXCEPT ![o].due = due, ![o].need = need]
  PROVE  orders' \in [Orders -> OrderRow]
<1>1. ASSUME NEW row \in OrderRow PROVE [row EXCEPT !.due = due, !.need = need] \in OrderRow
  BY DEF OrderRow
<1> QED BY <1>1 DEF TypeOK

LEMMA RowWrittenTypes ==
  ASSUME TypeOK, Ready, NEW o \in Orders, RowWritten(o)
  PROVE  TypeOK' /\ Ready'
<1>1. ASSUME NEW row \in OrderRow, NEW due \in {"release", "lost"}
      PROVE  [row EXCEPT !.due = due] \in OrderRow
  BY DEF OrderRow
<1>2. PICK due \in {"release", "lost"} :
        orders' = [orders EXCEPT ![o].due = due] /\ leaks' \subseteq leaks \cup {"failed"}
  BY DEF RowWritten
<1>3. orders' \in [Orders -> OrderRow]
  BY <1>1, <1>2 DEF TypeOK
<1> QED BY <1>2, <1>3 DEF RowWritten, TypeOK, Ready, account

\* A statement of its own moves whole amounts, or adds a window.
LEMMA SettleTypes ==
  ASSUME TypeOK, NEW x \in Int, NEW y \in Int, NEW windows, Settle(x, y, windows)
  PROVE  available' \in Int /\ frozen' \in Int /\ leaks' \subseteq leaks \cup windows \cup {"failed"}
<1>1. CASE Move(x, y) /\ leaks' = leaks \cup windows
  <2>1. available' \in Int /\ frozen' \in Int
    BY <1>1, MoveInt DEF TypeOK
  <2> QED BY <1>1, <2>1
<1>2. CASE leaks' = leaks \cup {"failed"} /\ UNCHANGED account
  BY <1>2 DEF TypeOK, account
<1> QED BY <1>1, <1>2 DEF Settle

\* What a request takes to a position, and what is left of what it required.
LEMMA UnspentInt ==
  ASSUME NEW row \in OrderRow
  PROVE  Collateral(row) \in Nat /\ Unspent(row) \in Nat
<1>1. row.lots * row.price \in Nat
  BY TimesNat DEF OrderRow
<1>2. Collateral(row) \in Nat
  BY <1>1, AmountAssumption, QuotientNat DEF Collateral
<1>3. row.need - Collateral(row) \in Int
  BY <1>2 DEF OrderRow
<1> QED BY <1>2, <1>3, FloorNat DEF Unspent

LEMMA TakerReleaseTypes ==
  ASSUME TypeOK, Ready, NEW o \in Orders, TakerRelease(o)
  PROVE  TypeOK' /\ Ready'
<1> DEFINE row == orders[o]
           W == (IF row.margin = 0 /\ frozen > 0 THEN {"drained"} ELSE {}) \cup
                (IF row.margin > 0 /\ frozen < row.need THEN {"short"} ELSE {}) \cup
                (IF row.margin > 0 /\ row.need < Collateral(row) THEN {"slipped"} ELSE {})
<1>1. row \in OrderRow /\ row.need \in Int /\ Unspent(row) \in Int
  BY UnspentInt DEF TypeOK, OrderRow
<1>2. /\ orders' = [orders EXCEPT ![o].due = "none", ![o].need = 0]
      /\ Settle(row.need, Unspent(row), W)
      /\ gift' = gift + (IF row.margin = 0 THEN Unspent(row) ELSE 0)
      /\ UNCHANGED <<pos, lock, pc, loc, calls, pnl, fees, absorbed, closings>>
  BY DEF TakerRelease
<1>3. W \subseteq {"drained", "short", "slipped"}
  OBVIOUS
<1> HIDE DEF row, W
<1>4. available' \in Int /\ frozen' \in Int /\ leaks' \subseteq leaks \cup W \cup {"failed"}
  BY <1>1, <1>2, SettleTypes
<1>5. orders' \in [Orders -> OrderRow]
  BY <1>2, OrderDue
<1>6. gift' \in Int
  BY <1>1, <1>2 DEF TypeOK
<1> QED BY <1>2, <1>3, <1>4, <1>5, <1>6 DEF TypeOK, Ready

LEMMA CancelTypes ==
  ASSUME TypeOK, Ready, NEW o \in Orders, Cancel(o)
  PROVE  TypeOK' /\ Ready'
<1> DEFINE m == orders[o].margin
<1>1. m \in Int
  BY DEF TypeOK, OrderRow
<1>2. /\ orders' = [orders EXCEPT ![o] = [NoOrder EXCEPT !.status = "cancelled"]]
      /\ Move(m, m)
      /\ leaks' = leaks \cup (IF frozen < m THEN {"short"} ELSE {})
      /\ UNCHANGED <<pos, lock, pc, loc, calls, pnl, fees, absorbed, gift, closings>>
  BY DEF Cancel
<1> HIDE DEF m
<1>3. available' \in Int /\ frozen' \in Int
  BY <1>1, <1>2, MoveInt DEF TypeOK
<1>4. [NoOrder EXCEPT !.status = "cancelled"] \in OrderRow
  BY NoLocLocals DEF OrderRow
<1> QED BY <1>2, <1>3, <1>4 DEF TypeOK, Ready

LEMMA FillTypes ==
  ASSUME TypeOK, Ready, NEW o \in Orders, Fill(o)
  PROVE  TypeOK' /\ Ready'
<1> DEFINE size == orders[o].lots * orders[o].price
<1>1. size \in Nat
  BY TimesNat DEF TypeOK, OrderRow
<1>2. Margin(size) \in Int /\ Buffer(size) \in Int
  BY <1>1, MarginNat, BufferInt
<1>3. /\ orders' = [orders EXCEPT ![o].status = "filled", ![o].need = 0]
      /\ Move(Margin(size), Buffer(size))
      /\ gift' = gift + (IF orders[o].margin = 0 THEN Buffer(size) ELSE 0)
      /\ leaks' = leaks \cup (IF orders[o].margin = 0 /\ frozen > 0 THEN {"drained"} ELSE {})
                    \cup (IF orders[o].margin > 0 /\ frozen < Margin(size) THEN {"short"} ELSE {})
      /\ UNCHANGED <<pos, lock, pc, loc, calls, pnl, fees, absorbed, closings>>
  BY DEF Fill
<1> HIDE DEF size
<1>4. available' \in Int /\ frozen' \in Int /\ gift' \in Int
  BY <1>2, <1>3, MoveInt DEF TypeOK
<1>5. orders' \in [Orders -> OrderRow]
  <2>1. ASSUME NEW row \in OrderRow PROVE [row EXCEPT !.status = "filled", !.need = 0] \in OrderRow
    BY DEF OrderRow
  <2> QED BY <1>3, <2>1 DEF TypeOK
<1> QED BY <1>3, <1>4, <1>5 DEF TypeOK, Ready

LEMMA CloseHandlerTypes ==
  ASSUME TypeOK, Ready, NEW p \in Pids, NEW n \in Lots, NEW price \in Prices,
         CloseHandler(p, n, price)
  PROVE  TypeOK' /\ Ready'
<1> DEFINE row  == pos[p]
           c    == HandlerCloses(row, n)
           out  == Share(row.coll, c, row.size) + Buffer(c)
           left == OpenRows \ (IF c = row.size THEN {p} ELSE {}) # {}
           paid == AtLeastZero(Payout(row, c, price))
           rest == IF c = row.size /\ ~left THEN AtLeastZero(Residual(left) - out) ELSE 0
<1>1. row \in Row /\ n \in Int /\ price \in Nat
  BY AmountAssumption DEF TypeOK
<1>2. c \in Int
  BY <1>1, CloseAmounts
<1>3. out \in Int /\ paid \in Int
  <2>1. Share(row.coll, c, row.size) \in Int /\ Buffer(c) \in Int
    BY <1>1, <1>2, RowFields, ShareInt, BufferInt
  <2>2. Payout(row, c, price) \in Int
    BY <1>1, <1>2, BookInt
  <2> QED BY <2>1, <2>2, FloorNat
<1>4. rest \in Int
  <2>1. Residual(left) \in Int
    BY DEF Residual, TypeOK
  <2> QED BY <1>3, <2>1, FloorNat
<1>5. /\ Count("close")
      /\ pos' = [pos EXCEPT ![p] = IF c = row.size THEN HandlerShut(row) ELSE HandlerCut(row, c)]
      /\ Book(p, row, c, price)
      /\ Move(out + rest, paid + rest)
      /\ leaks' = leaks \cup (IF frozen > 0 THEN {"drained"} ELSE {})
      /\ UNCHANGED <<orders, lock, pc, loc, gift>>
  BY DEF CloseHandler
<1> HIDE DEF row, c, out, left, paid, rest
<1>6. pos' \in [Pids -> Row]
  BY <1>1, <1>2, <1>5, HandlerShutRow, HandlerCutRow DEF TypeOK
<1>7. pnl' \in Int /\ fees' \in Int /\ absorbed' \in Int /\ closings' \in [Pids -> Nat]
  BY <1>1, <1>2, <1>5, BookTypes DEF TypeOK
<1>8. available' \in Int /\ frozen' \in Int
  <2>1. out + rest \in Int /\ paid + rest \in Int
    BY <1>3, <1>4
  <2> QED BY <1>5, <2>1, MoveInt DEF TypeOK
<1> QED BY <1>5, <1>6, <1>7, <1>8 DEF TypeOK, Ready, Count

-----------------------------------------------------------------------------
(* Calls begin. *)

LEMMA ApplyTypes ==
  ASSUME TypeOK, Ready, NEW w \in Workers, NEW o \in Orders, Apply(w, o)
  PROVE  TypeOK' /\ Ready'
<1> DEFINE q == [NoLoc EXCEPT !.order = o, !.side = orders[o].side,
                              !.lots = orders[o].lots, !.price = orders[o].price]
<1>1. q \in Locals
  <2>1. orders[o].side \in Sides /\ orders[o].lots \in Int /\ orders[o].price \in Nat
    BY DEF TypeOK, OrderRow
  <2> QED BY <2>1, NoLocLocals DEF Locals
<1>2. /\ lock' = w /\ orders' = [orders EXCEPT ![o].status = "applying"]
      /\ loc' = [loc EXCEPT ![w] = q] /\ pc' = [pc EXCEPT ![w] = "opposing"]
      /\ UNCHANGED <<pos, account, calls, books>>
  BY DEF Apply, Lock, Goto
<1> HIDE DEF q
<1>3. pc' \in [Workers -> Labels] /\ loc' \in [Workers -> Locals] /\ Ready'
  BY <1>1, <1>2, WorkerMoves DEF Labels, PidLabels
<1>4. orders' \in [Orders -> OrderRow]
  BY <1>2, OrderStatus
<1> QED BY <1>2, <1>3, <1>4 DEF TypeOK, account, books

LEMMA OpenCallTypes ==
  ASSUME TypeOK, Ready, NEW w \in Workers, NEW side \in Sides, NEW n \in Lots,
         NEW price \in Prices, OpenCall(w, side, n, price)
  PROVE  TypeOK' /\ Ready'
<1> DEFINE q == [NoLoc EXCEPT !.side = side, !.lots = n, !.price = price,
                              !.coll = (n * price) \div Leverage]
<1>1. n \in Nat /\ price \in Nat /\ (n * price) \div Leverage \in Int
  BY AmountAssumption, TimesNat, QuotientNat
<1> DEFINE coll == (n * price) \div Leverage
<1>2. q \in Locals
  <2>1. n \in Int /\ coll \in Int
    BY <1>1
  <2>2. q = [NoLoc EXCEPT !.side = side, !.lots = n, !.price = price, !.coll = coll]
    OBVIOUS
  <2> HIDE DEF coll
  <2> QED BY <1>1, <2>1, <2>2, NoLocLocals DEF Locals
<1>3. /\ Count("open") /\ loc' = [loc EXCEPT ![w] = q] /\ pc' = [pc EXCEPT ![w] = "freeze"]
      /\ UNCHANGED <<pos, orders, account, lock, books>>
  BY DEF OpenCall, Goto
<1> HIDE DEF q
<1>4. pc' \in [Workers -> Labels] /\ loc' \in [Workers -> Locals] /\ Ready'
  BY <1>2, <1>3, WorkerMoves DEF Labels, PidLabels
<1> QED BY <1>3, <1>4 DEF TypeOK, Count, account, books

LEMMA AddTypes ==
  ASSUME TypeOK, Ready, NEW w \in Workers, NEW p \in Pids, Add(w, p)
  PROVE  TypeOK' /\ Ready'
<1> DEFINE q == [NoLoc EXCEPT !.pid = p, !.coll = MinCollateral]
<1>1. q \in Locals /\ q.pid \in Pids
  <2>1. MinCollateral \in Int
    BY AmountAssumption
  <2> QED BY <2>1, NoLocLocals DEF Locals
<1>2. /\ Count("move") /\ loc' = [loc EXCEPT ![w] = q] /\ pc' = [pc EXCEPT ![w] = "addfreeze"]
      /\ UNCHANGED <<pos, orders, account, lock, books>>
  BY DEF Add, Goto
<1> HIDE DEF q
<1>3. pc' \in [Workers -> Labels] /\ loc' \in [Workers -> Locals] /\ Ready'
  BY <1>1, <1>2, WorkerMoves DEF Labels, PidLabels
<1> QED BY <1>2, <1>3 DEF TypeOK, Count, account, books

LEMMA RemoveTypes ==
  ASSUME TypeOK, Ready, NEW w \in Workers, NEW p \in Pids, NEW price \in Prices,
         Remove(w, p, price)
  PROVE  TypeOK' /\ Ready'
<1> DEFINE q == [NoLoc EXCEPT !.pid = p, !.coll = MinCollateral, !.row = pos[p]]
<1>1. q \in Locals /\ q.pid \in Pids
  <2>1. MinCollateral \in Int /\ pos[p] \in Row
    BY AmountAssumption DEF TypeOK
  <2> QED BY <2>1, NoLocLocals DEF Locals
<1>2. /\ Count("move") /\ loc' = [loc EXCEPT ![w] = q] /\ pc' = [pc EXCEPT ![w] = "removewrite"]
      /\ UNCHANGED <<pos, orders, account, lock, books>>
  BY DEF Remove, Goto
<1> HIDE DEF q
<1>3. pc' \in [Workers -> Labels] /\ loc' \in [Workers -> Locals] /\ Ready'
  BY <1>1, <1>2, WorkerMoves DEF Labels
<1> QED BY <1>2, <1>3 DEF TypeOK, Count, account, books

LEMMA ScanTypes ==
  ASSUME TypeOK, Ready, NEW w \in Workers, NEW p \in Pids, NEW price \in Prices,
         Scan(w, p, price)
  PROVE  TypeOK' /\ Ready'
<1> DEFINE q == [NoLoc EXCEPT !.pid = p, !.price = price]
<1>1. q \in Locals /\ q.pid \in Pids
  BY AmountAssumption, NoLocLocals DEF Locals
<1>2. /\ Count("liquidate") /\ loc' = [loc EXCEPT ![w] = q]
      /\ pc' = [pc EXCEPT ![w] = "liquidate"]
      /\ UNCHANGED <<pos, orders, account, lock, books>>
  BY DEF Scan, Goto
<1> HIDE DEF q
<1>3. pc' \in [Workers -> Labels] /\ loc' \in [Workers -> Locals] /\ Ready'
  BY <1>1, <1>2, WorkerMoves DEF Labels
<1> QED BY <1>2, <1>3 DEF TypeOK, Count, account, books

LEMMA FundListTypes ==
  ASSUME TypeOK, Ready, NEW w \in Workers, NEW p \in Pids, FundList(w, p)
  PROVE  TypeOK' /\ Ready'
<1> DEFINE q == [NoLoc EXCEPT !.pid = p]
<1>1. q \in Locals /\ q.pid \in Pids
  BY NoLocLocals DEF Locals
<1>2. /\ Count("fund") /\ loc' = [loc EXCEPT ![w] = q] /\ pc' = [pc EXCEPT ![w] = "fund"]
      /\ UNCHANGED <<pos, orders, account, lock, books>>
  BY DEF FundList, Goto
<1> HIDE DEF q
<1>3. pc' \in [Workers -> Labels] /\ loc' \in [Workers -> Locals] /\ Ready'
  BY <1>1, <1>2, WorkerMoves DEF Labels
<1> QED BY <1>2, <1>3 DEF TypeOK, Count, account, books

-----------------------------------------------------------------------------
(* Steps of increase_position. *)

LEMMA LocFields ==
  ASSUME TypeOK, NEW w \in Workers
  PROVE  /\ loc[w] \in Locals
         /\ loc[w].lots \in Int /\ loc[w].price \in Nat /\ loc[w].coll \in Int
         /\ loc[w].want \in Int /\ loc[w].returned \in Int
         /\ loc[w].snap \in Row /\ loc[w].row \in Row /\ loc[w].side \in Sides
         /\ loc[w].pid \in Pids \cup {None} /\ loc[w].order \in Orders \cup {None}
         /\ loc[w].flip \in BOOLEAN /\ loc[w].whole \in BOOLEAN
<1>1. loc[w] \in Locals
  BY DEF TypeOK
<1> QED BY <1>1 DEF Locals

LEMMA FreezeTypes ==
  ASSUME TypeOK, Ready, NEW w \in Workers, Freeze(w)
  PROVE  TypeOK' /\ Ready'
<1>1. loc[w].coll \in Int
  BY LocFields
<1> QED BY <1>1 DEF Freeze, Goto, TypeOK, Ready, Labels, PidLabels

LEMMA OpenLockTypes ==
  ASSUME TypeOK, Ready, NEW w \in Workers, OpenLock(w)
  PROVE  TypeOK' /\ Ready'
BY DEF OpenLock, Lock, Goto, TypeOK, Ready, Labels, PidLabels, account, books

LEMMA ThawTypes ==
  ASSUME TypeOK, Ready, NEW w \in Workers, Thaw(w)
  PROVE  TypeOK' /\ Ready'
<1>1. loc[w].coll \in Int
  BY LocFields
<1>2. pc' \in [Workers -> Labels] /\ loc' \in [Workers -> Locals] /\ Ready'
  BY SMTT(30), FinishMoves DEF Thaw
<1>3. available' \in Int /\ frozen' \in Int /\ leaks' \subseteq leaks \cup {"failed"}
  BY <1>1 DEF Thaw, TypeOK, account
<1> QED BY <1>2, <1>3 DEF Thaw, TypeOK

LEMMA OpposingTypes ==
  ASSUME TypeOK, Ready, NEW w \in Workers, Opposing(w)
  PROVE  TypeOK' /\ Ready'
<1>1. pc' \in [Workers -> Labels] /\ loc' \in [Workers -> Locals] /\ Ready'
  <2>1. CASE Goto(w, "same") /\ UNCHANGED loc
    BY <2>1 DEF Goto, TypeOK, Ready, Labels, PidLabels
  <2>2. CASE ~(Goto(w, "same") /\ UNCHANGED loc)
    <3>1. PICK p \in Open(Opposite(loc[w].side)) :
            LET row  == pos[p]
                flip == row.tokens < loc[w].lots
                want == IF flip \/ row.tokens = loc[w].lots THEN row.size
                        ELSE Share(row.size, loc[w].lots, row.tokens)
            IN /\ loc' = [loc EXCEPT ![w].pid = p, ![w].flip = flip, ![w].want = want,
                                     ![w].snap = row]
               /\ Goto(w, "decrease")
      BY <2>2 DEF Opposing
    <3> DEFINE flip == pos[p].tokens < loc[w].lots
               want == IF flip \/ pos[p].tokens = loc[w].lots THEN pos[p].size
                       ELSE Share(pos[p].size, loc[w].lots, pos[p].tokens)
               q == [loc[w] EXCEPT !.pid = p, !.flip = flip, !.want = want, !.snap = pos[p]]
    <3>2. p \in Pids /\ pos[p] \in Row
      BY DEF Open, TypeOK
    <3>3. want \in Int /\ flip \in BOOLEAN
      <4>1. pos[p].size \in Int /\ pos[p].tokens \in Int /\ loc[w].lots \in Int
        BY <3>2, LocFields, RowFields
      <4>2. Share(pos[p].size, loc[w].lots, pos[p].tokens) \in Int
        BY <4>1, ShareInt
      <4> QED BY <4>1, <4>2
    <3>4. loc' = [loc EXCEPT ![w] = q] /\ pc' = [pc EXCEPT ![w] = "decrease"]
      BY <3>1 DEF Goto, TypeOK
    <3> HIDE DEF flip, want
    <3>5. q \in Locals /\ q.pid \in Pids
      BY <3>2, <3>3, LocFields DEF Locals
    <3> HIDE DEF q
    <3> QED BY <3>4, <3>5, WorkerMoves DEF Labels
  <2> QED BY <2>1, <2>2
<1> QED BY <1>1 DEF Opposing, TypeOK, account, books

LEMMA DecreaseTypes ==
  ASSUME TypeOK, Ready, NEW w \in Workers, Decrease(w)
  PROVE  TypeOK' /\ Ready'
<1>1. UNCHANGED <<pos, account, books>>
  BY DEF Decrease
<1>2. CASE pos[loc[w].pid].status # "open"
  <2>1. Fail(w) /\ UNCHANGED calls
    BY <1>2 DEF Decrease
  <2>2. lock' \in Workers \cup {None}
    BY <2>1, FailMoves
  <2> QED BY <1>1, <2>1, <2>2, FailMoves DEF TypeOK, account, books
<1>3. CASE pos[loc[w].pid].status = "open"
  <2> DEFINE row == pos[loc[w].pid]
             c == IF loc[w].flip THEN row.size ELSE Closed(row, loc[w].want, loc[w].price)
             q == [loc[w] EXCEPT !.row = row, !.want = c]
  <2>1. loc[w].pid \in Pids /\ row \in Row
    BY DEF Decrease, Ready, PidLabels, TypeOK
  <2>2. c \in Int
    BY <2>1, LocFields, RowFields, CloseAmounts
  <2>3. /\ loc' = [loc EXCEPT ![w] = q] /\ pc' = [pc EXCEPT ![w] = "write"]
        /\ UNCHANGED <<lock, orders, calls>>
    BY <1>3 DEF Decrease, Goto, TypeOK
  <2> HIDE DEF row, c
  <2>4. q \in Locals /\ q.pid \in Pids
    BY <2>1, <2>2, LocFields DEF Locals
  <2> HIDE DEF q
  <2>5. pc' \in [Workers -> Labels] /\ loc' \in [Workers -> Locals] /\ Ready'
    BY <2>3, <2>4, WorkerMoves DEF Labels
  <2> QED BY <1>1, <2>3, <2>5 DEF TypeOK, account, books
<1> QED BY <1>2, <1>3

LEMMA StaleType ==
  ASSUME NEW p, NEW row
  PROVE  Stale(p, row) \subseteq {"stale"}
BY DEF Stale

LEMMA WriteTypes ==
  ASSUME TypeOK, Ready, NEW w \in Workers, Write(w)
  PROVE  TypeOK' /\ Ready'
<1> DEFINE l == loc[w]
           whole == l.want = l.row.size
           back == AtLeastZero(Payout(l.row, l.want, l.price))
           q == [l EXCEPT !.whole = whole, !.returned = back]
<1>1. l.pid \in Pids /\ l.row \in Row /\ l.want \in Int /\ l.price \in Nat
  BY LocFields DEF Write, Ready, PidLabels
<1>2. back \in Int /\ whole \in BOOLEAN
  BY <1>1, BookInt, FloorNat
<1>3. /\ pos' = [pos EXCEPT ![l.pid] = IF whole THEN Shut(l.row) ELSE Cut(l.row, l.want)]
      /\ Book(l.pid, l.row, l.want, l.price)
      /\ leaks' = leaks \cup Stale(l.pid, l.row)
                        \cup (IF ~whole /\ l.row.ffee < 0 THEN {"funding"} ELSE {})
      /\ UNCHANGED <<orders, account, lock, calls, gift>>
  BY DEF Write
<1>4. loc' = [loc EXCEPT ![w] = q] /\ pc' = [pc EXCEPT ![w] = "release"]
  BY DEF Write, Goto, TypeOK
<1> HIDE DEF whole, back
<1>5. q \in Locals
  BY <1>2, LocFields DEF Locals
<1> HIDE DEF q
<1>6. pc' \in [Workers -> Labels] /\ loc' \in [Workers -> Locals] /\ Ready'
  BY <1>4, <1>5, WorkerMoves DEF Labels, PidLabels
<1>7. pos' \in [Pids -> Row]
  BY <1>1, <1>3, ShutRow, CutRow DEF TypeOK
<1>8. pnl' \in Int /\ fees' \in Int /\ absorbed' \in Int /\ closings' \in [Pids -> Nat]
  BY <1>1, <1>3, BookTypes DEF TypeOK
<1> HIDE DEF l
<1> QED BY <1>3, <1>6, <1>7, <1>8, StaleType DEF TypeOK, account

LEMMA ReleaseAmounts ==
  ASSUME TypeOK, NEW w \in Workers
  PROVE  FrozenRelease(w) \in Int /\ AvailableAdd(w) \in Int
<1> DEFINE l == loc[w]
           part == IF l.flip \/ l.snap.tokens = l.lots THEN l.snap.size
                   ELSE Share(l.snap.size, l.lots, l.snap.tokens)
           back == IF l.flip THEN AtLeastZero(l.returned - Flipped(w)) ELSE l.returned
<1>1. /\ l.snap.size \in Int /\ l.snap.tokens \in Int /\ l.snap.coll \in Int
      /\ l.lots \in Int /\ l.price \in Int /\ l.returned \in Int
  BY LocFields, RowFields
<1>2. part \in Int
  BY <1>1, ShareInt
<1>3. Buffer(part) \in Int /\ Share(l.snap.coll, part, l.snap.size) \in Int
  BY <1>1, <1>2, BufferInt, ShareInt
<1>4. Flipped(w) \in Int
  <2>1. l.lots - l.snap.tokens \in Int
    BY <1>1
  <2> QED BY <1>1, <2>1, TimesInt, QuotientInt, AmountAssumption DEF Flipped
<1>5. back \in Int
  BY <1>1, <1>4, FloorNat
<1>6. FrozenRelease(w) = IF ByTrade(w) THEN 0
                         ELSE Share(l.snap.coll, part, l.snap.size) + Buffer(part)
  BY DEF FrozenRelease
<1>7. AvailableAdd(w) = IF ByTrade(w) THEN back ELSE back + Buffer(part)
  BY DEF AvailableAdd
<1> HIDE DEF l, part, back
<1> QED BY <1>3, <1>5, <1>6, <1>7

LEMMA ReleaseTypes ==
  ASSUME TypeOK, Ready, NEW w \in Workers, Release(w)
  PROVE  TypeOK' /\ Ready'
<1> DEFINE W == IF Forfeits(w) \/ loc[w].flip THEN {"forfeited"} ELSE {}
<1>1. available' \in Int /\ frozen' \in Int /\ leaks' \subseteq leaks \cup W \cup {"failed"}
  BY ReleaseAmounts, SettleTypes DEF Release
<1>2. /\ pc' \in [Workers -> Labels] /\ loc' \in [Workers -> Locals] /\ Ready'
      /\ lock' \in Workers \cup {None}
  <2>1. CASE loc[w].flip
    <3> DEFINE q == [loc[w] EXCEPT !.lots = @ - loc[w].snap.tokens]
    <3>1. loc' = [loc EXCEPT ![w] = q] /\ pc' = [pc EXCEPT ![w] = "same"] /\ UNCHANGED lock
      BY <2>1 DEF Release, Goto, TypeOK
    <3>2. q \in Locals
      <4>1. loc[w].lots - loc[w].snap.tokens \in Int
        BY LocFields, RowFields
      <4> QED BY <4>1, LocFields DEF Locals
    <3> HIDE DEF q
    <3> QED BY <3>1, <3>2, WorkerMoves DEF Labels, PidLabels, TypeOK
  <2>2. CASE ~loc[w].flip /\ ByTrade(w) /\ ~loc[w].whole
    <3>1. Done(w, loc[w].pid)
      BY <2>2 DEF Release
    <3> QED BY <3>1, LocFields, DoneMoves
  <2>3. CASE ~loc[w].flip /\ ~(ByTrade(w) /\ ~loc[w].whole)
    <3>1. Goto(w, IF ByTrade(w) THEN "clean" ELSE "incoming") /\ UNCHANGED <<loc, lock>>
      BY <2>3 DEF Release
    <3> QED BY <3>1 DEF Goto, TypeOK, Ready, Labels, PidLabels
  <2> QED BY <2>1, <2>2, <2>3
<1>3. /\ W \subseteq {"forfeited"}
      /\ UNCHANGED <<pos, orders, calls, pnl, fees, absorbed, gift, closings>>
  BY DEF Release
<1> QED BY <1>1, <1>2, <1>3 DEF TypeOK

LEMMA IncomingReleaseTypes ==
  ASSUME TypeOK, Ready, NEW w \in Workers, IncomingRelease(w)
  PROVE  TypeOK' /\ Ready'
<1>1. available' \in Int /\ frozen' \in Int /\ leaks' \subseteq leaks \cup {"failed"}
  BY LocFields, SettleTypes DEF IncomingRelease
<1>2. /\ pc' \in [Workers -> Labels] /\ loc' \in [Workers -> Locals] /\ Ready'
      /\ lock' \in Workers \cup {None}
  <2>1. CASE loc[w].whole
    <3>1. Goto(w, "clean") /\ UNCHANGED <<loc, lock>>
      BY <2>1 DEF IncomingRelease
    <3> QED BY <3>1 DEF Goto, TypeOK, Ready, Labels, PidLabels
  <2>2. CASE ~loc[w].whole
    <3>1. Done(w, loc[w].pid)
      BY <2>2 DEF IncomingRelease
    <3> QED BY <3>1, LocFields, DoneMoves
  <2> QED BY <2>1, <2>2
<1> QED BY <1>1, <1>2 DEF IncomingRelease, TypeOK

LEMMA CleanTypes ==
  ASSUME TypeOK, Ready, NEW w \in Workers, Clean(w)
  PROVE  TypeOK' /\ Ready'
<1>1. Residual(OpenRows # {}) \in Int
  BY DEF Residual, TypeOK
<1>2. available' \in Int /\ frozen' \in Int
  BY <1>1, MoveInt DEF Clean, TypeOK
<1>3. /\ pc' \in [Workers -> Labels] /\ loc' \in [Workers -> Locals] /\ Ready'
      /\ lock' = None
  BY DoneMoves DEF Clean
<1> QED BY <1>2, <1>3 DEF Clean, TypeOK, books

LEMMA SameTypes ==
  ASSUME TypeOK, Ready, NEW w \in Workers, Same(w)
  PROVE  TypeOK' /\ Ready'
<1>1. UNCHANGED <<pos, account, calls, books>>
  BY DEF Same
<1>2. /\ pc' \in [Workers -> Labels] /\ loc' \in [Workers -> Locals] /\ Ready'
      /\ lock' \in Workers \cup {None} /\ orders' \in [Orders -> OrderRow]
  <2>1. CASE Done(w, None) /\ UNCHANGED orders
    BY <2>1, DoneMoves DEF TypeOK
  <2>2. CASE Fail(w)
    BY <2>2, FailMoves
  <2>3. CASE /\ \/ /\ Open(loc[w].side) = {}
                   /\ loc' = [loc EXCEPT ![w].pid = None, ![w].row = NoRow]
                \/ \E p \in Open(loc[w].side) :
                     loc' = [loc EXCEPT ![w].pid = p, ![w].row = pos[p]]
             /\ Goto(w, "store")
             /\ UNCHANGED <<lock, orders>>
    <3>1. PICK p \in Pids \cup {None}, row \in Row :
            loc' = [loc EXCEPT ![w].pid = p, ![w].row = row]
      BY <2>3, NoRowRow DEF Open, TypeOK
    <3> DEFINE q == [loc[w] EXCEPT !.pid = p, !.row = row]
    <3>2. loc' = [loc EXCEPT ![w] = q] /\ pc' = [pc EXCEPT ![w] = "store"]
      BY <2>3, <3>1 DEF Goto, TypeOK
    <3>3. q \in Locals
      BY LocFields DEF Locals
    <3> HIDE DEF q
    <3> QED BY <2>3, <3>2, <3>3, WorkerMoves DEF Labels, PidLabels, TypeOK
  <2> QED BY <2>1, <2>2, <2>3 DEF Same
<1> QED BY <1>1, <1>2 DEF TypeOK, account, books

\* The row a Store writes.
Stored(w) ==
    [loc[w].row EXCEPT !.status = "open", !.side = loc[w].side, !.tokens = @ + loc[w].lots,
                       !.size = @ + Incoming(w), !.coll = @ + Incoming(w) \div Leverage]

LEMMA StoredRow ==
  ASSUME TypeOK, NEW w \in Workers
  PROVE  /\ Stored(w) \in Row /\ Stored(w).status = "open"
         /\ Stored(w).side = loc[w].side
<1>1. loc[w].row \in Row /\ loc[w].side \in Sides /\ loc[w].lots \in Int
  BY LocFields
<1>2. Incoming(w) \in Int /\ Incoming(w) \div Leverage \in Int
  <2>1. Incoming(w) \in Int
    BY LocFields, TimesInt DEF Incoming
  <2> QED BY <2>1, QuotientInt, AmountAssumption
<1>3. /\ loc[w].row.tokens + loc[w].lots \in Int
      /\ loc[w].row.size + Incoming(w) \in Int
      /\ loc[w].row.coll + Incoming(w) \div Leverage \in Int
  BY <1>1, <1>2, RowFields
<1> DEFINE half == [loc[w].row EXCEPT !.status = "open", !.side = loc[w].side]
<1>4. half \in Row /\ half.status = "open" /\ half.side = loc[w].side
      /\ half.tokens = loc[w].row.tokens /\ half.size = loc[w].row.size
      /\ half.coll = loc[w].row.coll
  BY <1>1 DEF Row
<1>5. Stored(w) = [half EXCEPT !.tokens = @ + loc[w].lots, !.size = @ + Incoming(w),
                               !.coll = @ + Incoming(w) \div Leverage]
  BY DEF Stored
<1> DEFINE tokens == loc[w].row.tokens + loc[w].lots
           size   == loc[w].row.size + Incoming(w)
           coll   == loc[w].row.coll + Incoming(w) \div Leverage
<1>6. Stored(w) = [half EXCEPT !.tokens = tokens, !.size = size, !.coll = coll]
  BY <1>4, <1>5
<1>7. tokens \in Int /\ size \in Int /\ coll \in Int
  BY <1>3
<1> HIDE DEF half, tokens, size, coll
<1> QED BY <1>4, <1>6, <1>7 DEF Row

\* A Store writes one row and ends, or fails and writes nothing.
LEMMA StoreCases ==
  ASSUME NEW w \in Workers, Store(w)
  PROVE  \/ Fail(w) /\ UNCHANGED <<pos, leaks>>
         \/ /\ \E p \in IF loc[w].pid = None THEN {q \in Pids : pos[q].status = "none"}
                                             ELSE {loc[w].pid} :
                 pos' = [pos EXCEPT ![p] = Stored(w)] /\ Done(w, p)
            /\ leaks' = leaks \cup (IF loc[w].pid = None THEN {} ELSE Stale(loc[w].pid, loc[w].row))
                 \cup (IF ByTrade(w) /\ orders[loc[w].order].margin = 0 THEN {"unbacked"} ELSE {})
            /\ UNCHANGED orders
BY DEF Store, Stored

LEMMA StoreTypes ==
  ASSUME TypeOK, Ready, NEW w \in Workers, Store(w)
  PROVE  TypeOK' /\ Ready'
<1>1. UNCHANGED <<account, calls, pnl, fees, absorbed, gift, closings>>
  BY DEF Store
<1>2. CASE Fail(w) /\ UNCHANGED <<pos, leaks>>
  BY <1>1, <1>2, FailMoves DEF TypeOK, account
<1>3. CASE ~(Fail(w) /\ UNCHANGED <<pos, leaks>>)
  <2>1. PICK p \in Pids : pos' = [pos EXCEPT ![p] = Stored(w)] /\ Done(w, p)
    BY <1>3, StoreCases, LocFields
  <2>2. pos' \in [Pids -> Row]
    BY <2>1, StoredRow DEF TypeOK
  <2>3. leaks' \subseteq {"stale", "mirrored", "forfeited", "unbacked", "slipped",
                           "drained", "short", "funding", "failed", "dropped"}
    BY <1>3, StoreCases, StaleType DEF TypeOK
  <2>4. UNCHANGED orders
    BY <1>3, StoreCases
  <2> QED BY <1>1, <2>1, <2>2, <2>3, <2>4, DoneMoves DEF TypeOK, account
<1> QED BY <1>2, <1>3

LEMMA FeeTypes ==
  ASSUME TypeOK, Ready, NEW w \in Workers, Fee(w)
  PROVE  TypeOK' /\ Ready'
<1> DEFINE l == loc[w]
           fee == FeePerLot * orders[l.order].lots
<1>1. l.order \in Orders
  BY DEF Fee, Ready
<1>2. fee \in Int
  BY <1>1, AmountAssumption, TimesInt DEF TypeOK, OrderRow
<1>3. /\ pos' = IF l.pid = None THEN pos ELSE [pos EXCEPT ![l.pid].tfee = @ + fee]
      /\ orders' = [orders EXCEPT ![l.order].status = "applied"]
      /\ UNCHANGED <<account, lock, calls, books>>
  BY DEF Fee
<1> HIDE DEF fee
<1>4. pos' \in [Pids -> Row]
  <2>1. ASSUME NEW p \in Pids PROVE [pos[p] EXCEPT !.tfee = @ + fee] \in Row
    BY <1>2 DEF TypeOK, Row
  <2>2. l.pid # None => l.pid \in Pids
    BY LocFields
  <2> QED BY <1>3, <2>1, <2>2 DEF TypeOK
<1>5. orders' \in [Orders -> OrderRow]
  BY <1>3, OrderStatus
<1>6. pc' \in [Workers -> Labels] /\ loc' \in [Workers -> Locals] /\ Ready'
  BY FinishMoves DEF Fee
<1> QED BY <1>3, <1>4, <1>5, <1>6 DEF TypeOK, account, books

-----------------------------------------------------------------------------
(* Collateral, liquidation, funding. *)

LEMMA AddFreezeTypes ==
  ASSUME TypeOK, Ready, NEW w \in Workers, AddFreeze(w)
  PROVE  TypeOK' /\ Ready'
<1>1. loc[w].coll \in Int
  BY LocFields
<1> QED BY <1>1 DEF AddFreeze, Goto, TypeOK, Ready, Labels, PidLabels

LEMMA AddReadTypes ==
  ASSUME TypeOK, Ready, NEW w \in Workers, AddRead(w)
  PROVE  TypeOK' /\ Ready'
<1> DEFINE q == [loc[w] EXCEPT !.row = pos[loc[w].pid]]
           label == IF pos[loc[w].pid].status = "open" THEN "addwrite" ELSE "thaw"
<1>1. loc[w].pid \in Pids
  BY DEF AddRead, Ready, PidLabels
<1>2. loc' = [loc EXCEPT ![w] = q] /\ pc' = [pc EXCEPT ![w] = label]
      /\ UNCHANGED <<pos, orders, account, lock, calls, books>>
  BY DEF AddRead, Goto, TypeOK
<1>3. q \in Locals /\ q.pid \in Pids /\ label \in Labels /\ label # "fee"
  BY <1>1, LocFields DEF Locals, TypeOK, Labels
<1> HIDE DEF q, label
<1>4. pc' \in [Workers -> Labels] /\ loc' \in [Workers -> Locals] /\ Ready'
  BY <1>2, <1>3, WorkerMoves
<1> QED BY <1>2, <1>4 DEF TypeOK, account, books

LEMMA AddWriteTypes ==
  ASSUME TypeOK, Ready, NEW w \in Workers, AddWrite(w)
  PROVE  TypeOK' /\ Ready'
<1>1. loc[w].pid \in Pids /\ loc[w].row \in Row /\ loc[w].coll \in Int
  BY LocFields DEF AddWrite, Ready, PidLabels
<1>2. [loc[w].row EXCEPT !.coll = @ + loc[w].coll] \in Row
  BY <1>1 DEF Row
<1>3. pos' = [pos EXCEPT ![loc[w].pid] = [loc[w].row EXCEPT !.coll = @ + loc[w].coll]]
      /\ leaks' = leaks \cup Stale(loc[w].pid, loc[w].row)
  BY DEF AddWrite
<1>4. pos' \in [Pids -> Row]
  BY <1>1, <1>2, <1>3 DEF TypeOK
<1>5. pc' \in [Workers -> Labels] /\ loc' \in [Workers -> Locals] /\ Ready'
  BY FinishMoves DEF AddWrite
<1> QED BY <1>3, <1>4, <1>5, StaleType DEF AddWrite, TypeOK, account

LEMMA RemoveWriteTypes ==
  ASSUME TypeOK, Ready, NEW w \in Workers, RemoveWrite(w)
  PROVE  TypeOK' /\ Ready'
<1>1. loc[w].pid \in Pids /\ loc[w].row \in Row /\ loc[w].coll \in Int
  BY LocFields DEF RemoveWrite, Ready, PidLabels
<1>2. [loc[w].row EXCEPT !.coll = @ - loc[w].coll] \in Row
  BY <1>1 DEF Row
<1>3. pos' = [pos EXCEPT ![loc[w].pid] = [loc[w].row EXCEPT !.coll = @ - loc[w].coll]]
      /\ leaks' = leaks \cup Stale(loc[w].pid, loc[w].row)
  BY DEF RemoveWrite
<1>4. pos' \in [Pids -> Row]
  BY <1>1, <1>2, <1>3 DEF TypeOK
<1>5. pc' \in [Workers -> Labels] /\ UNCHANGED loc /\ Ready'
  BY <1>1 DEF RemoveWrite, Goto, TypeOK, Ready, Labels, PidLabels
<1> QED BY <1>3, <1>4, <1>5, StaleType DEF RemoveWrite, TypeOK, account

LEMMA RemovePayTypes ==
  ASSUME TypeOK, Ready, NEW w \in Workers, RemovePay(w)
  PROVE  TypeOK' /\ Ready'
<1>1. available' \in Int /\ frozen' \in Int /\ leaks' \subseteq leaks \cup {"drained", "failed"}
  <2> DEFINE W == IF frozen > 0 THEN {"drained"} ELSE {}
  <2>1. leaks' \subseteq leaks \cup W \cup {"failed"} /\ available' \in Int /\ frozen' \in Int
    BY LocFields, SettleTypes DEF RemovePay
  <2> QED BY <2>1
<1>2. pc' \in [Workers -> Labels] /\ loc' \in [Workers -> Locals] /\ Ready'
  BY FinishMoves DEF RemovePay
<1> QED BY <1>1, <1>2 DEF RemovePay, TypeOK

LEMMA LiquidateTypes ==
  ASSUME TypeOK, Ready, NEW w \in Workers, Liquidate(w)
  PROVE  TypeOK' /\ Ready'
<1> DEFINE p    == loc[w].pid
           row  == pos[p]
           left == Remaining(row, loc[w].price) - LiqFee
           out  == row.coll + Buffer(row.size)
           rest == IF OpenRows \ {p} = {} THEN AtLeastZero(Residual(FALSE) - out) ELSE 0
<1>1. p \in Pids /\ row \in Row /\ loc[w].price \in Nat
  BY LocFields DEF Liquidate, Ready, PidLabels, TypeOK
<1>2. pc' \in [Workers -> Labels] /\ loc' \in [Workers -> Locals] /\ Ready'
  BY FinishMoves DEF Liquidate
<1>3. UNCHANGED <<orders, lock, calls>>
  BY DEF Liquidate
<1>4. CASE StillOpen(row)
  <2>1. /\ pos' = [pos EXCEPT ![p] = [HandlerShut(row) EXCEPT !.status = "liquidated"]]
        /\ pnl' = pnl + Profit(row, loc[w].price)
        /\ fees' = fees + row.ffee + LiqFee
        /\ absorbed' = absorbed + AtLeastZero(-left)
        /\ gift' = gift + Buffer(row.size)
        /\ Move(out + rest, AtLeastZero(left) + Buffer(row.size) + rest)
        /\ leaks' = leaks \cup (IF frozen > 0 THEN {"drained"} ELSE {})
        /\ closings' = [closings EXCEPT ![p] = @ + 1]
    BY <1>4 DEF Liquidate
  <2>2. Profit(row, loc[w].price) \in Int /\ Buffer(row.size) \in Int /\ row.ffee \in Int
    BY <1>1, RowFields, ProfitInt, BufferInt
  <2>3. left \in Int /\ out \in Int
    <3>1. row.coll \in Int /\ LiqFee \in Int
      BY <1>1, RowFields, AmountAssumption
    <3>2. Remaining(row, loc[w].price) \in Int
      BY <2>2, <3>1 DEF Remaining
    <3> QED BY <2>2, <3>1, <3>2
  <2>4. rest \in Int
    <3> DEFINE idle == Residual(FALSE)
    <3>1. idle \in Int
      BY DEF Residual, TypeOK
    <3>2. rest \in {AtLeastZero(idle - out), 0}
      OBVIOUS
    <3> HIDE DEF out, rest, idle
    <3>3. idle - out \in Int
      BY <2>3, <3>1
    <3>4. AtLeastZero(idle - out) \in Int
      BY <3>3, FloorNat
    <3> QED BY <3>2, <3>4
  <2>5. AtLeastZero(-left) \in Int /\ AtLeastZero(left) \in Int
    BY <2>3, FloorNat
  <2>6. pos' \in [Pids -> Row]
    BY <1>1, <2>1, HandlerShutRow DEF TypeOK
  <2> HIDE DEF row, left, out, rest
  <2>7. available' \in Int /\ frozen' \in Int
    <3>1. out + rest \in Int /\ AtLeastZero(left) + Buffer(row.size) + rest \in Int
      BY <2>2, <2>3, <2>4, <2>5
    <3> QED BY <2>1, <3>1, MoveInt DEF TypeOK
  <2>8. closings' \in [Pids -> Nat]
    BY <1>1, <2>1 DEF TypeOK
  <2> QED BY SMTT(30), <1>2, <1>3, <2>1, <2>2, <2>5, <2>6, <2>7, <2>8, AmountAssumption DEF TypeOK
<1>5. CASE ~StillOpen(row)
  <2>1. UNCHANGED <<pos, account, books>>
    BY <1>5 DEF Liquidate
  <2> QED BY <1>2, <1>3, <2>1 DEF TypeOK, account, books
<1> QED BY <1>4, <1>5

LEMMA FundApplyTypes ==
  ASSUME TypeOK, Ready, NEW w \in Workers, FundApply(w)
  PROVE  TypeOK' /\ Ready'
<1>1. PICK f \in FundingFees : pos' = [pos EXCEPT ![loc[w].pid].ffee = @ + f]
  BY DEF FundApply
<1>2. f \in Int /\ loc[w].pid \in Pids
  BY AmountAssumption DEF FundApply, Ready, PidLabels
<1>3. pos' \in [Pids -> Row]
  <2>1. ASSUME NEW row \in Row PROVE [row EXCEPT !.ffee = @ + f] \in Row
    BY <1>2 DEF Row
  <2>2. [pos[loc[w].pid] EXCEPT !.ffee = @ + f] \in Row
    BY <1>2, <2>1 DEF TypeOK
  <2> QED BY <1>1, <1>2, <2>2 DEF TypeOK
<1>4. pc' \in [Workers -> Labels] /\ loc' \in [Workers -> Locals] /\ Ready'
  BY FinishMoves DEF FundApply
<1> QED BY <1>3, <1>4 DEF FundApply, TypeOK, account, books

-----------------------------------------------------------------------------
(* What fails. *)

LEMMA QueryFailsTypes ==
  ASSUME TypeOK, Ready, NEW w \in Workers, QueryFails(w)
  PROVE  TypeOK' /\ Ready'
<1>1. Fail(w) /\ UNCHANGED <<pos, account, calls, books>>
  BY DEF QueryFails
<1> QED BY <1>1, FailMoves DEF TypeOK, account, books

LEMMA CleanFailsTypes ==
  ASSUME TypeOK, Ready, NEW w \in Workers, CleanFails(w)
  PROVE  TypeOK' /\ Ready'
<1>1. Done(w, None) /\ UNCHANGED <<pos, orders, account, calls, books>>
  BY DEF CleanFails
<1> QED BY <1>1, DoneMoves DEF TypeOK, account, books

LEMMA FeeFailsTypes ==
  ASSUME TypeOK, Ready, NEW w \in Workers, FeeFails(w)
  PROVE  TypeOK' /\ Ready'
<1>1. /\ orders' = [orders EXCEPT ![loc[w].order].status = "applied"]
      /\ Finish(w) /\ UNCHANGED <<pos, account, lock, calls, books>>
  BY DEF FeeFails
<1>2. orders' \in [Orders -> OrderRow]
  BY <1>1, OrderStatus
<1> QED BY <1>1, <1>2, FinishMoves DEF TypeOK, account, books

LEMMA DropTypes ==
  ASSUME TypeOK, Ready, NEW w \in Workers, Drop(w)
  PROVE  TypeOK' /\ Ready'
<1>1. /\ lock' = IF lock = w THEN None ELSE lock
      /\ leaks' \subseteq leaks \cup {"dropped"}
      /\ Finish(w)
      /\ UNCHANGED <<pos, orders, account, calls, pnl, fees, absorbed, gift, closings>>
  BY DEF Drop
<1> QED BY <1>1, FinishMoves DEF TypeOK, account

-----------------------------------------------------------------------------
LEMMA UserTypes == TypeOK /\ Ready /\ User => TypeOK' /\ Ready'
BY PlaceTypes, RestTypes, MatchTypes, UnfilledTypes, RowWrittenTypes, TakerReleaseTypes,
   CancelTypes, FillTypes, CloseHandlerTypes DEF User, Answered

LEMMA CallTypes == TypeOK /\ Ready /\ (\E w \in Workers : Call(w)) => TypeOK' /\ Ready'
BY ApplyTypes, OpenCallTypes, AddTypes, RemoveTypes, ScanTypes, FundListTypes DEF Call

LEMMA StepTypes == TypeOK /\ Ready /\ (\E w \in Workers : Step(w)) => TypeOK' /\ Ready'
<1> SUFFICES ASSUME TypeOK, Ready, NEW w \in Workers, Step(w) PROVE TypeOK' /\ Ready'
  OBVIOUS
<1>1. CASE Freeze(w) \/ OpenLock(w) \/ Thaw(w) \/ Opposing(w) \/ Decrease(w) \/ Write(w)
  BY <1>1, FreezeTypes, OpenLockTypes, ThawTypes, OpposingTypes, DecreaseTypes, WriteTypes
<1>2. CASE Release(w) \/ IncomingRelease(w) \/ Clean(w) \/ Same(w) \/ Store(w) \/ Fee(w)
  BY <1>2, ReleaseTypes, IncomingReleaseTypes, CleanTypes, SameTypes, StoreTypes, FeeTypes
<1>3. CASE AddFreeze(w) \/ AddRead(w) \/ AddWrite(w) \/ RemoveWrite(w) \/ RemovePay(w)
  BY <1>3, AddFreezeTypes, AddReadTypes, AddWriteTypes, RemoveWriteTypes, RemovePayTypes
<1>4. CASE Liquidate(w) \/ FundApply(w)
  BY <1>4, LiquidateTypes, FundApplyTypes
<1>5. CASE QueryFails(w) \/ CleanFails(w) \/ FeeFails(w) \/ Drop(w)
  BY <1>5, QueryFailsTypes, CleanFailsTypes, FeeFailsTypes, DropTypes
<1> QED BY <1>1, <1>2, <1>3, <1>4, <1>5 DEF Step, Proceed

LEMMA NextTypes == TypeOK /\ Ready /\ [Next]_vars => TypeOK' /\ Ready'
<1>1. ASSUME TypeOK, Ready, UNCHANGED vars PROVE TypeOK' /\ Ready'
  BY <1>1 DEF TypeOK, Ready, vars, account, books
<1> QED BY <1>1, UserTypes, CallTypes, StepTypes DEF Next

\* Every variable keeps its type.
THEOREM Typed == Spec => [](TypeOK /\ Ready)
BY InitTypes, NextTypes, PTL DEF Spec

(***************************************************************************)
(* One side at a time, one payout.                                         *)
(***************************************************************************)

\* Where a worker relies on what it found in the rows.
Watched == {"write", "release", "same", "store"}
Locked  == Watched \cup {"opposing", "decrease", "incoming", "clean"}

\* Who works on the rows of the market for a trade or an open_position holds the
\* advisory lock.
Held == \A w \in Workers : pc[w] \in Locked => lock = w

IsOpen(p) == pos[p].status = "open"

\* What a worker knows of the row it read, before it writes.
Knows(w) ==
    /\ pc[w] = "write" => /\ loc[w].row.status = "open"
                          /\ loc[w].flip => loc[w].want = loc[w].row.size
    /\ pc[w] = "store" /\ loc[w].pid # None =>
          loc[w].row.status = "open" /\ loc[w].row.side = loc[w].side

\* What the holder of the lock found out of the other rows, until it writes.
Found(w) == \A p \in Pids : IsOpen(p) =>
    /\ ~(pc[w] = "release" /\ loc[w].flip)
    /\ pc[w] \in {"same", "store"} => pos[p].side = loc[w].side
    /\ ~(pc[w] = "store" /\ loc[w].pid = None)

\* A row that was never used or is open was not paid out.
NotPaid(p) ==
    /\ closings[p] <= 1
    /\ pos[p].status \in {"none", "open"} => closings[p] = 0

AllKnow == \A w \in Workers : Knows(w)
Inv ==
    /\ Held /\ AllKnow /\ OneSide
    /\ NoStaleWrite => (\A w \in Workers : Found(w)) /\ (\A p \in Pids : NotPaid(p))

LEMMA InitInv == Init => Inv
BY DEF Init, Inv, Held, Watched, Locked, AllKnow, Knows, OneSide, Found, NotPaid, IsOpen,
   NoStaleWrite, NoRow

-----------------------------------------------------------------------------
(* What a step does to the rows. *)

LEMMA RowStatus ==
  ASSUME NEW row \in Row, NEW c
  PROVE  /\ Shut(row).status = "closed" /\ HandlerShut(row).status = "closed"
         /\ [HandlerShut(row) EXCEPT !.status = "liquidated"].status = "liquidated"
         /\ Cut(row, c).status = row.status /\ Cut(row, c).side = row.side
         /\ HandlerCut(row, c).status = row.status /\ HandlerCut(row, c).side = row.side
<1>1. Shut(row).status = "closed" /\ HandlerShut(row).status = "closed"
  BY DEF Shut, HandlerShut, Row
<1>2. [HandlerShut(row) EXCEPT !.status = "liquidated"].status = "liquidated"
  BY DEF HandlerShut, Row
<1>3. Cut(row, c).status = row.status /\ Cut(row, c).side = row.side
  BY DEF Cut, Row
<1>4. HandlerCut(row, c).status = row.status /\ HandlerCut(row, c).side = row.side
  BY DEF HandlerCut, Row
<1> QED BY <1>1, <1>2, <1>3, <1>4

\* A step leaves status, side and payouts of a row alone, or pays the row out.
Kept(p) == /\ pos'[p].status = pos[p].status /\ pos'[p].side = pos[p].side
           /\ closings'[p] = closings[p]
PaysOut(p) == /\ IsOpen(p) /\ pos'[p].status \in {"closed", "liquidated"}
              /\ closings'[p] = closings[p] + 1
RowsObey == \A p \in Pids : Kept(p) \/ PaysOut(p)

\* A write over a row that changed would be recorded.
LEMMA NotStale ==
  ASSUME NEW p, NEW row, Stale(p, row) \subseteq leaks', NoStaleWrite'
  PROVE  pos[p] = row
BY DEF Stale, NoStaleWrite

LEMMA CloseHandlerRows ==
  ASSUME TypeOK, NEW p \in Pids, NEW n, NEW price, CloseHandler(p, n, price)
  PROVE  RowsObey
<1> DEFINE c == HandlerCloses(pos[p], n)
<1>1. /\ pos[p].status = "open" /\ pos[p] \in Row
      /\ pos' = [pos EXCEPT ![p] = IF c = pos[p].size THEN HandlerShut(pos[p])
                                                      ELSE HandlerCut(pos[p], c)]
      /\ closings' = [closings EXCEPT ![p] = IF c = pos[p].size THEN @ + 1 ELSE @]
  BY DEF CloseHandler, Book, TypeOK
<1> HIDE DEF c
<1>2. \A q \in Pids \ {p} : Kept(q)
  BY <1>1 DEF Kept, TypeOK
<1>3. CASE c = pos[p].size
  <2>1. PaysOut(p)
    BY <1>1, <1>3, RowStatus DEF PaysOut, IsOpen, TypeOK
  <2> QED BY <1>2, <2>1 DEF RowsObey
<1>4. CASE c # pos[p].size
  <2>1. Kept(p)
    BY <1>1, <1>4, RowStatus DEF Kept, TypeOK
  <2> QED BY <1>2, <2>1 DEF RowsObey
<1> QED BY <1>3, <1>4

LEMMA WriteRows ==
  ASSUME TypeOK, Ready, NEW w \in Workers, Knows(w), Write(w), NoStaleWrite'
  PROVE  /\ RowsObey
         /\ loc[w].flip => pos'[loc[w].pid].status # "open"
         /\ IsOpen(loc[w].pid)
<1> DEFINE p == loc[w].pid
           row == loc[w].row
           c == loc[w].want
<1>1. p \in Pids /\ row \in Row /\ row.status = "open" /\ (loc[w].flip => c = row.size)
  BY LocFields DEF Write, Ready, PidLabels, Knows
<1>2. /\ pos' = [pos EXCEPT ![p] = IF c = row.size THEN Shut(row) ELSE Cut(row, c)]
      /\ closings' = [closings EXCEPT ![p] = IF c = row.size THEN @ + 1 ELSE @]
      /\ Stale(p, row) \subseteq leaks'
  BY DEF Write, Book
<1>3. pos[p] = row
  BY <1>2, NotStale
<1> HIDE DEF p, row, c
<1>4. \A q \in Pids \ {p} : Kept(q)
  BY <1>1, <1>2 DEF Kept, TypeOK
<1>5. CASE c = row.size
  <2>0. pos'[p] = Shut(row) /\ closings'[p] = closings[p] + 1
    BY <1>1, <1>2, <1>5 DEF TypeOK
  <2>1. PaysOut(p) /\ pos'[p].status # "open"
    BY <1>1, <1>3, <2>0, RowStatus DEF PaysOut, IsOpen
  <2> QED BY <1>1, <1>3, <1>4, <2>1 DEF RowsObey, IsOpen, p
<1>6. CASE c # row.size
  <2>1. Kept(p)
    BY <1>1, <1>2, <1>3, <1>6, RowStatus DEF Kept, TypeOK
  <2> QED BY <1>1, <1>3, <1>4, <1>6, <2>1 DEF RowsObey, IsOpen, p
<1> QED BY <1>5, <1>6

LEMMA CollateralRows ==
  ASSUME TypeOK, Ready, NEW w \in Workers, AddWrite(w) \/ RemoveWrite(w), NoStaleWrite'
  PROVE  RowsObey
<1>1. loc[w].pid \in Pids /\ loc[w].row \in Row
  BY LocFields DEF AddWrite, RemoveWrite, Ready, PidLabels
<1>2. Stale(loc[w].pid, loc[w].row) \subseteq leaks' /\ closings' = closings
  BY DEF AddWrite, RemoveWrite
<1>3. pos[loc[w].pid] = loc[w].row
  BY <1>2, NotStale
<1>4. PICK n : pos' = [pos EXCEPT ![loc[w].pid] = [loc[w].row EXCEPT !.coll = n]]
  BY DEF AddWrite, RemoveWrite
<1>5. /\ [loc[w].row EXCEPT !.coll = n].status = loc[w].row.status
      /\ [loc[w].row EXCEPT !.coll = n].side = loc[w].row.side
  BY <1>1 DEF Row
<1> QED BY <1>1, <1>2, <1>3, <1>4, <1>5 DEF RowsObey, Kept, TypeOK

LEMMA FeeRows ==
  ASSUME TypeOK, Ready, NEW w \in Workers, Fee(w) \/ FundApply(w)
  PROVE  RowsObey
<1>1. closings' = closings
  BY DEF Fee, FundApply, books
<1>2. CASE pos' = pos
  BY <1>1, <1>2 DEF RowsObey, Kept
<1>3. CASE pos' # pos
  <2>1. PICK n : pos' = [pos EXCEPT ![loc[w].pid].tfee = n] \/ pos' = [pos EXCEPT ![loc[w].pid].ffee = n]
    BY <1>3 DEF Fee, FundApply
  <2>2. \A q \in Pids : pos[q] \in Row
    BY DEF TypeOK
  <2>3. \A q \in Pids : pos'[q].status = pos[q].status /\ pos'[q].side = pos[q].side
    BY <2>1, <2>2 DEF TypeOK, Row
  <2> QED BY <1>1, <2>3 DEF RowsObey, Kept
<1> QED BY <1>2, <1>3

LEMMA LiquidateRows ==
  ASSUME TypeOK, Ready, NEW w \in Workers, Liquidate(w)
  PROVE  RowsObey
<1> DEFINE p == loc[w].pid
<1>1. p \in Pids /\ pos[p] \in Row
  BY LocFields DEF Liquidate, Ready, PidLabels, TypeOK
<1>2. CASE StillOpen(pos[p])
  <2>1. /\ pos' = [pos EXCEPT ![p] = [HandlerShut(pos[p]) EXCEPT !.status = "liquidated"]]
        /\ closings' = [closings EXCEPT ![p] = @ + 1]
    BY <1>2 DEF Liquidate
  <2> HIDE DEF p
  <2>2. \A q \in Pids \ {p} : Kept(q)
    BY <2>1 DEF Kept, TypeOK
  <2>3. PaysOut(p)
    BY <1>1, <1>2, <2>1, RowStatus DEF PaysOut, IsOpen, StillOpen, TypeOK
  <2> QED BY SMTT(30), <2>2, <2>3 DEF RowsObey
<1>3. CASE ~StillOpen(pos[p])
  <2>1. UNCHANGED <<pos, closings>>
    BY <1>3 DEF Liquidate, books
  <2> QED BY <2>1 DEF RowsObey, Kept
<1> QED BY <1>2, <1>3

\* Every step but a Store obeys, as long as it writes over no changed row.
LEMMA NextRows ==
  ASSUME TypeOK, Ready, AllKnow, Next, NoStaleWrite', \A w \in Workers : ~Store(w)
  PROVE  RowsObey
<1>1. CASE User
  <2>1. CASE \E p \in Pids, n \in Lots, price \in Prices : CloseHandler(p, n, price)
    BY <2>1, CloseHandlerRows
  <2>2. CASE ~(\E p \in Pids, n \in Lots, price \in Prices : CloseHandler(p, n, price))
    <3>1. UNCHANGED <<pos, closings>>
      BY ZenonT(40), <1>1, <2>2 DEF User, Place, Rest, Answered, Match, Unfilled, RowWritten,
         TakerRelease, Cancel, Fill, books
    <3> QED BY <3>1 DEF RowsObey, Kept
  <2> QED BY <2>1, <2>2
<1>2. CASE \E w \in Workers : Call(w)
  <2>1. UNCHANGED <<pos, books>>
    BY ZenonT(40), <1>2 DEF Call, Apply, OpenCall, Add, FundList, Remove, Scan
  <2> QED BY SMTT(30), <2>1 DEF RowsObey, Kept, books
<1>3. ASSUME NEW w \in Workers, Step(w) PROVE RowsObey
  <2>1. CASE Write(w)
    BY <2>1, WriteRows DEF AllKnow
  <2>2. CASE AddWrite(w) \/ RemoveWrite(w)
    BY <2>2, CollateralRows
  <2>3. CASE Fee(w) \/ FundApply(w)
    BY <2>3, FeeRows
  <2>4. CASE Liquidate(w)
    BY <2>4, LiquidateRows
  <2>5. CASE \/ Freeze(w) \/ OpenLock(w) \/ Thaw(w) \/ Opposing(w) \/ Decrease(w)
             \/ Release(w) \/ IncomingRelease(w) \/ Clean(w) \/ Same(w)
             \/ AddFreeze(w) \/ AddRead(w) \/ RemovePay(w)
    <3>1. UNCHANGED <<pos, closings>>
      BY <2>5 DEF Freeze, OpenLock, Thaw, Opposing, Decrease, Release, IncomingRelease, Clean,
         Same, AddFreeze, AddRead, RemovePay, books
    <3> QED BY <3>1 DEF RowsObey, Kept
  <2>6. CASE QueryFails(w) \/ CleanFails(w) \/ FeeFails(w) \/ Drop(w)
    <3>1. UNCHANGED <<pos, closings>>
      BY <2>6 DEF QueryFails, CleanFails, FeeFails, Drop, books
    <3> QED BY <3>1 DEF RowsObey, Kept
  <2> QED BY <1>3, <2>1, <2>2, <2>3, <2>4, <2>5, <2>6 DEF Step, Proceed
<1> QED BY <1>1, <1>2, <1>3 DEF Next

\* A leak that happened stays recorded.
LEMMA LeaksStay == Next => leaks \subseteq leaks'
<1> SUFFICES ASSUME Next PROVE leaks \subseteq leaks'
  OBVIOUS
<1>1. CASE User
  <2>1. CASE \E o \in Orders : TakerRelease(o)
    BY <2>1 DEF TakerRelease, Settle
  <2>2. CASE \E o \in Orders : RowWritten(o) \/ Cancel(o) \/ Fill(o)
    BY <2>2 DEF RowWritten, Cancel, Fill
  <2>3. CASE \E o \in Orders, side \in Sides, n \in Lots, price \in Prices : Place(o, side, n, price)
    <3>1. UNCHANGED books
      BY <2>3 DEF Place
    <3> QED BY <3>1 DEF books
  <2>4. CASE \E o \in Orders : Rest(o) \/ Unfilled(o) \/ \E price \in Prices : Match(o, price)
    BY <2>4 DEF Rest, Unfilled, Match, books
  <2>5. CASE \E p \in Pids, n \in Lots, price \in Prices : CloseHandler(p, n, price)
    BY <2>5 DEF CloseHandler
  <2> QED BY ZenonT(40), <1>1, <2>1, <2>2, <2>3, <2>4, <2>5 DEF User, Answered
<1>2. CASE \E w \in Workers : Call(w)
  <2>1. UNCHANGED books
    BY ZenonT(40), <1>2 DEF Call, Apply, OpenCall, Add, FundList, Remove, Scan
  <2> QED BY SMTT(30), <2>1 DEF books
<1>3. ASSUME NEW w \in Workers, Step(w) PROVE leaks \subseteq leaks'
  <2>1. CASE Store(w)
    BY <2>1, StoreCases
  <2>2. CASE Liquidate(w)
    BY <2>2 DEF Liquidate, books
  <2>3. CASE Write(w) \/ AddWrite(w) \/ RemoveWrite(w) \/ Freeze(w) \/ Release(w) \/ AddFreeze(w)
             \/ RemovePay(w) \/ IncomingRelease(w) \/ Thaw(w) \/ Drop(w)
    BY <2>3 DEF Write, AddWrite, RemoveWrite, Freeze, Release, AddFreeze, RemovePay,
       IncomingRelease, Thaw, Drop, Settle
  <2>4. CASE \/ OpenLock(w) \/ Opposing(w) \/ Decrease(w)
             \/ Clean(w) \/ Same(w) \/ Fee(w)
             \/ AddRead(w) \/ FundApply(w)
             \/ QueryFails(w) \/ CleanFails(w) \/ FeeFails(w)
    BY <2>4 DEF OpenLock, Opposing, Decrease, Clean, Same, Fee, AddRead,
       FundApply, QueryFails, CleanFails, FeeFails, books
  <2> QED BY <1>3, <2>1, <2>2, <2>3, <2>4 DEF Step, Proceed
<1> QED BY <1>1, <1>2, <1>3 DEF Next

LEMMA StaleStays == Next /\ NoStaleWrite' => NoStaleWrite
BY LeaksStay DEF NoStaleWrite

-----------------------------------------------------------------------------
(* Who holds the lock, and what it knows. *)

\* A step of w leaves the other workers alone.
Frame(w) == \A v \in Workers \ {w} : pc'[v] = pc[v] /\ loc'[v] = loc[v]

LEMMA EndsFrame ==
  ASSUME TypeOK, NEW w \in Workers, NEW p, Finish(w) \/ Fail(w) \/ Done(w, p)
  PROVE  Frame(w) /\ pc'[w] \in {"idle", "thaw", "fee"}
BY SMTT(30) DEF Finish, Fail, Done, Goto, Frame, TypeOK

\* A call starts outside of the watched steps; only Apply takes the lock.
LEMMA CallFrame ==
  ASSUME TypeOK, NEW w \in Workers, Call(w)
  PROVE  /\ Frame(w) /\ pc[w] = "idle" /\ pc'[w] \notin Watched
         /\ \/ lock = None /\ lock' = w
            \/ lock' = lock /\ pc'[w] \notin Locked
BY DEF Call, Apply, OpenCall, Add, FundList, Remove, Scan, Lock, Goto, Frame, TypeOK, Watched,
   Locked

\* A step keeps the lock, takes it when it is free, or gives it back and leaves.
LockObeyed(w) ==
    \/ lock' = lock /\ (pc'[w] \in Locked => pc[w] \in Locked)
    \/ lock = None /\ lock' = w
    \/ lock' = None /\ (pc[w] \in Locked \/ lock = w) /\ pc'[w] \notin Locked

LEMMA StepFrame ==
  ASSUME TypeOK, NEW w \in Workers, Step(w)
  PROVE  Frame(w) /\ LockObeyed(w)
<1> USE DEF Watched, Locked, LockObeyed
<1>1. CASE Freeze(w) \/ OpenLock(w)
  BY <1>1 DEF Freeze, OpenLock, Lock, Goto, Frame, TypeOK
<1>2. CASE \/ Thaw(w) \/ Fee(w) \/ AddWrite(w) \/ RemovePay(w) \/ Liquidate(w)
           \/ FundApply(w) \/ FeeFails(w)
  BY <1>2, EndsFrame DEF Thaw, Fee, AddWrite, RemovePay, Liquidate, FundApply, FeeFails
<1>3. CASE AddFreeze(w) \/ AddRead(w) \/ RemoveWrite(w)
  BY <1>3 DEF AddFreeze, AddRead, RemoveWrite, Goto, Frame, TypeOK
<1>4. CASE Opposing(w)
  BY <1>4 DEF Opposing, Goto, Frame, TypeOK
<1>5. CASE Decrease(w)
  <2>1. CASE Fail(w)
    BY <1>5, <2>1, EndsFrame DEF Decrease, Fail, Unlock
  <2>2. CASE ~Fail(w)
    BY <1>5, <2>2 DEF Decrease, Goto, Frame, TypeOK
  <2> QED BY <2>1, <2>2
<1>6. CASE Write(w)
  BY <1>6 DEF Write, Goto, Frame, TypeOK
<1>7. CASE Release(w)
  <2>1. CASE loc[w].flip
    BY <1>7, <2>1 DEF Release, Goto, Frame, TypeOK
  <2>2. CASE ~loc[w].flip /\ ByTrade(w) /\ ~loc[w].whole
    BY <1>7, <2>2, EndsFrame DEF Release, Done, Unlock
  <2>3. CASE ~loc[w].flip /\ ~(ByTrade(w) /\ ~loc[w].whole)
    BY <1>7, <2>3 DEF Release, Goto, Frame, TypeOK
  <2> QED BY <2>1, <2>2, <2>3
<1>8. CASE IncomingRelease(w) \/ Clean(w)
  <2>1. CASE \E p : Done(w, p)
    BY <1>8, <2>1, EndsFrame DEF IncomingRelease, Clean, Done, Unlock
  <2>2. CASE ~\E p : Done(w, p)
    BY <1>8, <2>2 DEF IncomingRelease, Clean, Goto, Frame, TypeOK
  <2> QED BY <2>1, <2>2
<1>9. CASE Same(w)
  <2>1. CASE Done(w, None) \/ Fail(w)
    BY <1>9, <2>1, EndsFrame DEF Same, Done, Fail, Unlock
  <2>2. CASE ~(Done(w, None) \/ Fail(w))
    BY <1>9, <2>2 DEF Same, Goto, Frame, TypeOK
  <2> QED BY SMTT(30), <2>1, <2>2
<1>10. CASE Store(w)
  <2>1. PICK p : Fail(w) \/ Done(w, p)
    BY <1>10, StoreCases
  <2> QED BY <1>10, <2>1, EndsFrame DEF Store, Done, Fail, Unlock
<1>11. CASE QueryFails(w)
  BY <1>11, EndsFrame DEF QueryFails, Fail, Unlock
<1>12. CASE CleanFails(w)
  BY <1>12, EndsFrame DEF CleanFails, Done, Unlock
<1>13. CASE Drop(w)
  <2>1. Frame(w) /\ pc'[w] = "idle"
    BY <1>13, EndsFrame DEF Drop, Finish, Goto, TypeOK
  <2>2. lock' = IF lock = w THEN None ELSE lock
    BY <1>13 DEF Drop
  <2> QED BY <2>1, <2>2
<1> QED BY <1>1, <1>2, <1>3, <1>4, <1>5, <1>6, <1>7, <1>8, <1>9, <1>10, <1>11, <1>12, <1>13
        DEF Step, Proceed

LEMMA UserFrame ==
  ASSUME User
  PROVE  UNCHANGED <<pc, loc, lock>>
BY DEF User, Place, Rest, Answered, Match, Unfilled, RowWritten, TakerRelease, Cancel, Fill,
   CloseHandler

LEMMA NextHeld ==
  ASSUME TypeOK, Held, Next
  PROVE  Held'
<1>0. \A w \in Workers : w # None
  BY IdAssumption
<1>1. CASE User
  BY <1>1, UserFrame DEF Held
<1>2. ASSUME NEW w \in Workers, Call(w) PROVE Held'
  BY <1>0, <1>2, CallFrame DEF Held, Frame
<1>3. ASSUME NEW w \in Workers, Step(w) PROVE Held'
  BY <1>0, <1>3, StepFrame DEF Held, Frame, LockObeyed
<1> QED BY <1>1, <1>2, <1>3 DEF Next

\* The steps after which a worker relies on nothing.
LEMMA QuietSteps ==
  ASSUME TypeOK, NEW w \in Workers, Step(w),
         ~Opposing(w), ~Decrease(w), ~Write(w), ~Release(w), ~Same(w)
  PROVE  pc'[w] \notin Watched
<1> USE DEF Watched
<1>1. CASE Freeze(w) \/ OpenLock(w) \/ AddFreeze(w) \/ AddRead(w) \/ RemoveWrite(w)
  BY <1>1 DEF Freeze, OpenLock, AddFreeze, AddRead, RemoveWrite, Goto, TypeOK
<1>2. CASE \/ Thaw(w) \/ Fee(w) \/ AddWrite(w) \/ RemovePay(w) \/ Liquidate(w)
           \/ FundApply(w) \/ FeeFails(w)
  BY <1>2, EndsFrame DEF Thaw, Fee, AddWrite, RemovePay, Liquidate, FundApply, FeeFails
<1>3. CASE IncomingRelease(w) \/ Clean(w)
  <2>1. CASE \E p : Done(w, p)
    BY <2>1, EndsFrame
  <2>2. CASE ~\E p : Done(w, p)
    BY <1>3, <2>2 DEF IncomingRelease, Clean, Goto, TypeOK
  <2> QED BY <2>1, <2>2
<1>4. CASE Store(w)
  BY <1>4, StoreCases, EndsFrame
<1>5. CASE QueryFails(w) \/ CleanFails(w)
  BY <1>5, EndsFrame DEF QueryFails, CleanFails
<1>6. CASE Drop(w)
  BY <1>6, EndsFrame DEF Drop
<1> QED BY <1>1, <1>2, <1>3, <1>4, <1>5, <1>6 DEF Step, Proceed

-----------------------------------------------------------------------------
(* What the watched steps establish. *)

\* A worker that relies on nothing knows and found nothing.
LEMMA QuietFacts ==
  ASSUME NEW w \in Workers, pc[w] \notin Watched
  PROVE  Knows(w) /\ Found(w)
BY DEF Knows, Found, Watched

LEMMA OpposingFacts ==
  ASSUME TypeOK, NEW w \in Workers, Opposing(w)
  PROVE  Knows(w)' /\ Found(w)'
<1>1. CASE Open(Opposite(loc[w].side)) = {} /\ Goto(w, "same") /\ UNCHANGED loc
  <2>1. pc'[w] = "same" /\ pos' = pos /\ loc' = loc
    BY <1>1 DEF Opposing, Goto, TypeOK
  <2>2. \A p \in Pids : IsOpen(p) => pos[p].side = loc[w].side
    <3>1. \A p \in Pids : pos[p].side \in Sides
      BY RowFields DEF TypeOK
    <3>2. \A p \in Pids : IsOpen(p) => pos[p].side # Opposite(loc[w].side)
      BY <1>1 DEF Open, IsOpen
    <3> QED BY <3>1, <3>2, LocFields DEF Sides, Opposite
  <2> QED BY <2>1, <2>2 DEF Knows, Found, IsOpen
<1>2. CASE ~(Open(Opposite(loc[w].side)) = {} /\ Goto(w, "same") /\ UNCHANGED loc)
  <2>1. pc'[w] = "decrease"
    BY <1>2 DEF Opposing, Goto, TypeOK
  <2> QED BY SMTT(30), <2>1 DEF Knows, Found
<1> QED BY <1>1, <1>2

LEMMA DecreaseFacts ==
  ASSUME TypeOK, NEW w \in Workers, Decrease(w)
  PROVE  Knows(w)' /\ Found(w)'
<1>1. CASE pos[loc[w].pid].status # "open"
  <2>1. pc'[w] \in {"idle", "thaw", "fee"}
    BY <1>1, EndsFrame DEF Decrease
  <2> QED BY <2>1 DEF Knows, Found
<1>2. CASE pos[loc[w].pid].status = "open"
  <2> DEFINE row == pos[loc[w].pid]
             c == IF loc[w].flip THEN row.size ELSE Closed(row, loc[w].want, loc[w].price)
  <2>1. loc' = [loc EXCEPT ![w].row = row, ![w].want = c] /\ pc'[w] = "write"
    BY <1>2 DEF Decrease, Goto, TypeOK
  <2>2. row.status = "open" /\ (loc[w].flip => c = row.size)
    BY <1>2
  <2> HIDE DEF row, c
  <2>3. loc'[w].row = row /\ loc'[w].want = c /\ loc'[w].flip = loc[w].flip
    BY <2>1 DEF TypeOK, Locals
  <2> QED BY <2>1, <2>2, <2>3 DEF Knows, Found
<1> QED BY <1>1, <1>2

LEMMA WriteFacts ==
  ASSUME TypeOK, Ready, Inv, NEW w \in Workers, Write(w)
  PROVE  Knows(w)' /\ (NoStaleWrite' /\ NoStaleWrite => Found(w)')
<1>1. pc'[w] = "release" /\ loc'[w].flip = loc[w].flip
  BY DEF Write, Goto, TypeOK, Locals
<1>2. ASSUME NoStaleWrite', NoStaleWrite, loc[w].flip
      PROVE  \A p \in Pids : ~IsOpen(p)'
  <2>1. /\ RowsObey /\ pos'[loc[w].pid].status # "open" /\ IsOpen(loc[w].pid) /\ loc[w].pid \in Pids
    BY <1>2, WriteRows DEF Inv, AllKnow, Write, Ready, PidLabels
  <2>2. \A p \in Pids : IsOpen(p) => p = loc[w].pid
    BY <1>2, <2>1 DEF Inv, OneSide, IsOpen
  <2>3. \A p \in Pids : IsOpen(p)' => IsOpen(p)
    BY <2>1 DEF RowsObey, Kept, PaysOut, IsOpen
  <2> QED BY <2>1, <2>2, <2>3 DEF IsOpen
<1> QED BY <1>1, <1>2 DEF Knows, Found

LEMMA ReleaseFacts ==
  ASSUME TypeOK, Ready, Inv, NEW w \in Workers, Release(w)
  PROVE  Knows(w)' /\ (NoStaleWrite' /\ NoStaleWrite => Found(w)')
<1>1. pos' = pos /\ pc[w] = "release"
  BY DEF Release
<1>2. CASE loc[w].flip
  <2>1. pc'[w] = "same"
    BY <1>2 DEF Release, Goto, TypeOK
  <2>2. NoStaleWrite => \A p \in Pids : ~IsOpen(p)
    BY <1>1, <1>2 DEF Inv, Found
  <2> QED BY <1>1, <2>1, <2>2 DEF Knows, Found, IsOpen
<1>3. CASE ~loc[w].flip
  <2>1. pc'[w] \in {"idle", "thaw", "fee", "clean", "incoming"}
    BY <1>3, EndsFrame DEF Release, Goto, TypeOK
  <2> QED BY <2>1 DEF Knows, Found
<1> QED BY <1>2, <1>3

LEMMA SameFacts ==
  ASSUME TypeOK, Ready, Inv, NEW w \in Workers, Same(w)
  PROVE  Knows(w)' /\ (NoStaleWrite' /\ NoStaleWrite => Found(w)')
<1>1. pos' = pos /\ pc[w] = "same"
  BY DEF Same
<1>2. CASE Done(w, None) \/ Fail(w)
  <2>1. pc'[w] \in {"idle", "thaw", "fee"}
    BY <1>2, EndsFrame
  <2> QED BY <2>1 DEF Knows, Found
<1>3. CASE ~(Done(w, None) \/ Fail(w))
  <2>1. /\ \/ /\ Open(loc[w].side) = {}
              /\ loc' = [loc EXCEPT ![w].pid = None, ![w].row = NoRow]
           \/ \E p \in Open(loc[w].side) :
                loc' = [loc EXCEPT ![w].pid = p, ![w].row = pos[p]]
        /\ pc'[w] = "store"
    BY <1>3 DEF Same, Goto, TypeOK
  <2>2. loc'[w].side = loc[w].side
    <3>1. PICK p, row : loc' = [loc EXCEPT ![w].pid = p, ![w].row = row]
      BY <2>1
    <3> QED BY <3>1 DEF TypeOK, Locals
  <2>3. NoStaleWrite => \A p \in Pids : IsOpen(p) => pos[p].side = loc[w].side
    BY <1>1 DEF Inv, Found
  <2>4. CASE /\ Open(loc[w].side) = {}
             /\ loc' = [loc EXCEPT ![w].pid = None, ![w].row = NoRow]
    <3>1. loc'[w].pid = None
      BY <2>4 DEF TypeOK, Locals
    <3>2. NoStaleWrite => \A p \in Pids : ~IsOpen(p)
      BY <2>3, <2>4 DEF Open, IsOpen
    <3> QED BY <1>1, <2>1, <3>1, <3>2 DEF Knows, Found, IsOpen
  <2>5. ASSUME NEW p \in Open(loc[w].side), loc' = [loc EXCEPT ![w].pid = p, ![w].row = pos[p]]
        PROVE  Knows(w)' /\ (NoStaleWrite' /\ NoStaleWrite => Found(w)')
    <3>1. loc'[w].pid = p /\ loc'[w].row = pos[p]
      BY <2>5 DEF TypeOK, Locals
    <3>2. p # None /\ pos[p].status = "open" /\ pos[p].side = loc[w].side
      BY IdAssumption DEF Open
    <3> QED BY <1>1, <2>1, <2>2, <2>3, <3>1, <3>2 DEF Knows, Found, IsOpen
  <2> QED BY <2>1, <2>4, <2>5
<1> QED BY <1>2, <1>3

-----------------------------------------------------------------------------
\* A Store opens the only row, or writes the open one.
LEMMA StoreKeeps ==
  ASSUME TypeOK, Ready, Inv, NEW w \in Workers, Store(w), NoStaleWrite', NoStaleWrite
  PROVE  /\ \A p, q \in Pids : IsOpen(p)' /\ IsOpen(q)' => p = q
         /\ \A p \in Pids : NotPaid(p)'
<1>1. closings' = closings /\ pc[w] = "store"
  BY DEF Store
<1>2. Found(w) /\ Knows(w) /\ (\A p \in Pids : NotPaid(p))
      /\ \A p, q \in Pids : IsOpen(p) /\ IsOpen(q) => p = q
  BY DEF Inv, AllKnow, OneSide, IsOpen
<1>3. CASE pos' = pos
  BY <1>1, <1>2, <1>3 DEF IsOpen, NotPaid
<1>4. CASE pos' # pos
  <2>1. PICK p \in IF loc[w].pid = None THEN {q \in Pids : pos[q].status = "none"}
                                        ELSE {loc[w].pid} :
          pos' = [pos EXCEPT ![p] = Stored(w)]
    BY <1>4, StoreCases
  <2>2. p \in Pids /\ Stored(w).status = "open"
    BY <2>1, LocFields, StoredRow
  <2>3. \A q \in Pids : IsOpen(q)' <=> q = p \/ IsOpen(q)
    BY <2>1, <2>2 DEF IsOpen, TypeOK
  <2>4. CASE loc[w].pid = None
    <3>1. pos[p].status = "none" /\ \A q \in Pids : ~IsOpen(q)
      BY <1>1, <1>2, <2>1, <2>4 DEF Found
    <3>2. \A q \in Pids : NotPaid(q)'
      BY <1>1, <1>2, <2>1, <2>2, <3>1 DEF NotPaid, TypeOK
    <3> QED BY <2>3, <3>1, <3>2
  <2>5. CASE loc[w].pid # None
    <3>1. Stale(p, loc[w].row) \subseteq leaks' /\ p = loc[w].pid
      BY <1>4, <2>1, <2>5, StoreCases
    <3>2. IsOpen(p)
      BY <1>1, <1>2, <2>5, <3>1, NotStale DEF Knows, IsOpen
    <3>3. \A q \in Pids : NotPaid(q)'
      BY <1>1, <1>2, <2>1, <2>2, <3>2 DEF NotPaid, IsOpen, TypeOK
    <3> QED BY <1>2, <2>2, <2>3, <3>2, <3>3
  <2> QED BY <2>4, <2>5
<1> QED BY <1>3, <1>4

\* Rows that obey open nothing and pay a row once.
LEMMA ObeyKeeps ==
  ASSUME TypeOK, Inv, RowsObey, NoStaleWrite
  PROVE  /\ \A p, q \in Pids : IsOpen(p)' /\ IsOpen(q)' => p = q
         /\ \A p \in Pids : NotPaid(p)'
         /\ \A p \in Pids : IsOpen(p)' => IsOpen(p) /\ pos'[p].side = pos[p].side
<1>1. \A p \in Pids : IsOpen(p)' => IsOpen(p) /\ pos'[p].side = pos[p].side
  BY DEF RowsObey, Kept, PaysOut, IsOpen
<1>2. \A p, q \in Pids : IsOpen(p) /\ IsOpen(q) => p = q
  BY DEF Inv, OneSide, IsOpen
<1>3. ASSUME NEW p \in Pids PROVE NotPaid(p)'
  <2>1. NotPaid(p)
    BY DEF Inv
  <2>2. CASE Kept(p)
    BY <2>1, <2>2 DEF Kept, NotPaid
  <2>3. CASE PaysOut(p)
    BY <2>1, <2>3 DEF PaysOut, NotPaid, IsOpen
  <2> QED BY <2>2, <2>3 DEF RowsObey
<1> QED BY <1>1, <1>2, <1>3

\* A worker that does not move keeps what it found while nothing opens.
LEMMA FoundStays ==
  ASSUME NEW v \in Workers, pc'[v] = pc[v], loc'[v] = loc[v], Found(v),
         \A p \in Pids : IsOpen(p)' => IsOpen(p) /\ pos'[p].side = pos[p].side
  PROVE  Found(v)'
BY DEF Found

LEMMA KnowsStays ==
  ASSUME NEW v \in Workers, pc'[v] = pc[v], loc'[v] = loc[v], Knows(v)
  PROVE  Knows(v)'
BY DEF Knows

\* What the moving worker knows and found after its step.
LEMMA MoverFacts ==
  ASSUME TypeOK, Ready, Inv, NEW w \in Workers, Call(w) \/ Step(w)
  PROVE  Knows(w)' /\ (NoStaleWrite' /\ NoStaleWrite => Found(w)')
<1>1. CASE Opposing(w) \/ Decrease(w)
  BY <1>1, OpposingFacts, DecreaseFacts
<1>2. CASE Write(w) \/ Release(w) \/ Same(w)
  BY <1>2, WriteFacts, ReleaseFacts, SameFacts
<1>3. CASE /\ ~Opposing(w) /\ ~Decrease(w) /\ ~Write(w) /\ ~Release(w) /\ ~Same(w)
  <2>1. pc'[w] \notin Watched
    BY <1>3, CallFrame, QuietSteps
  <2> QED BY <2>1 DEF Knows, Found, Watched
<1> QED BY <1>1, <1>2, <1>3

LEMMA NextKnows ==
  ASSUME TypeOK, Ready, Inv, Next
  PROVE  AllKnow'
<1>1. CASE User
  BY <1>1, UserFrame, KnowsStays DEF Inv, AllKnow
<1>2. ASSUME NEW w \in Workers, Call(w) \/ Step(w) PROVE AllKnow'
  <2>1. Knows(w)' /\ Frame(w)
    BY <1>2, MoverFacts, CallFrame, StepFrame
  <2>2. \A v \in Workers \ {w} : Knows(v)'
    BY <2>1, KnowsStays DEF Inv, AllKnow, Frame
  <2> QED BY <2>1, <2>2 DEF AllKnow
<1> QED BY <1>1, <1>2 DEF Next

LEMMA NextFound ==
  ASSUME TypeOK, Ready, Inv, Next, NoStaleWrite', NoStaleWrite
  PROVE  /\ \A w \in Workers : Found(w)'
         /\ \A p \in Pids : NotPaid(p)'
         /\ \A p, q \in Pids : IsOpen(p)' /\ IsOpen(q)' => p = q
<1>1. CASE \E w \in Workers : Store(w)
  <2>1. PICK w \in Workers : Store(w)
    BY <1>1
  <2>2. Step(w) /\ pc[w] = "store" /\ lock = w
    BY <2>1 DEF Step, Proceed, Store, Inv, Held, Locked, Watched
  <2>3. Found(w)' /\ Frame(w)
    BY <2>2, MoverFacts, StepFrame
  <2>4. \A v \in Workers \ {w} : pc'[v] \notin Watched
    BY <2>2, <2>3 DEF Inv, Held, Locked, Frame
  <2>5. \A v \in Workers \ {w} : Found(v)'
    BY <2>4 DEF Found, Watched
  <2> QED BY <2>1, <2>3, <2>5, StoreKeeps
<1>2. CASE \A w \in Workers : ~Store(w)
  <2>1. RowsObey
    BY <1>2, NextRows DEF Inv
  <2>2. \A v \in Workers : Found(v)
    BY DEF Inv
  <2>3. CASE User
    BY <2>1, <2>2, <2>3, ObeyKeeps, UserFrame, FoundStays
  <2>4. ASSUME NEW w \in Workers, Call(w) \/ Step(w) PROVE \A v \in Workers : Found(v)'
    <3>1. Found(w)' /\ Frame(w)
      BY <2>4, MoverFacts, CallFrame, StepFrame
    <3>2. \A v \in Workers \ {w} : Found(v)'
      BY <2>1, <2>2, <3>1, ObeyKeeps, FoundStays DEF Frame
    <3> QED BY <3>1, <3>2
  <2> QED BY <2>1, <2>3, <2>4, ObeyKeeps DEF Next
<1> QED BY <1>1, <1>2

LEMMA NextInv == TypeOK /\ Ready /\ Inv /\ [Next]_vars => Inv'
<1> SUFFICES ASSUME TypeOK, Ready, Inv, [Next]_vars PROVE Inv'
  OBVIOUS
<1>1. CASE Next
  <2>1. Held' /\ AllKnow'
    BY <1>1, NextHeld, NextKnows DEF Inv
  <2>2. NoStaleWrite' => NoStaleWrite
    BY <1>1, StaleStays
  <2> QED BY <1>1, <2>1, <2>2, NextFound DEF Inv, OneSide, IsOpen
<1>2. CASE UNCHANGED vars
  BY <1>2 DEF vars, account, books, Inv, Held, AllKnow, Knows, OneSide, Found, NotPaid, IsOpen,
     NoStaleWrite
<1> QED BY <1>1, <1>2

\* Rows, orders, balances, workers and books keep their types.
THEOREM TypesKept == Spec => []TypeOK
BY Typed, PTL

\* As long as no row changed between a read of the service and its write, a user
\* has one open row in the market: never both sides, never two rows of one side.
THEOREM OneSideAtATime == Spec => []OneSide
<1>1. Inv => OneSide
  BY DEF Inv
<1> QED BY Typed, InitInv, NextInv, <1>1, PTL DEF Spec

\* As long as no row changed between a read of the service and its write, the
\* collateral of a position is paid out in full at most once.
THEOREM PaidAtMostOnce == Spec => []PaidOnce
<1>1. Inv => PaidOnce
  BY DEF Inv, PaidOnce, NotPaid
<1> QED BY Typed, InitInv, NextInv, <1>1, PTL DEF Spec

(***************************************************************************)
(* The money adds up.                                                      *)
(***************************************************************************)

\* The statements of a trade's leg; in all but the last two its collateral is on
\* its way from the order to a row or back to the balance.
TradeLabels == {"opposing", "decrease", "write", "release", "same", "store", "clean", "fee"}
CarryLabels == TradeLabels \ {"clean", "fee"}
LiveStatus  == {"pending", "open", "filled", "applying"}

\* The collateral an order, a row and a worker stand for.  A taker's collateral is
\* in the frozen balance until its request has released it.
Carry(o)   == IF orders[o].margin > 0 THEN (orders[o].lots * orders[o].price) \div Leverage ELSE 0
RowAt(p)   == IF pos[p].status = "open" THEN pos[p].coll ELSE 0
Unreleased(o) ==
    IF orders[o].due \in {"row", "release"} /\ orders[o].status # "cancelled" THEN Carry(o) ELSE 0
OrderAt(o) == (IF orders[o].status = "filled" THEN Carry(o) ELSE 0) - Unreleased(o)
OwedAt(w)  ==
    IF pc[w] \in CarryLabels
    THEN Carry(loc[w].order) + (IF pc[w] = "release" THEN loc[w].returned ELSE 0)
    ELSE IF pc[w] = "removepay" THEN loc[w].coll ELSE 0

RowSum   == SumFunctionOnSet([p \in Pids |-> RowAt(p)], Pids)
OrderSum == SumFunctionOnSet([o \in Orders |-> OrderAt(o)], Orders)
OwedSum  == SumFunctionOnSet([w \in Workers |-> OwedAt(w)], Workers)

\* What a worker's local variables still say while nothing has leaked.
Sound(w) ==
    /\ pc[w] \notin {"lock", "thaw", "incoming", "addread", "addwrite"}
    /\ pc[w] \in TradeLabels => ByTrade(w) /\ orders[loc[w].order].status = "applying"
    /\ pc[w] \in CarryLabels \ {"release"} =>
          loc[w].lots = orders[loc[w].order].lots /\ loc[w].price = orders[loc[w].order].price
    /\ pc[w] = "write" => loc[w].want <= loc[w].row.size
    /\ pc[w] \in {"removewrite", "removepay"} => loc[w].coll >= 0
    /\ pc[w] = "removewrite" => loc[w].row.status = "open" /\ loc[w].row.coll >= loc[w].coll
    /\ pc[w] = "store" /\ loc[w].pid = None => loc[w].row = NoRow

SolidRow(p)   == pos[p].status = "open" => pos[p].size > 0 /\ pos[p].coll >= 0
SolidOrder(o) ==
    /\ orders[o].status \in LiveStatus => orders[o].lots > 0 /\ orders[o].price > 0
    /\ orders[o].status \in {"none", "pending", "open"} => orders[o].due = "none"
SolidRows   == \A p \in Pids : SolidRow(p)
SolidOrders == \A o \in Orders : SolidOrder(o)
AllSound    == \A w \in Workers : Sound(w)

\* No two workers apply one order.
OwnOrders == \A v, w \in Workers :
    v # w /\ pc[v] \in TradeLabels /\ pc[w] \in TradeLabels => loc[v].order # loc[w].order

Reckoned == available + frozen + RowSum + OrderSum + OwedSum
            = Deposit + pnl - fees + absorbed + gift

MoneyBody == frozen >= 0 /\ SolidRows /\ SolidOrders /\ AllSound /\ OwnOrders /\ Reckoned
MoneyInv  == leaks = {} => MoneyBody

\* A step of a well typed state in which nothing has leaked and nothing leaks.
Tight == /\ TypeOK /\ Ready /\ TypeOK' /\ Inv
         /\ MoneyBody /\ leaks = {} /\ leaks' = {}

-----------------------------------------------------------------------------
(* Arithmetic of shares. *)

LEMMA TimesOver == ASSUME NEW a \in Int, NEW s \in Nat \ {0} PROVE (a * s) \div s = a
OBVIOUS

LEMMA OverTimes ==
  ASSUME NEW m \in Int, NEW a \in Int, NEW s \in Nat \ {0}, m <= a * s PROVE m \div s <= a
OBVIOUS

LEMMA TimesLess ==
  ASSUME NEW a \in Nat, NEW c \in Int, NEW s \in Nat, c <= s PROVE a * c <= a * s
OBVIOUS

LEMMA TimesPos == ASSUME NEW m \in Nat, NEW n \in Nat, m > 0, n > 0 PROVE m * n > 0
OBVIOUS

LEMMA ShareWhole ==
  ASSUME NEW a \in Int, NEW s \in Int, s > 0 PROVE Share(a, s, s) = a
<1>1. s \in Nat \ {0}
  OBVIOUS
<1> QED BY <1>1, TimesOver DEF Share

LEMMA ShareLess ==
  ASSUME NEW a \in Int, a >= 0, NEW c \in Int, NEW s \in Int, s > 0, c <= s
  PROVE  Share(a, c, s) <= a
<1>1. s \in Nat \ {0} /\ a \in Nat
  OBVIOUS
<1>2. a * c <= a * s /\ a * c \in Int
  BY <1>1, TimesLess, TimesInt
<1> QED BY <1>1, <1>2, OverTimes DEF Share

LEMMA ShareNat ==
  ASSUME NEW a \in Int, a >= 0, NEW c \in Int, c >= 0, NEW s \in Int
  PROVE  Share(a, c, s) \in Nat
<1>1. a \in Nat /\ c \in Nat
  OBVIOUS
<1>2. a * c \in Nat
  BY <1>1, TimesNat
<1>3. CASE s > 0
  <2>1. s \in Nat \ {0}
    BY <1>3
  <2> QED BY <1>2, <1>3, <2>1, QuotientNat DEF Share
<1>4. CASE ~(s > 0)
  BY <1>4 DEF Share
<1> QED BY <1>3, <1>4

LEMMA BufferNat == ASSUME NEW size \in Int, size >= 0 PROVE Buffer(size) \in Nat
<1>1. size \in Nat
  OBVIOUS
<1> QED BY <1>1, AmountAssumption, QuotientNat DEF Buffer

LEMMA CutFields ==
  ASSUME NEW row \in Row, NEW c \in Int
  PROVE  /\ Cut(row, c).size = row.size - c /\ HandlerCut(row, c).size = row.size - c
         /\ Cut(row, c).coll = row.coll - Share(row.coll, c, row.size)
         /\ HandlerCut(row, c).coll = row.coll - Share(row.coll, c, row.size)
BY DEF Cut, HandlerCut, Row

-----------------------------------------------------------------------------
(* The three sums. *)

LEMMA RowSums ==
  ASSUME TypeOK, TypeOK'
  PROVE  /\ RowSum \in Int /\ RowSum' \in Int
         /\ (\A p \in Pids : RowAt(p)' = RowAt(p)) => RowSum' = RowSum
         /\ \A d \in Pids : (\A p \in Pids \ {d} : RowAt(p)' = RowAt(p))
                            => RowSum' = RowSum + RowAt(d)' - RowAt(d)
<1> DEFINE g == [p \in Pids |-> RowAt(p)]
           h == [p \in Pids |-> RowAt(p)']
<1>1. \A p \in Pids : RowAt(p) \in Int /\ RowAt(p)' \in Int
  <2>1. \A p \in Pids : pos[p] \in Row /\ pos'[p] \in Row
    BY DEF TypeOK
  <2> QED BY <2>1, RowFields DEF RowAt
<1>2. RowSum = SumFunctionOnSet(g, Pids) /\ RowSum' = SumFunctionOnSet(h, Pids)
  BY DEF RowSum
<1>3. \A p \in Pids : g[p] = RowAt(p) /\ h[p] = RowAt(p)'
  OBVIOUS
<1> HIDE DEF g, h
<1>4. RowSum \in Int /\ RowSum' \in Int
  BY <1>1, <1>2, <1>3, SumInt, FiniteAssumption
<1>5. ASSUME \A p \in Pids : RowAt(p)' = RowAt(p) PROVE RowSum' = RowSum
  BY <1>1, <1>2, <1>3, <1>5, SumSame, FiniteAssumption
<1>6. ASSUME NEW d \in Pids, \A p \in Pids \ {d} : RowAt(p)' = RowAt(p)
      PROVE  RowSum' = RowSum + RowAt(d)' - RowAt(d)
  <2>1. /\ \A p \in Pids : g[p] \in Int /\ h[p] \in Int
        /\ \A p \in Pids \ {d} : h[p] = g[p]
    BY <1>1, <1>3, <1>6
  <2>2. SumFunctionOnSet(h, Pids) = SumFunctionOnSet(g, Pids) + h[d] - g[d]
    BY <2>1, SumChange, FiniteAssumption
  <2> QED BY <1>2, <1>3, <2>2
<1> QED BY <1>4, <1>5, <1>6

LEMMA CarryInt ==
  ASSUME TypeOK, NEW o \in Orders
  PROVE  Carry(o) \in Int /\ Unreleased(o) \in Int /\ OrderAt(o) \in Int
<1>1. orders[o].lots * orders[o].price \in Nat
  BY TimesNat DEF TypeOK, OrderRow
<1>2. (orders[o].lots * orders[o].price) \div Leverage \in Int
  BY <1>1, QuotientNat, AmountAssumption
<1>3. Carry(o) \in Int
  BY <1>2 DEF Carry
<1>4. Unreleased(o) \in Int
  BY <1>3 DEF Unreleased
<1> QED BY <1>3, <1>4 DEF OrderAt

AllCarry == \A o \in Orders : OrderAt(o) \in Int
LEMMA CarryNow == TypeOK => AllCarry
BY CarryInt DEF AllCarry

LEMMA CarryIntNext ==
  ASSUME TypeOK', NEW o \in Orders
  PROVE  Carry(o)' \in Int /\ Unreleased(o)' \in Int
<1>1. orders'[o].lots * orders'[o].price \in Nat
  BY TimesNat DEF TypeOK, OrderRow
<1>2. (orders'[o].lots * orders'[o].price) \div Leverage \in Int
  BY <1>1, QuotientNat, AmountAssumption
<1>3. Carry(o)' \in Int
  BY <1>2 DEF Carry
<1> QED BY <1>3 DEF Unreleased

LEMMA CarryNext == TypeOK' => AllCarry'
BY CarryNow, PTL

LEMMA OrderSums ==
  ASSUME TypeOK, TypeOK'
  PROVE  /\ OrderSum \in Int /\ OrderSum' \in Int
         /\ (\A o \in Orders : OrderAt(o)' = OrderAt(o)) => OrderSum' = OrderSum
         /\ \A d \in Orders : (\A o \in Orders \ {d} : OrderAt(o)' = OrderAt(o))
                            => OrderSum' = OrderSum + OrderAt(d)' - OrderAt(d)
<1> DEFINE g == [o \in Orders |-> OrderAt(o)]
           h == [o \in Orders |-> OrderAt(o)']
<1>1. \A o \in Orders : OrderAt(o) \in Int /\ OrderAt(o)' \in Int
  BY CarryNow, CarryNext DEF AllCarry
<1>2. OrderSum = SumFunctionOnSet(g, Orders) /\ OrderSum' = SumFunctionOnSet(h, Orders)
  BY DEF OrderSum
<1>3. \A o \in Orders : g[o] = OrderAt(o) /\ h[o] = OrderAt(o)'
  OBVIOUS
<1> HIDE DEF g, h
<1>4. OrderSum \in Int /\ OrderSum' \in Int
  BY <1>1, <1>2, <1>3, SumInt, FiniteAssumption
<1>5. ASSUME \A o \in Orders : OrderAt(o)' = OrderAt(o) PROVE OrderSum' = OrderSum
  BY <1>1, <1>2, <1>3, <1>5, SumSame, FiniteAssumption
<1>6. ASSUME NEW d \in Orders, \A o \in Orders \ {d} : OrderAt(o)' = OrderAt(o)
      PROVE  OrderSum' = OrderSum + OrderAt(d)' - OrderAt(d)
  <2>1. /\ \A o \in Orders : g[o] \in Int /\ h[o] \in Int
        /\ \A o \in Orders \ {d} : h[o] = g[o]
    BY <1>1, <1>3, <1>6
  <2>2. SumFunctionOnSet(h, Orders) = SumFunctionOnSet(g, Orders) + h[d] - g[d]
    BY <2>1, SumChange, FiniteAssumption
  <2> QED BY <1>2, <1>3, <2>2
<1> QED BY <1>4, <1>5, <1>6

LEMMA OwedInt ==
  ASSUME TypeOK, NEW w \in Workers, Sound(w)
  PROVE  OwedAt(w) \in Int
<1>1. loc[w].returned \in Int /\ loc[w].coll \in Int /\ loc[w].order \in Orders \cup {None}
  BY LocFields
<1>2. pc[w] \in CarryLabels => loc[w].order \in Orders
  BY <1>1 DEF Sound, CarryLabels, ByTrade
<1>3. pc[w] \in CarryLabels => Carry(loc[w].order) \in Int
  BY <1>2, CarryInt
<1> QED BY <1>1, <1>3 DEF OwedAt

AllOwed == \A w \in Workers : OwedAt(w) \in Int
LEMMA OwedNow == TypeOK /\ AllSound => AllOwed
BY OwedInt DEF AllOwed, AllSound

LEMMA OwedNext == TypeOK' /\ AllSound' => AllOwed'
BY OwedNow, PTL

LEMMA OwedSums ==
  ASSUME TypeOK, TypeOK', AllSound, AllSound'
  PROVE  /\ OwedSum \in Int /\ OwedSum' \in Int
         /\ \A w \in Workers : OwedAt(w) \in Int /\ OwedAt(w)' \in Int
         /\ (\A v \in Workers : OwedAt(v)' = OwedAt(v)) => OwedSum' = OwedSum
         /\ \A w \in Workers : (\A v \in Workers \ {w} : OwedAt(v)' = OwedAt(v))
                            => OwedSum' = OwedSum + OwedAt(w)' - OwedAt(w)
<1> DEFINE g == [w \in Workers |-> OwedAt(w)]
           h == [w \in Workers |-> OwedAt(w)']
<1>1. \A w \in Workers : OwedAt(w) \in Int /\ OwedAt(w)' \in Int
  BY OwedNow, OwedNext DEF AllOwed
<1>2. OwedSum = SumFunctionOnSet(g, Workers) /\ OwedSum' = SumFunctionOnSet(h, Workers)
  BY DEF OwedSum
<1>3. \A w \in Workers : g[w] = OwedAt(w) /\ h[w] = OwedAt(w)'
  OBVIOUS
<1> HIDE DEF g, h
<1>4. OwedSum \in Int /\ OwedSum' \in Int
  BY <1>1, <1>2, <1>3, SumInt, FiniteAssumption
<1>5. ASSUME \A w \in Workers : OwedAt(w)' = OwedAt(w) PROVE OwedSum' = OwedSum
  BY <1>1, <1>2, <1>3, <1>5, SumSame, FiniteAssumption
<1>6. ASSUME NEW w \in Workers, \A v \in Workers \ {w} : OwedAt(v)' = OwedAt(v)
      PROVE  OwedSum' = OwedSum + OwedAt(w)' - OwedAt(w)
  <2>1. /\ \A v \in Workers : g[v] \in Int /\ h[v] \in Int
        /\ \A v \in Workers \ {w} : h[v] = g[v]
    BY <1>1, <1>3, <1>6
  <2>2. SumFunctionOnSet(h, Workers) = SumFunctionOnSet(g, Workers) + h[w] - g[w]
    BY <2>1, SumChange, FiniteAssumption
  <2> QED BY <1>2, <1>3, <2>2
<1> QED BY <1>1, <1>4, <1>5, <1>6

-----------------------------------------------------------------------------
(* What a step leaves alone. *)

\* A worker that does not move, and whose order nobody touches, is as it was.
SameOrder(o) ==
    /\ orders'[o].status = orders[o].status /\ orders'[o].lots = orders[o].lots
    /\ orders'[o].price = orders[o].price /\ orders'[o].margin = orders[o].margin

LEMMA StaysSound ==
  ASSUME NEW v \in Workers, Sound(v), pc'[v] = pc[v], loc'[v] = loc[v],
         pc[v] \in TradeLabels => SameOrder(loc[v].order)
  PROVE  Sound(v)' /\ OwedAt(v)' = OwedAt(v)
<1>1. Sound(v)'
  BY DEF Sound, ByTrade, CarryLabels, TradeLabels, SameOrder
<1>2. CASE pc[v] \in CarryLabels
  <2>1. Carry(loc[v].order)' = Carry(loc[v].order)
    BY <1>2 DEF Carry, CarryLabels, SameOrder
  <2>2. PICK c : c = Carry(loc[v].order) /\ c = Carry(loc[v].order)'
    BY <2>1
  <2>3. PICK x : x = IF pc[v] = "release" THEN loc[v].returned ELSE 0
    OBVIOUS
  <2>4. OwedAt(v) = c + x
    BY <1>2, <2>2, <2>3 DEF OwedAt
  <2>5. OwedAt(v)' = c + x
    BY <1>2, <2>2, <2>3 DEF OwedAt
  <2> QED BY <1>1, <2>4, <2>5
<1>3. CASE pc[v] \notin CarryLabels
  <2>1. OwedAt(v) = IF pc[v] = "removepay" THEN loc[v].coll ELSE 0
    BY <1>3 DEF OwedAt
  <2>2. OwedAt(v)' = IF pc'[v] = "removepay" THEN loc'[v].coll ELSE 0
    BY <1>3 DEF OwedAt
  <2> QED BY <1>1, <2>1, <2>2
<1> QED BY <1>1, <1>2, <1>3

\* A step of worker w, which touches no order another worker applies.
LEMMA StepOwed ==
  ASSUME Tight, NEW w \in Workers, Frame(w), Sound(w)',
         \A v \in Workers \ {w} : pc[v] \in TradeLabels =>
            /\ orders'[loc[v].order] = orders[loc[v].order]
            /\ pc'[w] \in TradeLabels => loc[v].order # loc'[w].order
  PROVE  /\ AllSound' /\ OwnOrders'
         /\ OwedSum' = OwedSum + OwedAt(w)' - OwedAt(w)
         /\ OwedSum \in Int /\ OwedSum' \in Int /\ OwedAt(w) \in Int /\ OwedAt(w)' \in Int
<1>1. AllSound /\ OwnOrders /\ TypeOK /\ TypeOK'
  BY DEF Tight, MoneyBody
<1>2. \A v \in Workers \ {w} : Sound(v)' /\ OwedAt(v)' = OwedAt(v)
  BY <1>1, StaysSound DEF AllSound, Frame, SameOrder
<1>3. AllSound'
  BY <1>2 DEF AllSound
<1>4. OwnOrders'
  BY <1>1 DEF OwnOrders, Frame
<1> QED BY <1>1, <1>2, <1>3, <1>4, OwedSums

\* A step of the user, which touches no order a worker applies.
LEMMA UserOwed ==
  ASSUME Tight, UNCHANGED <<pc, loc>>,
         \A v \in Workers : pc[v] \in TradeLabels => SameOrder(loc[v].order)
  PROVE  AllSound' /\ OwnOrders' /\ OwedSum' = OwedSum /\ OwedSum \in Int
<1>1. AllSound /\ OwnOrders /\ TypeOK /\ TypeOK'
  BY DEF Tight, MoneyBody
<1>2. \A v \in Workers : Sound(v)' /\ OwedAt(v)' = OwedAt(v)
  BY <1>1, StaysSound DEF AllSound
<1>3. AllSound'
  BY <1>2 DEF AllSound
<1>4. OwnOrders'
  BY <1>1 DEF OwnOrders
<1> QED BY <1>1, <1>2, <1>3, <1>4, OwedSums

\* Who applies an order finds it 'applying'.
LEMMA Applied ==
  ASSUME MoneyBody, NEW v \in Workers, pc[v] \in TradeLabels, TypeOK
  PROVE  loc[v].order \in Orders /\ orders[loc[v].order].status = "applying"
<1>1. Sound(v)
  BY DEF MoneyBody, AllSound
<1> QED BY <1>1, LocFields DEF Sound, ByTrade

\* Rows and orders a step leaves alone.
LEMMA RowsAlone ==
  ASSUME Tight, pos' = pos
  PROVE  SolidRows' /\ RowSum' = RowSum /\ RowSum \in Int
<1>1. TypeOK /\ TypeOK' /\ SolidRows
  BY DEF Tight, MoneyBody
<1>2. \A p \in Pids : RowAt(p)' = RowAt(p)
  BY DEF RowAt
<1> QED BY <1>1, <1>2, RowSums DEF SolidRows, SolidRow

LEMMA RowAlone ==
  ASSUME Tight, NEW d \in Pids, \A p \in Pids \ {d} : pos'[p] = pos[p], SolidRow(d)'
  PROVE  /\ SolidRows' /\ RowSum' = RowSum + RowAt(d)' - RowAt(d)
         /\ RowSum \in Int /\ RowSum' \in Int
<1>1. TypeOK /\ TypeOK' /\ SolidRows
  BY DEF Tight, MoneyBody
<1>2. \A p \in Pids \ {d} : RowAt(p)' = RowAt(p)
  BY DEF RowAt
<1> QED BY <1>1, <1>2, RowSums DEF SolidRows, SolidRow

LEMMA OrdersAlone ==
  ASSUME Tight, orders' = orders
  PROVE  SolidOrders' /\ OrderSum' = OrderSum /\ OrderSum \in Int
<1>1. TypeOK /\ TypeOK' /\ SolidOrders
  BY DEF Tight, MoneyBody
<1>2. \A o \in Orders : OrderAt(o)' = OrderAt(o)
  BY DEF OrderAt, Unreleased, Carry
<1> QED BY <1>1, <1>2, OrderSums DEF SolidOrders, SolidOrder

LEMMA OrderAlone ==
  ASSUME Tight, NEW d \in Orders, \A o \in Orders \ {d} : orders'[o] = orders[o], SolidOrder(d)'
  PROVE  /\ SolidOrders' /\ OrderSum' = OrderSum + OrderAt(d)' - OrderAt(d)
         /\ OrderSum \in Int /\ OrderSum' \in Int
<1>1. TypeOK /\ TypeOK' /\ SolidOrders
  BY DEF Tight, MoneyBody
<1>2. \A o \in Orders \ {d} : OrderAt(o)' = OrderAt(o)
  BY DEF OrderAt, Unreleased, Carry
<1> QED BY <1>1, <1>2, OrderSums DEF SolidOrders, SolidOrder

\* An order goes on: its collateral counts while it is filled and in no position.
InOrder(o) == IF orders[o].status = "filled" THEN Carry(o) ELSE 0

LEMMA OrderGoes ==
  ASSUME Tight, NEW o \in Orders, \A q \in Orders \ {o} : orders'[q] = orders[q],
         orders[o].status \in LiveStatus,
         orders'[o].status \in {"open", "filled", "applying", "applied"},
         orders'[o].status = "open" => orders[o].status = "pending",
         orders'[o].lots = orders[o].lots, orders'[o].price = orders[o].price,
         orders'[o].margin = orders[o].margin, orders'[o].due = orders[o].due
  PROVE  /\ Carry(o)' = Carry(o) /\ SolidOrder(o)' /\ SolidOrders'
         /\ OrderSum' = OrderSum + InOrder(o)' - InOrder(o)
         /\ OrderSum \in Int /\ OrderSum' \in Int /\ Carry(o) \in Int
<1>1. TypeOK /\ SolidOrder(o)
  BY DEF Tight, MoneyBody, SolidOrders
<1>2. PICK k \in Int : k = Carry(o) /\ k = Carry(o)'
  BY <1>1, CarryInt DEF Carry
<1>3. SolidOrder(o)'
  BY <1>1 DEF SolidOrder, LiveStatus
<1>4. PICK u \in Int : u = Unreleased(o) /\ u = Unreleased(o)'
  BY <1>1, <1>2, CarryInt DEF Unreleased, LiveStatus
<1>5. PICK a \in Int, b \in Int : a = InOrder(o) /\ b = InOrder(o)'
  BY <1>2 DEF InOrder
<1>6. OrderAt(o) = a - u /\ OrderAt(o)' = b - u
  BY <1>4, <1>5 DEF OrderAt, InOrder
<1>7. /\ SolidOrders' /\ OrderSum' = OrderSum + OrderAt(o)' - OrderAt(o)
      /\ OrderSum \in Int /\ OrderSum' \in Int
  BY <1>3, OrderAlone
<1>8. OrderSum' = OrderSum + InOrder(o)' - InOrder(o)
  BY <1>4, <1>5, <1>6, <1>7
<1> QED BY <1>2, <1>3, <1>7, <1>8

\* An order changes its status only.
LEMMA StatusOnly ==
  ASSUME Tight, NEW o \in Orders, NEW status \in {"filled", "applying", "applied"},
         orders' = [orders EXCEPT ![o].status = status],
         orders[o].status \in LiveStatus
  PROVE  /\ \A q \in Orders \ {o} : orders'[q] = orders[q]
         /\ orders'[o].status = status /\ Carry(o)' = Carry(o) /\ SolidOrder(o)'
         /\ SolidOrders' /\ OrderSum' = OrderSum + InOrder(o)' - InOrder(o)
         /\ OrderSum \in Int /\ OrderSum' \in Int /\ Carry(o) \in Int
<1>1. TypeOK
  BY DEF Tight
<1>2. /\ \A q \in Orders \ {o} : orders'[q] = orders[q]
      /\ orders'[o].status = status /\ orders'[o].lots = orders[o].lots
      /\ orders'[o].price = orders[o].price /\ orders'[o].margin = orders[o].margin
      /\ orders'[o].due = orders[o].due
  BY <1>1 DEF TypeOK, OrderRow
<1> QED BY <1>2, OrderGoes

LEMMA Amounts ==
  ASSUME Tight
  PROVE  /\ available \in Int /\ frozen \in Int /\ pnl \in Int /\ fees \in Int
         /\ absorbed \in Int /\ gift \in Int /\ Deposit \in Int /\ frozen >= 0 /\ Reckoned
         /\ available' \in Int /\ frozen' \in Int /\ pnl' \in Int /\ fees' \in Int
         /\ absorbed' \in Int /\ gift' \in Int
BY AmountAssumption DEF Tight, TypeOK, MoneyBody

-----------------------------------------------------------------------------
(* The user's steps keep the money. *)

LEMMA UserOrder ==
  ASSUME Tight, UNCHANGED <<pc, loc>>, NEW o \in Orders, orders[o].status # "applying",
         \A q \in Orders \ {o} : orders'[q] = orders[q]
  PROVE  AllSound' /\ OwnOrders' /\ OwedSum' = OwedSum /\ OwedSum \in Int
<1>1. \A v \in Workers : pc[v] \in TradeLabels => SameOrder(loc[v].order)
  BY Applied DEF Tight, SameOrder
<1> QED BY <1>1, UserOwed

LEMMA OrderAmounts ==
  ASSUME TypeOK, NEW o \in Orders
  PROVE  /\ orders[o].margin \in Nat /\ orders[o].lots \in Nat /\ orders[o].price \in Nat
         /\ orders[o].lots * orders[o].price \in Nat
         /\ Margin(orders[o].lots * orders[o].price) \in Nat
<1>1. orders[o].margin \in Nat /\ orders[o].lots \in Nat /\ orders[o].price \in Nat
  BY DEF TypeOK, OrderRow
<1>2. orders[o].lots * orders[o].price \in Nat
  BY <1>1, TimesNat
<1> QED BY <1>1, <1>2, MarginNat

\* A user's step on an order that brings nothing into a position.
LEMMA OrderMoney ==
  ASSUME Tight, UNCHANGED <<pc, loc, pos, pnl, fees, absorbed>>, NEW o \in Orders,
         orders[o].status # "applying", \A q \in Orders \ {o} : orders'[q] = orders[q],
         SolidOrder(o)', frozen' >= 0,
         available' + frozen' + OrderAt(o)' - gift'
         = available + frozen + OrderAt(o) - gift
  PROVE  MoneyBody'
<1>1. /\ SolidOrders' /\ OrderSum' = OrderSum + OrderAt(o)' - OrderAt(o)
      /\ OrderSum \in Int /\ OrderSum' \in Int
  BY OrderAlone
<1>2. AllSound' /\ OwnOrders' /\ OwedSum' = OwedSum /\ OwedSum \in Int
  BY UserOrder
<1>3. SolidRows' /\ RowSum' = RowSum /\ RowSum \in Int
  BY RowsAlone
<1>4. PICK a \in Int, b \in Int : a = OrderAt(o) /\ b = OrderAt(o)'
  BY CarryNow, CarryNext DEF AllCarry, Tight
<1>5. Reckoned'
  <2>1. OrderSum' = OrderSum + b - a
    BY <1>1, <1>4
  <2>2. available' + frozen' + b - gift' = available + frozen + a - gift
    BY <1>4
  <2>3. /\ pnl' = pnl /\ fees' = fees /\ absorbed' = absorbed
        /\ RowSum' = RowSum /\ OwedSum' = OwedSum
    BY <1>2, <1>3
  <2> QED BY ONLY <1>1, <1>2, <1>3, <1>4, <2>1, <2>2, <2>3, Amounts, Tight DEF Reckoned
<1> QED BY <1>1, <1>2, <1>3, <1>5 DEF MoneyBody

LEMMA PlaceMoney ==
  ASSUME Tight, NEW o \in Orders, NEW side \in Sides, NEW n \in Lots,
         NEW price \in Prices, Place(o, side, n, price)
  PROVE  MoneyBody'
<1>1. n \in Nat /\ price \in Nat /\ n > 0 /\ price > 0
  BY AmountAssumption
<1>2. PICK need \in Nat, m \in Nat :
        /\ orders[o].status = "none"
        /\ available' = available - m /\ frozen' = frozen + m
        /\ orders' = [orders EXCEPT ![o] = [status |-> "pending", side |-> side, lots |-> n,
                        price |-> price, margin |-> m, need |-> need, due |-> "none"]]
        /\ UNCHANGED <<pos, lock, pc, loc, calls, books>>
  BY Placed DEF Tight
<1>3. /\ available' = available - m /\ frozen' = frozen + m
      /\ orders[o].status = "none"
      /\ \A q \in Orders \ {o} : orders'[q] = orders[q]
      /\ orders'[o].status = "pending" /\ orders'[o].lots = n /\ orders'[o].price = price
      /\ orders'[o].due = "none"
      /\ UNCHANGED <<pos, pc, loc, pnl, fees, absorbed, gift>>
  BY <1>2 DEF Tight, TypeOK, books
<1>4. SolidOrder(o)' /\ orders[o].due = "none"
  BY <1>1, <1>3 DEF SolidOrder, Tight, MoneyBody, SolidOrders
<1>5. OrderAt(o) = 0 /\ OrderAt(o)' = 0
  BY <1>3, <1>4 DEF OrderAt, Unreleased
<1> QED BY <1>2, <1>3, <1>4, <1>5, OrderMoney, Amounts

LEMMA RestMoney ==
  ASSUME Tight, NEW o \in Orders, Rest(o)
  PROVE  MoneyBody'
<1>1. /\ orders[o].status = "pending"
      /\ orders' = [orders EXCEPT ![o].status = "open", ![o].need = 0]
      /\ UNCHANGED <<pos, available, frozen, pc, loc, pnl, fees, absorbed, gift>>
  BY DEF Rest, account, books
<1>2. /\ \A q \in Orders \ {o} : orders'[q] = orders[q]
      /\ orders'[o].status = "open" /\ orders'[o].due = orders[o].due
      /\ orders'[o].lots = orders[o].lots /\ orders'[o].price = orders[o].price
  BY <1>1 DEF Tight, TypeOK, OrderRow
<1>3. SolidOrder(o)
  BY DEF Tight, MoneyBody, SolidOrders
<1>4. SolidOrder(o)' /\ OrderAt(o) = 0 /\ OrderAt(o)' = 0
  BY <1>1, <1>2, <1>3 DEF SolidOrder, LiveStatus, OrderAt, Unreleased
<1> QED BY <1>1, <1>2, <1>4, OrderMoney, Amounts

\* An order the engine fills counts for the collateral its request will release.
LEMMA MatchMoney ==
  ASSUME Tight, NEW o \in Orders, NEW price \in Prices, Match(o, price)
  PROVE  MoneyBody'
<1>1. /\ orders[o].status = "pending"
      /\ orders' = [orders EXCEPT ![o].status = "filled", ![o].price = price, ![o].due = "row"]
      /\ UNCHANGED <<pos, available, frozen, pc, loc, pnl, fees, absorbed, gift>>
  BY DEF Match, account, books
<1>2. /\ \A q \in Orders \ {o} : orders'[q] = orders[q]
      /\ orders'[o].status = "filled" /\ orders'[o].due = "row"
      /\ orders'[o].lots = orders[o].lots /\ orders'[o].price = price
  BY <1>1 DEF Tight, TypeOK, OrderRow
<1>3. SolidOrder(o) /\ price > 0
  BY AmountAssumption DEF Tight, MoneyBody, SolidOrders
<1>4. SolidOrder(o)' /\ OrderAt(o) = 0
  BY <1>1, <1>2, <1>3 DEF SolidOrder, LiveStatus, OrderAt, Unreleased
<1>5. OrderAt(o)' = 0
  <2>1. PICK k \in Int : k = Carry(o)'
    BY CarryIntNext DEF Tight
  <2>2. OrderAt(o)' = k - k
    BY <1>2, <2>1 DEF OrderAt, Unreleased
  <2> QED BY <2>1, <2>2
<1> QED BY <1>1, <1>2, <1>4, <1>5, OrderMoney, Amounts

LEMMA UnfilledMoney ==
  ASSUME Tight, NEW o \in Orders, Unfilled(o)
  PROVE  MoneyBody'
<1>1. /\ orders[o].status = "pending"
      /\ orders' = [orders EXCEPT ![o].status = "cancelled", ![o].due = "row"]
      /\ UNCHANGED <<pos, available, frozen, pc, loc, pnl, fees, absorbed, gift>>
  BY DEF Unfilled, account, books
<1>2. /\ \A q \in Orders \ {o} : orders'[q] = orders[q]
      /\ orders'[o].status = "cancelled"
  BY <1>1 DEF Tight, TypeOK, OrderRow
<1>3. SolidOrder(o)
  BY DEF Tight, MoneyBody, SolidOrders
<1>4. SolidOrder(o)' /\ OrderAt(o) = 0 /\ OrderAt(o)' = 0
  BY <1>1, <1>2, <1>3 DEF SolidOrder, LiveStatus, OrderAt, Unreleased
<1> QED BY <1>1, <1>2, <1>4, OrderMoney, Amounts

\* An order whose request goes on, or stops, has left the book.
LEMMA DueLeft ==
  ASSUME Tight, NEW o \in Orders, orders[o].due \in {"row", "release"}
  PROVE  orders[o].status \notin {"none", "pending", "open"}
BY DEF Tight, MoneyBody, SolidOrders, SolidOrder

\* A step of the user that changes no more of an order than what is due.
LEMMA DueOwed ==
  ASSUME Tight, UNCHANGED <<pc, loc>>, NEW o \in Orders,
         \A q \in Orders \ {o} : orders'[q] = orders[q],
         orders'[o].status = orders[o].status, orders'[o].lots = orders[o].lots,
         orders'[o].price = orders[o].price, orders'[o].margin = orders[o].margin
  PROVE  AllSound' /\ OwnOrders' /\ OwedSum' = OwedSum /\ OwedSum \in Int
<1>1. \A v \in Workers : pc[v] \in TradeLabels => SameOrder(loc[v].order)
  <2>1. ASSUME NEW v \in Workers, pc[v] \in TradeLabels PROVE SameOrder(loc[v].order)
    <3>1. loc[v].order \in Orders
      BY <2>1, Applied DEF Tight
    <3> QED BY <3>1 DEF SameOrder
  <2> QED BY <2>1
<1> QED BY <1>1, UserOwed

LEMMA DueMoney ==
  ASSUME Tight, UNCHANGED <<pc, loc, pos, pnl, fees, absorbed>>, NEW o \in Orders,
         \A q \in Orders \ {o} : orders'[q] = orders[q],
         orders[o].status \notin {"none", "pending", "open"},
         orders'[o].status = orders[o].status, orders'[o].lots = orders[o].lots,
         orders'[o].price = orders[o].price, orders'[o].margin = orders[o].margin,
         frozen' >= 0,
         available' + frozen' - Unreleased(o)' - gift'
         = available + frozen - Unreleased(o) - gift
  PROVE  MoneyBody'
<1>1. SolidOrder(o)'
  BY DEF Tight, MoneyBody, SolidOrders, SolidOrder
<1>2. /\ SolidOrders' /\ OrderSum' = OrderSum + OrderAt(o)' - OrderAt(o)
      /\ OrderSum \in Int /\ OrderSum' \in Int
  BY <1>1, OrderAlone
<1>3. AllSound' /\ OwnOrders' /\ OwedSum' = OwedSum /\ OwedSum \in Int
  BY DueOwed
<1>4. SolidRows' /\ RowSum' = RowSum /\ RowSum \in Int
  BY RowsAlone
<1>5. PICK u \in Int, v \in Int : u = Unreleased(o) /\ v = Unreleased(o)'
  BY CarryInt, CarryIntNext DEF Tight
<1>6. OrderAt(o)' - OrderAt(o) = u - v
  <2>1. PICK k \in Int : k = Carry(o) /\ k = Carry(o)'
    BY CarryInt DEF Tight, Carry
  <2>2. PICK a \in Int : a = IF orders[o].status = "filled" THEN k ELSE 0
    BY <2>1
  <2>3. OrderAt(o) = a - u /\ OrderAt(o)' = a - v
    BY <1>5, <2>1, <2>2 DEF OrderAt
  <2> QED BY <1>5, <2>2, <2>3
<1>7. Reckoned'
  <2>1. OrderSum' = OrderSum + u - v
    <3>1. PICK a \in Int, b \in Int : a = OrderAt(o) /\ b = OrderAt(o)'
      BY CarryNow, CarryNext DEF AllCarry, Tight
    <3> QED BY <1>2, <1>5, <1>6, <3>1
  <2>2. available' + frozen' - v - gift' = available + frozen - u - gift
    BY <1>5
  <2>3. /\ pnl' = pnl /\ fees' = fees /\ absorbed' = absorbed
        /\ RowSum' = RowSum /\ OwedSum' = OwedSum
    BY <1>3, <1>4
  <2>4. PICK x \in Int, y \in Int : x = OrderSum /\ y = OrderSum'
    BY <1>2
  <2>5. y = x + u - v
    BY <2>1, <2>4
  <2>6. available' + frozen' + y - gift' = available + frozen + x - gift
    BY ONLY <1>5, <2>2, <2>4, <2>5, Amounts, Tight
  <2> QED BY ONLY <1>3, <1>4, <2>3, <2>4, <2>6, Amounts, Tight DEF Reckoned
<1> QED BY <1>2, <1>3, <1>4, <1>7 DEF MoneyBody

LEMMA RowWrittenMoney ==
  ASSUME Tight, NEW o \in Orders, RowWritten(o)
  PROVE  MoneyBody'
<1>1. /\ orders[o].due = "row"
      /\ orders' = [orders EXCEPT ![o].due = "release"]
      /\ UNCHANGED <<pos, available, frozen, pc, loc, pnl, fees, absorbed, gift>>
  BY DEF RowWritten, account, Tight
<1>2. /\ \A q \in Orders \ {o} : orders'[q] = orders[q]
      /\ orders'[o].status = orders[o].status /\ orders'[o].due = "release"
      /\ orders'[o].lots = orders[o].lots /\ orders'[o].price = orders[o].price
      /\ orders'[o].margin = orders[o].margin
  BY <1>1 DEF Tight, TypeOK, OrderRow
<1>3. Unreleased(o)' = Unreleased(o)
  BY <1>1, <1>2 DEF Unreleased, Carry
<1>4. orders[o].status \notin {"none", "pending", "open"}
  BY <1>1, DueLeft
<1>5. frozen' >= 0
  BY <1>1, Amounts
<1> QED BY <1>1, <1>2, <1>3, <1>4, <1>5, DueMoney

\* The release takes the collateral out of the balance: none when nothing was frozen.
LEMMA TakerReleaseMoney ==
  ASSUME Tight, NEW o \in Orders, TakerRelease(o)
  PROVE  MoneyBody'
<1>1. PICK need \in Nat, coll \in Nat, back \in Nat :
        /\ need = orders[o].need /\ coll = Collateral(orders[o])
        /\ back = Unspent(orders[o]) /\ back = AtLeastZero(need - coll)
  <2>1. orders[o] \in OrderRow
    BY DEF Tight, TypeOK
  <2>2. orders[o].need \in Nat
    BY <2>1 DEF OrderRow
  <2> QED BY <2>1, <2>2, UnspentInt DEF Unspent
<1>2. /\ orders[o].due = "release"
      /\ orders' = [orders EXCEPT ![o].due = "none", ![o].need = 0]
      /\ Move(need, back)
      /\ (IF orders[o].margin = 0 /\ frozen > 0 THEN {"drained"} ELSE {}) \subseteq leaks'
      /\ (IF orders[o].margin > 0 /\ frozen < need THEN {"short"} ELSE {}) \subseteq leaks'
      /\ (IF orders[o].margin > 0 /\ need < coll THEN {"slipped"} ELSE {}) \subseteq leaks'
      /\ gift' = gift + (IF orders[o].margin = 0 THEN back ELSE 0)
      /\ UNCHANGED <<pos, pc, loc, pnl, fees, absorbed>>
  BY <1>1 DEF TakerRelease, Settle, Tight
<1>3. /\ \A q \in Orders \ {o} : orders'[q] = orders[q]
      /\ orders'[o].status = orders[o].status /\ orders'[o].due = "none"
      /\ orders'[o].lots = orders[o].lots /\ orders'[o].price = orders[o].price
      /\ orders'[o].margin = orders[o].margin
  BY <1>2 DEF Tight, TypeOK, OrderRow
<1>4. orders[o].status \notin {"none", "pending", "open"}
  BY <1>2, DueLeft
<1>5. orders[o].margin \in Nat
  BY OrderAmounts DEF Tight
<1>6. Unreleased(o)' = 0 /\ Unreleased(o) = IF orders[o].margin > 0 THEN coll ELSE 0
  BY <1>1, <1>2, <1>3 DEF Unreleased, Carry, Collateral
<1>7. frozen' = AtLeastZero(frozen - need) /\ available' = available + back
  BY <1>2 DEF Move
<1>8. CASE orders[o].margin = 0
  <2>1. frozen = 0
    BY <1>2, <1>8, Amounts DEF Tight
  <2>2. frozen' = 0 /\ gift' = gift + back /\ Unreleased(o) = 0
    BY <1>1, <1>2, <1>6, <1>7, <1>8, <2>1 DEF AtLeastZero
  <2>3. /\ frozen' >= 0
        /\ available' + frozen' - Unreleased(o)' - gift'
           = available + frozen - Unreleased(o) - gift
    BY <1>1, <1>6, <1>7, <2>1, <2>2, Amounts
  <2> QED BY <1>2, <1>3, <1>4, <2>3, DueMoney
<1>9. CASE orders[o].margin > 0
  <2>1. frozen >= need /\ need >= coll
    BY <1>1, <1>2, <1>9, Amounts DEF Tight
  <2>2. frozen' = frozen - need /\ gift' = gift /\ Unreleased(o) = coll /\ back = need - coll
    BY <1>1, <1>2, <1>6, <1>7, <1>9, <2>1, Amounts DEF AtLeastZero
  <2>3. /\ frozen' >= 0
        /\ available' + frozen' - Unreleased(o)' - gift'
           = available + frozen - Unreleased(o) - gift
    BY <1>1, <1>6, <1>7, <2>1, <2>2, Amounts
  <2> QED BY <1>2, <1>3, <1>4, <2>3, DueMoney
<1> QED BY <1>5, <1>8, <1>9

LEMMA CancelMoney ==
  ASSUME Tight, NEW o \in Orders, Cancel(o)
  PROVE  MoneyBody'
<1>1. PICK m \in Nat : m = orders[o].margin
  BY OrderAmounts DEF Tight
<1>2. /\ orders[o].status = "open" /\ Move(m, m)
      /\ orders' = [orders EXCEPT ![o] = [NoOrder EXCEPT !.status = "cancelled"]]
      /\ (IF frozen < m THEN {"short"} ELSE {}) \subseteq leaks'
      /\ UNCHANGED <<pos, pc, loc, pnl, fees, absorbed, gift>>
  BY <1>1 DEF Cancel
<1>3. frozen >= m
  BY <1>2, Amounts DEF Tight
<1>4. /\ \A q \in Orders \ {o} : orders'[q] = orders[q]
      /\ orders'[o].status = "cancelled"
  BY <1>2 DEF Tight, TypeOK, NoOrder
<1>5. SolidOrder(o)
  BY DEF Tight, MoneyBody, SolidOrders
<1>6. SolidOrder(o)' /\ OrderAt(o) = 0 /\ OrderAt(o)' = 0
  BY <1>2, <1>4, <1>5 DEF SolidOrder, LiveStatus, OrderAt, Unreleased
<1>7. frozen' = frozen - m /\ available' = available + m
  BY <1>2, <1>3, Amounts DEF Move, AtLeastZero
<1> QED BY <1>2, <1>3, <1>4, <1>6, <1>7, OrderMoney, Amounts

LEMMA FillMoney ==
  ASSUME Tight, NEW o \in Orders, Fill(o)
  PROVE  MoneyBody'
<1>1. PICK m, b : m = Margin(orders[o].lots * orders[o].price)
                  /\ b = Buffer(orders[o].lots * orders[o].price)
  OBVIOUS
<1>2. /\ m \in Nat /\ b \in Nat
      /\ (orders[o].lots * orders[o].price) \div Leverage = m - b
      /\ (orders[o].lots * orders[o].price) \div Leverage \in Nat
  BY <1>1, OrderAmounts, BufferNat, QuotientNat, AmountAssumption DEF Tight, Margin
<1>3. /\ orders[o].status \in {"pending", "open"}
      /\ orders' = [orders EXCEPT ![o].status = "filled", ![o].need = 0]
      /\ Move(m, b)
      /\ gift' = gift + (IF orders[o].margin = 0 THEN b ELSE 0)
      /\ (IF orders[o].margin = 0 /\ frozen > 0 THEN {"drained"} ELSE {}) \subseteq leaks'
      /\ (IF orders[o].margin > 0 /\ frozen < m THEN {"short"} ELSE {}) \subseteq leaks'
      /\ UNCHANGED <<pos, pc, loc, pnl, fees, absorbed>>
  BY <1>1 DEF Fill
<1>4. /\ \A q \in Orders \ {o} : orders'[q] = orders[q]
      /\ orders'[o].status = "filled" /\ orders'[o].due = orders[o].due
      /\ orders'[o].lots = orders[o].lots /\ orders'[o].price = orders[o].price
      /\ orders'[o].margin = orders[o].margin
  BY <1>3 DEF Tight, TypeOK, OrderRow
<1>5. SolidOrder(o)
  BY DEF Tight, MoneyBody, SolidOrders
<1>6. PICK k \in Int : k = Carry(o) /\ k = Carry(o)'
  BY <1>4, CarryInt DEF Tight, Carry
<1>7. SolidOrder(o)' /\ OrderAt(o) = 0 /\ OrderAt(o)' = k
  BY <1>3, <1>4, <1>5, <1>6 DEF SolidOrder, LiveStatus, OrderAt, Unreleased
<1>8. frozen' = AtLeastZero(frozen - m) /\ available' = available + b
  BY <1>3 DEF Move
<1>9. orders[o].margin \in Nat
  BY OrderAmounts DEF Tight
<1>10. CASE orders[o].margin = 0
  <2>1. frozen = 0
    BY <1>3, <1>10, Amounts DEF Tight
  <2>2. frozen' = 0 /\ gift' = gift + b
    BY <1>2, <1>3, <1>8, <1>10, <2>1 DEF AtLeastZero
  <2>3. k = 0
    BY <1>6, <1>10 DEF Carry
  <2>4. /\ frozen' >= 0
        /\ available' + frozen' + OrderAt(o)' - gift'
           = available + frozen + OrderAt(o) - gift
    BY <1>2, <1>7, <1>8, <2>1, <2>2, <2>3, Amounts
  <2> QED BY <1>3, <1>4, <1>7, <2>4, OrderMoney
<1>11. CASE orders[o].margin > 0
  <2>1. frozen >= m
    BY <1>2, <1>3, <1>11, Amounts DEF Tight
  <2>2. frozen' = frozen - m /\ gift' = gift
    BY <1>2, <1>3, <1>8, <1>11, <2>1, Amounts DEF AtLeastZero
  <2>3. k = m - b
    BY <1>2, <1>6, <1>11 DEF Carry
  <2>4. /\ frozen' >= 0
        /\ available' + frozen' + OrderAt(o)' - gift'
           = available + frozen + OrderAt(o) - gift
    BY <1>2, <1>7, <1>8, <2>1, <2>2, <2>3, Amounts
  <2> QED BY <1>3, <1>4, <1>7, <2>4, OrderMoney
<1> QED BY <1>9, <1>10, <1>11

LEMMA FloorSplit == ASSUME NEW n \in Int PROVE AtLeastZero(n) = n + AtLeastZero(-n)
BY DEF AtLeastZero

\* A row cut by c, or shut when c is all of it.
LEMMA RowCut ==
  ASSUME Tight, NEW d \in Pids, IsOpen(d), NEW c \in Int, c <= pos[d].size,
         NEW row, pos' = [pos EXCEPT ![d] = row],
         \/ c = pos[d].size /\ row.status \in {"closed", "liquidated"}
         \/ /\ c # pos[d].size /\ row.status = "open" /\ row.size = pos[d].size - c
            /\ row.coll = pos[d].coll - Share(pos[d].coll, c, pos[d].size)
  PROVE  /\ SolidRows' /\ RowSum \in Int /\ RowSum' \in Int
         /\ RowSum' = RowSum - Share(pos[d].coll, c, pos[d].size)
         /\ pos[d].size > 0 /\ pos[d].coll >= 0
         /\ Share(pos[d].coll, c, pos[d].size) \in Int
<1>1. /\ pos[d].size > 0 /\ pos[d].coll >= 0 /\ pos[d] \in Row
      /\ pos[d].size \in Int /\ pos[d].coll \in Int
  <2>1. pos[d] \in Row /\ SolidRow(d)
    BY DEF Tight, TypeOK, MoneyBody, SolidRows
  <2> QED BY <2>1, RowFields DEF SolidRow, IsOpen
<1>2. PICK size, coll : size = pos[d].size /\ coll = pos[d].coll
  OBVIOUS
<1>3. PICK s \in Int : s = Share(coll, c, size)
  BY <1>1, <1>2, ShareInt
<1>4. (\A p \in Pids \ {d} : pos'[p] = pos[p]) /\ pos'[d] = row
  BY DEF Tight, TypeOK
<1>5. SolidRow(d)' /\ RowAt(d)' = RowAt(d) - s /\ RowAt(d) = coll
  <2>1. RowAt(d) = coll
    BY <1>2 DEF RowAt, IsOpen
  <2>2. CASE c = pos[d].size /\ row.status \in {"closed", "liquidated"}
    <3>1. s = coll
      BY <1>1, <1>2, <1>3, <2>2, ShareWhole
    <3>2. RowAt(d)' = 0 /\ SolidRow(d)'
      BY <1>4, <2>2 DEF RowAt, SolidRow
    <3> QED BY <1>1, <1>2, <2>1, <3>1, <3>2
  <2>3. CASE /\ c # pos[d].size /\ row.status = "open" /\ row.size = pos[d].size - c
             /\ row.coll = pos[d].coll - Share(pos[d].coll, c, pos[d].size)
    <3>1. s <= coll
      BY <1>1, <1>2, <1>3, ShareLess
    <3>2. row.coll = coll - s /\ row.size = size - c
      BY <1>2, <1>3, <2>3
    <3>3. row.coll >= 0 /\ row.size > 0
      BY <1>1, <1>2, <2>3, <3>1, <3>2
    <3> QED BY <1>4, <2>1, <2>3, <3>2, <3>3 DEF RowAt, SolidRow
  <2> QED BY <2>2, <2>3
<1>6. /\ SolidRows' /\ RowSum' = RowSum + RowAt(d)' - RowAt(d)
      /\ RowSum \in Int /\ RowSum' \in Int
  BY <1>4, <1>5, RowAlone
<1> QED BY <1>1, <1>2, <1>3, <1>5, <1>6

\* What the books of a close say.
LEMMA BookSays ==
  ASSUME Tight, NEW p \in Pids, NEW row \in Row, NEW c \in Int, NEW price \in Nat,
         Book(p, row, c, price)
  PROVE  /\ AtLeastZero(Payout(row, c, price)) \in Nat
         /\ AtLeastZero(Payout(row, c, price)) - Share(row.coll, c, row.size)
            = (pnl' - pnl) - (fees' - fees) + (absorbed' - absorbed)
<1>1. PICK g \in Int, h \in Int, s \in Int :
        g = Gain(row, c, price) /\ h = Charge(row, c) /\ s = Share(row.coll, c, row.size)
  BY BookInt, RowFields, ShareInt
<1>2. Payout(row, c, price) = s + g - h
  BY <1>1 DEF Payout
<1>3. PICK lost \in Nat : lost = AtLeastZero(-(s + g - h))
  BY <1>1, FloorNat
<1>4. pnl' = pnl + g /\ fees' = fees + h /\ absorbed' = absorbed + lost
  BY <1>1, <1>2, <1>3 DEF Book
<1>5. AtLeastZero(s + g - h) = (s + g - h) + lost /\ AtLeastZero(s + g - h) \in Nat
  BY <1>1, <1>3, FloorSplit, FloorNat
<1> QED BY <1>1, <1>2, <1>3, <1>4, <1>5, Amounts

LEMMA CloseHandlerMoney ==
  ASSUME Tight, NEW p \in Pids, NEW n \in Lots, NEW price \in Prices,
         CloseHandler(p, n, price)
  PROVE  MoneyBody'
<1>1. PICK row \in Row : row = pos[p]
  BY DEF Tight, TypeOK
<1>2. n \in Int /\ n >= 0 /\ price \in Nat
  BY AmountAssumption
<1>3. IsOpen(p) /\ row.size > 0 /\ row.coll >= 0
      /\ row.size \in Int /\ row.coll \in Int /\ row.tokens \in Int
  <2>1. row.status = "open"
    BY <1>1 DEF CloseHandler
  <2>2. SolidRow(p)
    BY DEF Tight, MoneyBody, SolidRows
  <2> QED BY <1>1, <2>1, <2>2, RowFields DEF SolidRow, IsOpen
<1>4. PICK c \in Int : c = HandlerCloses(row, n)
  BY <1>2, CloseAmounts
<1>5. c >= 0 /\ c <= row.size
  <2>1. Share(row.size, n, row.tokens) \in Nat
    <3>1. PICK a, t : a = row.size /\ t = row.tokens
      OBVIOUS
    <3>2. a \in Int /\ a >= 0 /\ t \in Int
      BY <1>3, <3>1
    <3>3. PICK k : k = n
      OBVIOUS
    <3>4. k \in Int /\ k >= 0
      BY <1>2, <3>3
    <3>5. Share(a, k, t) \in Nat
      BY <3>2, <3>4, ShareNat
    <3> QED BY <3>1, <3>3, <3>5
  <2> QED BY <1>3, <1>4, <2>1 DEF HandlerCloses, Least
<1>6. PICK out : out = Share(row.coll, c, row.size) + Buffer(c)
  OBVIOUS
<1>7. out \in Nat
  <2>1. PICK a, t : a = row.coll /\ t = row.size
    OBVIOUS
  <2>2. Share(a, c, t) \in Nat
    BY <1>3, <1>5, <2>1, ShareNat
  <2>3. Buffer(c) \in Nat
    BY <1>5, BufferNat
  <2> QED BY <1>6, <2>1, <2>2, <2>3
<1>8. PICK left : left = (OpenRows \ (IF c = row.size THEN {p} ELSE {}) # {})
  OBVIOUS
<1>9. PICK paid : paid = AtLeastZero(Payout(row, c, price))
  OBVIOUS
<1>10. PICK rest : rest = IF c = row.size /\ ~left THEN AtLeastZero(Residual(left) - out) ELSE 0
  OBVIOUS
<1>11. /\ pos' = [pos EXCEPT ![p] = IF c = row.size THEN HandlerShut(row) ELSE HandlerCut(row, c)]
       /\ Book(p, row, c, price)
       /\ Move(out + rest, paid + rest)
       /\ (IF frozen > 0 THEN {"drained"} ELSE {}) \subseteq leaks'
       /\ UNCHANGED <<orders, pc, loc, gift>>
  BY <1>1, <1>4, <1>6, <1>8, <1>9, <1>10 DEF CloseHandler
<1>12. frozen = 0
  BY <1>11, Amounts DEF Tight
<1>13. rest = 0
  BY <1>7, <1>10, <1>12 DEF Residual, AtLeastZero
<1>14. paid \in Nat /\ paid - Share(row.coll, c, row.size)
                       = (pnl' - pnl) - (fees' - fees) + (absorbed' - absorbed)
  BY <1>2, <1>9, <1>11, BookSays
<1>15. frozen' = 0 /\ available' = available + paid
  BY <1>7, <1>11, <1>12, <1>13, <1>14 DEF Move, AtLeastZero
<1>16. PICK new : new = IF c = row.size THEN HandlerShut(row) ELSE HandlerCut(row, c)
  OBVIOUS
<1>17. \/ c = row.size /\ new.status \in {"closed", "liquidated"}
       \/ /\ c # row.size /\ new.status = "open" /\ new.size = row.size - c
          /\ new.coll = row.coll - Share(row.coll, c, row.size)
  BY <1>1, <1>3, <1>16, RowStatus, CutFields DEF IsOpen
<1>18. /\ SolidRows' /\ RowSum \in Int /\ RowSum' \in Int
       /\ RowSum' = RowSum - Share(row.coll, c, row.size)
       /\ Share(row.coll, c, row.size) \in Int
  BY <1>1, <1>3, <1>5, <1>11, <1>16, <1>17, RowCut
<1>19. AllSound' /\ OwnOrders' /\ OwedSum' = OwedSum /\ OwedSum \in Int
  BY <1>11, UserOwed DEF SameOrder
<1>20. SolidOrders' /\ OrderSum' = OrderSum /\ OrderSum \in Int
  BY <1>11, OrdersAlone
<1>21. PICK s \in Int : s = Share(row.coll, c, row.size)
  BY <1>18
<1>22. Reckoned'
  BY <1>11, <1>12, <1>14, <1>15, <1>18, <1>19, <1>20, <1>21, Amounts DEF Reckoned
<1> QED BY <1>15, <1>18, <1>19, <1>20, <1>22 DEF MoneyBody

LEMMA UserMoney == Tight /\ User => MoneyBody'
BY PlaceMoney, RestMoney, MatchMoney, UnfilledMoney, RowWrittenMoney, TakerReleaseMoney,
   CancelMoney, FillMoney, CloseHandlerMoney DEF User, Answered

-----------------------------------------------------------------------------
(* The workers' steps keep the money. *)

\* Whoever else applies an order applies another one.
LEMMA Others ==
  ASSUME Tight, NEW w \in Workers, pc[w] \in TradeLabels
  PROVE  /\ loc[w].order \in Orders /\ orders[loc[w].order].status = "applying"
         /\ loc[w].order # None
         /\ \A v \in Workers \ {w} : pc[v] \in TradeLabels =>
               loc[v].order \in Orders /\ loc[v].order # loc[w].order
<1>1. MoneyBody /\ TypeOK
  BY DEF Tight
<1>2. loc[w].order \in Orders /\ orders[loc[w].order].status = "applying"
  BY <1>1, Applied
<1>3. \A v \in Workers \ {w} : pc[v] \in TradeLabels =>
               loc[v].order \in Orders /\ loc[v].order # loc[w].order
  BY <1>1, Applied DEF MoneyBody, OwnOrders
<1> QED BY <1>2, <1>3, IdAssumption

\* A worker that goes on inside its leg, or stays outside of one.
LEMMA QuietOwed ==
  ASSUME Tight, NEW w \in Workers, Frame(w), Sound(w)', orders' = orders,
         pc'[w] \in TradeLabels => pc[w] \in TradeLabels /\ loc'[w].order = loc[w].order
  PROVE  /\ AllSound' /\ OwnOrders'
         /\ OwedSum' = OwedSum + OwedAt(w)' - OwedAt(w)
         /\ OwedSum \in Int /\ OwedSum' \in Int /\ OwedAt(w) \in Int /\ OwedAt(w)' \in Int
<1>1. pc[w] \in TradeLabels => \A v \in Workers \ {w} : pc[v] \in TradeLabels =>
         loc[v].order # loc[w].order
  BY Others
<1> QED BY <1>1, StepOwed

\* A step that moves no money and no order, after which the worker is owed as much.
LEMMA QuietMoney ==
  ASSUME Tight, NEW w \in Workers, Frame(w), Sound(w)', OwedAt(w)' = OwedAt(w),
         pc'[w] \in TradeLabels => pc[w] \in TradeLabels /\ loc'[w].order = loc[w].order,
         UNCHANGED <<pos, orders, available, frozen, pnl, fees, absorbed, gift>>
  PROVE  MoneyBody'
<1>1. /\ AllSound' /\ OwnOrders' /\ OwedSum' = OwedSum + OwedAt(w)' - OwedAt(w)
      /\ OwedSum \in Int /\ OwedAt(w) \in Int
  BY QuietOwed
<1>2. SolidRows' /\ RowSum' = RowSum /\ RowSum \in Int
  BY RowsAlone
<1>3. SolidOrders' /\ OrderSum' = OrderSum /\ OrderSum \in Int
  BY OrdersAlone
<1>4. Reckoned' /\ frozen' >= 0
  BY <1>1, <1>2, <1>3, Amounts DEF Reckoned
<1> QED BY <1>1, <1>2, <1>3, <1>4 DEF MoneyBody

LEMMA ApplyMoney ==
  ASSUME Tight, NEW w \in Workers, NEW o \in Orders, Apply(w, o)
  PROVE  MoneyBody'
<1>1. /\ pc[w] = "idle" /\ orders[o].status = "filled" /\ TypeOK
      /\ orders' = [orders EXCEPT ![o].status = "applying"]
      /\ loc' = [loc EXCEPT ![w] = [NoLoc EXCEPT !.order = o, !.side = orders[o].side,
                                   !.lots = orders[o].lots, !.price = orders[o].price]]
      /\ pc' = [pc EXCEPT ![w] = "opposing"]
      /\ UNCHANGED <<pos, available, frozen, pnl, fees, absorbed, gift>>
  BY DEF Tight, Apply, Goto, account, books
<1>2. Frame(w) /\ pc'[w] = "opposing"
  BY <1>1 DEF Frame, TypeOK
<1>3. loc'[w].order = o /\ loc'[w].lots = orders[o].lots /\ loc'[w].price = orders[o].price
  BY <1>1 DEF TypeOK, NoLoc
<1>4. /\ \A q \in Orders \ {o} : orders'[q] = orders[q]
      /\ orders'[o].status = "applying" /\ Carry(o)' = Carry(o)
      /\ SolidOrders' /\ OrderSum' = OrderSum + InOrder(o)' - InOrder(o)
      /\ OrderSum \in Int /\ Carry(o) \in Int
  BY <1>1, StatusOnly DEF LiveStatus
<1>5. orders'[o].lots = orders[o].lots /\ orders'[o].price = orders[o].price
  BY <1>1 DEF TypeOK, OrderRow
<1>6. o # None
  BY IdAssumption
<1>7. Sound(w)'
  BY <1>2, <1>3, <1>4, <1>5, <1>6 DEF Sound, ByTrade
<1>8. \A v \in Workers \ {w} : pc[v] \in TradeLabels =>
         /\ orders'[loc[v].order] = orders[loc[v].order] /\ loc[v].order # o
  BY <1>1, <1>4, Applied DEF Tight
<1>9. /\ AllSound' /\ OwnOrders' /\ OwedSum' = OwedSum + OwedAt(w)' - OwedAt(w)
      /\ OwedSum \in Int
  BY <1>2, <1>3, <1>7, <1>8, StepOwed
<1>10. InOrder(o) = Carry(o) /\ InOrder(o)' = 0
  BY <1>1, <1>4 DEF InOrder
<1>11. OwedAt(w) = 0 /\ OwedAt(w)' = Carry(o)
  <2>1. OwedAt(w)' = Carry(loc[w].order)' + 0
    BY <1>2 DEF OwedAt, CarryLabels, TradeLabels
  <2>2. Carry(loc[w].order)' = Carry(o)'
    BY <1>3
  <2> QED BY <1>1, <1>4, <2>1, <2>2 DEF OwedAt, CarryLabels, TradeLabels
<1>12. SolidRows' /\ RowSum' = RowSum /\ RowSum \in Int
  BY <1>1, RowsAlone
<1>13. Reckoned' /\ frozen' >= 0
  BY <1>1, <1>4, <1>9, <1>10, <1>11, <1>12, Amounts DEF Reckoned
<1> QED BY <1>4, <1>9, <1>12, <1>13 DEF MoneyBody

\* The calls that only read.
LEMMA CallMoney ==
  ASSUME Tight, NEW w \in Workers, Call(w)
  PROVE  MoneyBody'
<1>1. Frame(w) /\ pc[w] = "idle" /\ TypeOK
  BY CallFrame DEF Tight
<1>2. CASE \E o \in Orders : Apply(w, o)
  BY <1>2, ApplyMoney
<1>3. ASSUME NEW side \in Sides, NEW n \in Lots, NEW price \in Prices, OpenCall(w, side, n, price)
      PROVE  MoneyBody'
  <2>1. pc'[w] = "freeze"
        /\ UNCHANGED <<pos, orders, available, frozen, pnl, fees, absorbed, gift>>
    BY <1>1, <1>3 DEF OpenCall, Goto, TypeOK, account, books
  <2>2. Sound(w)' /\ OwedAt(w)' = OwedAt(w)
    BY <1>1, <2>1 DEF Sound, OwedAt, CarryLabels, TradeLabels
  <2> QED BY <1>1, <2>1, <2>2, QuietMoney DEF TradeLabels
<1>4. ASSUME NEW p \in Pids, Add(w, p) \/ FundList(w, p)
      PROVE  MoneyBody'
  <2>1. pc'[w] \in {"addfreeze", "fund"}
        /\ UNCHANGED <<pos, orders, available, frozen, pnl, fees, absorbed, gift>>
    BY <1>1, <1>4 DEF Add, FundList, Goto, TypeOK, account, books
  <2>2. Sound(w)' /\ OwedAt(w)' = OwedAt(w)
    BY <1>1, <2>1 DEF Sound, OwedAt, CarryLabels, TradeLabels
  <2> QED BY <1>1, <2>1, <2>2, QuietMoney DEF TradeLabels
<1>5. ASSUME NEW p \in Pids, NEW price \in Prices, Scan(w, p, price)
      PROVE  MoneyBody'
  <2>1. pc'[w] = "liquidate"
        /\ UNCHANGED <<pos, orders, available, frozen, pnl, fees, absorbed, gift>>
    BY <1>1, <1>5 DEF Scan, Goto, TypeOK, account, books
  <2>2. Sound(w)' /\ OwedAt(w)' = OwedAt(w)
    BY <1>1, <2>1 DEF Sound, OwedAt, CarryLabels, TradeLabels
  <2> QED BY <1>1, <2>1, <2>2, QuietMoney DEF TradeLabels
<1>6. ASSUME NEW p \in Pids, NEW price \in Prices, Remove(w, p, price)
      PROVE  MoneyBody'
  <2>1. /\ pc'[w] = "removewrite" /\ pos[p].status = "open"
        /\ loc' = [loc EXCEPT ![w] = [NoLoc EXCEPT !.pid = p, !.coll = MinCollateral, !.row = pos[p]]]
        /\ [pos[p] EXCEPT !.coll = @ - MinCollateral].coll >= MinCollateral
        /\ UNCHANGED <<pos, orders, available, frozen, pnl, fees, absorbed, gift>>
    BY <1>1, <1>6 DEF Remove, Goto, TypeOK, account, books
  <2>2. pos[p] \in Row /\ pos[p].coll \in Int
    BY <1>1, RowFields DEF TypeOK
  <2>3. pos[p].coll - MinCollateral >= MinCollateral
    BY <2>1, <2>2 DEF Row
  <2>4. loc'[w].row = pos[p] /\ loc'[w].coll = MinCollateral
    BY <1>1, <2>1 DEF TypeOK, NoLoc
  <2>5. MinCollateral >= 0 /\ pos[p].coll >= MinCollateral
    BY <2>2, <2>3, AmountAssumption
  <2>6. Sound(w)'
    BY <2>1, <2>4, <2>5 DEF Sound, CarryLabels, TradeLabels
  <2>7. OwedAt(w)' = OwedAt(w)
    BY <1>1, <2>1 DEF OwedAt, CarryLabels, TradeLabels
  <2> QED BY <1>1, <2>1, <2>6, <2>7, QuietMoney DEF TradeLabels
<1> QED BY <1>2, <1>3, <1>4, <1>5, <1>6 DEF Call

LEMMA TightParts ==
  ASSUME Tight, NEW w \in Workers
  PROVE  /\ TypeOK /\ TypeOK' /\ Ready /\ MoneyBody /\ Sound(w) /\ Knows(w)
         /\ leaks = {} /\ leaks' = {}
BY DEF Tight, MoneyBody, AllSound, Inv, AllKnow

\* While nothing leaks these statements are not reached, or would leak.
LEMMA NotTaken ==
  ASSUME Tight, NEW w \in Workers
  PROVE  /\ ~Freeze(w) /\ ~AddFreeze(w) /\ ~OpenLock(w) /\ ~Thaw(w)
         /\ ~IncomingRelease(w) /\ ~AddRead(w) /\ ~AddWrite(w)
BY TightParts DEF Sound, Freeze, AddFreeze, OpenLock, Thaw, IncomingRelease, AddRead, AddWrite

\* A worker inside its leg whose order, amount and price stay.
LEMMA GoesOn ==
  ASSUME Tight, NEW w \in Workers, Frame(w), pc[w] \in CarryLabels \ {"release"},
         pc'[w] \in CarryLabels \ {"release"},
         loc'[w].order = loc[w].order, loc'[w].lots = loc[w].lots, loc'[w].price = loc[w].price,
         pc'[w] = "write" => loc'[w].want <= loc'[w].row.size,
         pc'[w] = "store" /\ loc'[w].pid = None => loc'[w].row = NoRow,
         UNCHANGED <<pos, orders, available, frozen, pnl, fees, absorbed, gift>>
  PROVE  MoneyBody'
<1>1. Sound(w)
  BY TightParts
<1>2. Sound(w)'
  BY <1>1 DEF Sound, ByTrade, CarryLabels, TradeLabels
<1>3. OwedAt(w)' = OwedAt(w)
  <2>1. Carry(loc[w].order)' = Carry(loc[w].order)
    BY DEF Carry
  <2>2. PICK c : c = Carry(loc[w].order) /\ c = Carry(loc[w].order)'
    BY <2>1
  <2>3. OwedAt(w) = c + 0
    BY <2>2 DEF OwedAt, CarryLabels, TradeLabels
  <2>4. OwedAt(w)' = c + 0
    BY <2>2 DEF OwedAt, CarryLabels, TradeLabels
  <2> QED BY <2>3, <2>4
<1> QED BY <1>2, <1>3, QuietMoney DEF CarryLabels

LEMMA OpposingMoney ==
  ASSUME Tight, NEW w \in Workers, Opposing(w)
  PROVE  MoneyBody'
<1>1. Frame(w) /\ pc[w] = "opposing" /\ TypeOK /\ loc[w] \in Locals
      /\ UNCHANGED <<pos, orders, available, frozen, pnl, fees, absorbed, gift>>
  BY ZenonT(40), StepFrame, TightParts, LocFields DEF Step, Proceed, Opposing, account, books
<1>2. pc'[w] \in {"same", "decrease"}
  BY <1>1 DEF Opposing, Goto, TypeOK
<1>3. /\ loc'[w].order = loc[w].order /\ loc'[w].lots = loc[w].lots
      /\ loc'[w].price = loc[w].price
  <2>1. CASE UNCHANGED loc
    BY <2>1
  <2>2. CASE ~UNCHANGED loc
    <3>1. PICK p \in Open(Opposite(loc[w].side)) :
            LET row  == pos[p]
                flip == row.tokens < loc[w].lots
                want == IF flip \/ row.tokens = loc[w].lots THEN row.size
                        ELSE Share(row.size, loc[w].lots, row.tokens)
            IN loc' = [loc EXCEPT ![w].pid = p, ![w].flip = flip, ![w].want = want, ![w].snap = row]
      BY <2>2 DEF Opposing
    <3> QED BY SMTT(30), <1>1, <3>1 DEF TypeOK, Locals
  <2> QED BY <2>1, <2>2
<1> QED BY SMTT(30), <1>1, <1>2, <1>3, GoesOn DEF CarryLabels, TradeLabels

\* A trade's leg that fails puts its order back.
LEMMA FailMoney ==
  ASSUME Tight, NEW w \in Workers, Frame(w), pc[w] \in CarryLabels \ {"release"}, Fail(w),
         UNCHANGED <<pos, available, frozen, pnl, fees, absorbed, gift>>
  PROVE  MoneyBody'
<1>1. TypeOK /\ Sound(w) /\ pc[w] \in TradeLabels
  BY TightParts DEF CarryLabels
<1>2. PICK o \in Orders : o = loc[w].order
  BY <1>1, Others
<1>3. /\ orders[o].status = "applying" /\ o # None
      /\ \A v \in Workers \ {w} : pc[v] \in TradeLabels => loc[v].order \in Orders /\ loc[v].order # o
  BY <1>1, <1>2, Others
<1>4. /\ orders' = [orders EXCEPT ![o].status = "filled"]
      /\ pc'[w] = "idle"
  BY <1>1, <1>2, <1>3 DEF Fail, ByTrade, Finish, Goto, TypeOK
<1>5. /\ \A q \in Orders \ {o} : orders'[q] = orders[q]
      /\ orders'[o].status = "filled" /\ Carry(o)' = Carry(o)
      /\ SolidOrders' /\ OrderSum' = OrderSum + InOrder(o)' - InOrder(o)
      /\ OrderSum \in Int /\ Carry(o) \in Int
  BY <1>3, <1>4, StatusOnly DEF LiveStatus
<1>6. Sound(w)'
  BY <1>4 DEF Sound, CarryLabels, TradeLabels
<1>7. /\ AllSound' /\ OwnOrders' /\ OwedSum' = OwedSum + OwedAt(w)' - OwedAt(w)
      /\ OwedSum \in Int
  BY <1>3, <1>4, <1>5, <1>6, StepOwed DEF TradeLabels
<1>8. InOrder(o) = 0 /\ InOrder(o)' = Carry(o)
  BY <1>3, <1>5 DEF InOrder
<1>9. OwedAt(w) = Carry(o) /\ OwedAt(w)' = 0
  <2>1. PICK c : c = Carry(o)
    OBVIOUS
  <2>2. OwedAt(w) = c + 0
    BY <1>2, <2>1 DEF OwedAt, CarryLabels, TradeLabels
  <2> QED BY <1>4, <1>5, <2>1, <2>2 DEF OwedAt, CarryLabels, TradeLabels
<1>10. SolidRows' /\ RowSum' = RowSum /\ RowSum \in Int
  BY RowsAlone
<1>11. Reckoned' /\ frozen' >= 0
  BY <1>5, <1>7, <1>8, <1>9, <1>10, Amounts DEF Reckoned
<1> QED BY <1>5, <1>7, <1>10, <1>11 DEF MoneyBody

LEMMA DecreaseMoney ==
  ASSUME Tight, NEW w \in Workers, Decrease(w)
  PROVE  MoneyBody'
<1>1. Frame(w) /\ pc[w] = "decrease" /\ TypeOK /\ loc[w] \in Locals /\ loc[w].pid \in Pids
      /\ UNCHANGED <<pos, available, frozen, pnl, fees, absorbed, gift>>
  BY StepFrame, TightParts, LocFields DEF Step, Proceed, Decrease, account, books, Ready, PidLabels
<1>2. CASE pos[loc[w].pid].status # "open"
  BY <1>1, <1>2, FailMoney DEF Decrease, CarryLabels, TradeLabels
<1>3. CASE pos[loc[w].pid].status = "open"
  <2>1. PICK row \in Row : row = pos[loc[w].pid]
    BY <1>1 DEF TypeOK
  <2>2. PICK c : c = IF loc[w].flip THEN row.size ELSE Closed(row, loc[w].want, loc[w].price)
    OBVIOUS
  <2>3. c <= row.size
    BY <2>2, LocFields, <1>1, RowFields DEF Closed, Least
  <2>4. /\ loc' = [loc EXCEPT ![w].row = row, ![w].want = c]
        /\ pc'[w] = "write" /\ orders' = orders
    BY <1>1, <1>3, <2>1, <2>2 DEF Decrease, Goto, TypeOK
  <2>5. /\ loc'[w].order = loc[w].order /\ loc'[w].lots = loc[w].lots
        /\ loc'[w].price = loc[w].price /\ loc'[w].row = row /\ loc'[w].want = c
    BY <1>1, <2>4 DEF TypeOK, Locals
  <2> QED BY <1>1, <2>3, <2>4, <2>5, GoesOn DEF CarryLabels, TradeLabels
<1> QED BY <1>2, <1>3

LEMMA WriteMoney ==
  ASSUME Tight, NEW w \in Workers, Write(w)
  PROVE  MoneyBody'
<1>1. Frame(w) /\ pc[w] = "write" /\ TypeOK /\ loc[w] \in Locals
      /\ Sound(w) /\ Knows(w) /\ leaks' = {}
      /\ UNCHANGED <<orders, available, frozen, gift>>
  BY StepFrame, TightParts, LocFields DEF Step, Proceed, Write, account
<1>2. PICK d \in Pids, row \in Row, c \in Int, price \in Nat :
        d = loc[w].pid /\ row = loc[w].row /\ c = loc[w].want /\ price = loc[w].price
  BY <1>1, TightParts, LocFields DEF Ready, PidLabels
<1>3. PICK back : back = AtLeastZero(Payout(row, c, price))
  OBVIOUS
<1>4. PICK new : new = IF c = row.size THEN Shut(row) ELSE Cut(row, c)
  OBVIOUS
<1>5. /\ pos' = [pos EXCEPT ![d] = new]
      /\ Book(d, row, c, price) /\ Stale(d, row) \subseteq leaks'
      /\ loc' = [loc EXCEPT ![w].whole = (c = row.size), ![w].returned = back]
      /\ pc'[w] = "release"
  BY <1>1, <1>2, <1>3, <1>4 DEF Write, Goto, TypeOK
<1>6. pos[d] = row
  BY <1>1, <1>5, NotStale DEF NoStaleWrite
<1>7. IsOpen(d) /\ row.status = "open" /\ c <= row.size
  BY <1>1, <1>2, <1>6 DEF Knows, Sound, IsOpen
<1>8. \/ c = row.size /\ new.status \in {"closed", "liquidated"}
      \/ /\ c # row.size /\ new.status = "open" /\ new.size = row.size - c
         /\ new.coll = row.coll - Share(row.coll, c, row.size)
  BY <1>4, <1>7, RowStatus, CutFields
<1>9. /\ SolidRows' /\ RowSum \in Int /\ RowSum' \in Int
      /\ RowSum' = RowSum - Share(row.coll, c, row.size)
      /\ Share(row.coll, c, row.size) \in Int
  BY <1>5, <1>6, <1>7, <1>8, RowCut
<1>10. PICK s \in Int : s = Share(row.coll, c, row.size)
  BY <1>9
<1>11. back \in Nat /\ back - s = (pnl' - pnl) - (fees' - fees) + (absorbed' - absorbed)
  BY <1>3, <1>5, <1>10, BookSays
<1>12. /\ loc'[w].order = loc[w].order /\ loc'[w].lots = loc[w].lots
       /\ loc'[w].price = loc[w].price /\ loc'[w].returned = back
  BY <1>1, <1>5 DEF TypeOK, Locals
<1>13. Sound(w)'
  BY <1>1, <1>5, <1>12 DEF Sound, ByTrade, CarryLabels, TradeLabels
<1>14. /\ AllSound' /\ OwnOrders' /\ OwedSum' = OwedSum + OwedAt(w)' - OwedAt(w)
       /\ OwedSum \in Int
  BY <1>1, <1>5, <1>12, <1>13, QuietOwed DEF TradeLabels
<1>15. PICK k \in Int : k = Carry(loc[w].order) /\ k = Carry(loc[w].order)'
  <2>1. Carry(loc[w].order)' = Carry(loc[w].order)
    BY <1>1, <1>12 DEF Carry
  <2>2. loc[w].order \in Orders
    BY <1>1, Others DEF TradeLabels
  <2> QED BY <1>1, <2>1, <2>2, CarryInt
<1>16. OwedAt(w) = k /\ OwedAt(w)' = k + back
  <2>1. OwedAt(w) = k + 0
    BY <1>1, <1>15 DEF OwedAt, CarryLabels, TradeLabels
  <2>2. OwedAt(w)' = k + back
    BY <1>5, <1>12, <1>15 DEF OwedAt, CarryLabels, TradeLabels
  <2> QED BY <1>15, <2>1, <2>2
<1>17. SolidOrders' /\ OrderSum' = OrderSum /\ OrderSum \in Int
  BY <1>1, OrdersAlone
<1>18. Reckoned' /\ frozen' >= 0
  BY <1>1, <1>9, <1>10, <1>11, <1>14, <1>15, <1>16, <1>17, Amounts DEF Reckoned
<1> QED BY <1>9, <1>14, <1>17, <1>18 DEF MoneyBody

\* A worker inside its leg passes to a statement that owes nothing.
LEMMA EndsOwed ==
  ASSUME Tight, NEW w \in Workers, Frame(w), orders' = orders,
         pc[w] \in TradeLabels, pc'[w] \in {"clean", "fee"}, loc'[w].order = loc[w].order
  PROVE  /\ AllSound' /\ OwnOrders' /\ OwedSum' = OwedSum - OwedAt(w)
         /\ OwedSum \in Int /\ OwedSum' \in Int /\ OwedAt(w) \in Int
<1>1. Sound(w)
  BY TightParts
<1>2. Sound(w)'
  BY <1>1 DEF Sound, ByTrade, CarryLabels, TradeLabels
<1>3. OwedAt(w)' = 0
  BY DEF OwedAt, CarryLabels, TradeLabels
<1>4. /\ AllSound' /\ OwnOrders' /\ OwedSum' = OwedSum + OwedAt(w)' - OwedAt(w)
      /\ OwedSum \in Int /\ OwedSum' \in Int /\ OwedAt(w) \in Int
  BY <1>2, QuietOwed
<1> QED BY <1>3, <1>4

\* The inner work of a trade's leg is done.
LEMMA DoneOwed ==
  ASSUME Tight, NEW w \in Workers, Frame(w), orders' = orders, pc[w] \in TradeLabels,
         NEW p \in Pids \cup {None}, Done(w, p)
  PROVE  /\ AllSound' /\ OwnOrders' /\ OwedSum' = OwedSum - OwedAt(w)
         /\ OwedSum \in Int /\ OwedSum' \in Int /\ OwedAt(w) \in Int
<1>1. Sound(w) /\ TypeOK
  BY TightParts
<1>2. ByTrade(w)
  BY <1>1 DEF Sound
<1>3. pc'[w] = "fee" /\ loc'[w].order = loc[w].order
  BY ZenonT(40), <1>1, <1>2 DEF Done, Goto, TypeOK, NoLoc
<1> QED BY <1>3, EndsOwed

LEMMA ReleaseMoney ==
  ASSUME Tight, NEW w \in Workers, Release(w)
  PROVE  MoneyBody'
<1>1. Frame(w) /\ pc[w] = "release" /\ TypeOK /\ loc[w] \in Locals
      /\ Sound(w) /\ leaks' = {} /\ pc[w] \in TradeLabels
      /\ UNCHANGED <<pos, orders, pnl, fees, absorbed, gift>>
  BY StepFrame, TightParts, LocFields DEF Step, Proceed, Release, TradeLabels
<1>2. ByTrade(w) /\ loc[w].order \in Orders
  BY <1>1, Others DEF Sound
<1>3. ~Forfeits(w) /\ ~loc[w].flip
  <2>1. (IF Forfeits(w) \/ loc[w].flip THEN {"forfeited"} ELSE {}) \subseteq leaks'
    BY <1>1 DEF Release, Settle
  <2> QED BY <1>1, <2>1
<1>4. PICK back \in Int : back = loc[w].returned
  BY <1>1, LocFields
<1>5. FrozenRelease(w) = 0 /\ AvailableAdd(w) = back
  BY <1>2, <1>3, <1>4 DEF FrozenRelease, AvailableAdd
<1>6. frozen' = frozen /\ available' = available + back
  <2>1. frozen' = AtLeastZero(frozen - 0) /\ available' = available + back
    BY <1>1, <1>5 DEF Release, Settle, Move
  <2> QED BY <2>1, Amounts DEF AtLeastZero
<1>7. OwedAt(w) = back
  <2>1. Carry(loc[w].order) = 0
    BY <1>2, <1>3 DEF Forfeits, Carry
  <2>2. OwedAt(w) = 0 + back
    BY <1>1, <1>4, <2>1 DEF OwedAt, CarryLabels
  <2> QED BY <1>4, <2>2
<1>8. AllSound' /\ OwnOrders' /\ OwedSum' = OwedSum - OwedAt(w) /\ OwedSum \in Int
  <2>1. CASE ~loc[w].whole
    <3>1. Done(w, loc[w].pid)
      BY <1>2, <1>3, <2>1 DEF Release
    <3> QED BY <1>1, <3>1, DoneOwed, LocFields
  <2>2. CASE loc[w].whole
    <3>1. pc'[w] = "clean" /\ loc' = loc
      BY <1>1, <1>2, <1>3, <2>2 DEF Release, Goto, TypeOK
    <3> QED BY <1>1, <3>1, EndsOwed
  <2> QED BY <2>1, <2>2
<1>9. SolidRows' /\ RowSum' = RowSum /\ RowSum \in Int
  BY <1>1, RowsAlone
<1>10. SolidOrders' /\ OrderSum' = OrderSum /\ OrderSum \in Int
  BY <1>1, OrdersAlone
<1>11. Reckoned' /\ frozen' >= 0
  BY <1>1, <1>4, <1>6, <1>7, <1>8, <1>9, <1>10, Amounts DEF Reckoned
<1> QED BY <1>8, <1>9, <1>10, <1>11 DEF MoneyBody

LEMMA CleanMoney ==
  ASSUME Tight, NEW w \in Workers, Clean(w)
  PROVE  MoneyBody'
<1>1. Frame(w) /\ pc[w] = "clean" /\ TypeOK /\ pc[w] \in TradeLabels /\ Done(w, None)
      /\ UNCHANGED <<pos, orders, pnl, fees, absorbed, gift>>
  BY StepFrame, TightParts DEF Step, Proceed, Clean, TradeLabels, books
<1>2. PICK r : r = Residual(OpenRows # {})
  OBVIOUS
<1>3. r \in {0, frozen}
  BY <1>2 DEF Residual
<1>4. frozen' = frozen - r /\ available' = available + r /\ r \in Int /\ r <= frozen
  <2>1. frozen' = AtLeastZero(frozen - r) /\ available' = available + r
    BY <1>2 DEF Clean, Move
  <2> QED BY <1>3, <2>1, Amounts DEF AtLeastZero
<1>5. OwedAt(w) = 0
  BY <1>1 DEF OwedAt, CarryLabels, TradeLabels
<1>6. AllSound' /\ OwnOrders' /\ OwedSum' = OwedSum - OwedAt(w) /\ OwedSum \in Int
  BY <1>1, DoneOwed
<1>7. SolidRows' /\ RowSum' = RowSum /\ RowSum \in Int
  BY <1>1, RowsAlone
<1>8. SolidOrders' /\ OrderSum' = OrderSum /\ OrderSum \in Int
  BY <1>1, OrdersAlone
<1>9. Reckoned' /\ frozen' >= 0
  BY <1>1, <1>4, <1>5, <1>6, <1>7, <1>8, Amounts DEF Reckoned
<1> QED BY <1>6, <1>7, <1>8, <1>9 DEF MoneyBody

LEMMA SameMoney ==
  ASSUME Tight, NEW w \in Workers, Same(w)
  PROVE  MoneyBody'
<1>1. Frame(w) /\ pc[w] = "same" /\ TypeOK /\ loc[w] \in Locals /\ Sound(w)
      /\ UNCHANGED <<pos, available, frozen, pnl, fees, absorbed, gift>>
  BY StepFrame, TightParts, LocFields DEF Step, Proceed, Same, account, books
<1>2. ByTrade(w)
  BY <1>1 DEF Sound, TradeLabels
<1>3. /\ \/ loc' = [loc EXCEPT ![w].pid = None, ![w].row = NoRow]
         \/ \E p \in Open(loc[w].side) : loc' = [loc EXCEPT ![w].pid = p, ![w].row = pos[p]]
      /\ pc'[w] = "store" /\ orders' = orders
  BY <1>1, <1>2 DEF Same, Goto, TypeOK
<1>4. /\ loc'[w].order = loc[w].order /\ loc'[w].lots = loc[w].lots
      /\ loc'[w].price = loc[w].price /\ (loc'[w].pid = None => loc'[w].row = NoRow)
  <2>1. CASE loc' = [loc EXCEPT ![w].pid = None, ![w].row = NoRow]
    BY <1>1, <2>1 DEF TypeOK, Locals
  <2>2. ASSUME NEW p \in Open(loc[w].side), loc' = [loc EXCEPT ![w].pid = p, ![w].row = pos[p]]
        PROVE  /\ loc'[w].order = loc[w].order /\ loc'[w].lots = loc[w].lots
               /\ loc'[w].price = loc[w].price /\ loc'[w].pid # None
    BY <1>1, <2>2, IdAssumption DEF TypeOK, Locals, Open
  <2> QED BY <1>3, <2>1, <2>2
<1> QED BY <1>1, <1>3, <1>4, GoesOn DEF CarryLabels, TradeLabels

LEMMA StoreMoney ==
  ASSUME Tight, NEW w \in Workers, Store(w)
  PROVE  MoneyBody'
<1>1. Frame(w) /\ pc[w] = "store" /\ TypeOK /\ loc[w] \in Locals /\ Sound(w) /\ Knows(w)
      /\ pc[w] \in TradeLabels /\ leaks' = {}
      /\ UNCHANGED <<available, frozen, pnl, fees, absorbed, gift>>
  BY StepFrame, TightParts, LocFields DEF Step, Proceed, Store, TradeLabels, account
<1>2. PICK o \in Orders : o = loc[w].order
  BY <1>1, Others
<1>3. /\ ByTrade(w) /\ orders[o].status = "applying" /\ SolidOrder(o)
      /\ loc[w].lots = orders[o].lots /\ loc[w].price = orders[o].price
  BY <1>1, <1>2 DEF Sound, CarryLabels, TradeLabels, Tight, MoneyBody, SolidOrders
<1>4. PICK size \in Nat : size = Incoming(w) /\ size = orders[o].lots * orders[o].price
  BY <1>1, <1>3, OrderAmounts DEF Incoming
<1>5. size > 0
  <2>1. /\ orders[o].lots \in Nat /\ orders[o].price \in Nat
        /\ orders[o].lots > 0 /\ orders[o].price > 0
    BY <1>1, <1>3, OrderAmounts DEF SolidOrder, LiveStatus
  <2> QED BY <1>4, <2>1, TimesPos
<1>6. PICK k \in Nat : k = size \div Leverage
  BY <1>4, QuotientNat, AmountAssumption
<1>7. PICK p \in IF loc[w].pid = None THEN {q \in Pids : pos[q].status = "none"} ELSE {loc[w].pid} :
        /\ pos' = [pos EXCEPT ![p] = Stored(w)] /\ Done(w, p)
        /\ (IF loc[w].pid = None THEN {} ELSE Stale(loc[w].pid, loc[w].row)) \subseteq leaks'
        /\ (IF ByTrade(w) /\ orders[loc[w].order].margin = 0 THEN {"unbacked"} ELSE {}) \subseteq leaks'
        /\ orders' = orders
  BY <1>3 DEF Store, Stored
<1>8. orders[o].margin > 0
  BY <1>1, <1>2, <1>3, <1>7, OrderAmounts
<1>9. Carry(o) = k /\ OwedAt(w) = k
  <2>1. Carry(o) = k
    BY <1>4, <1>6, <1>8 DEF Carry
  <2>2. OwedAt(w) = k + 0
    BY <1>1, <1>2, <2>1 DEF OwedAt, CarryLabels, TradeLabels
  <2> QED BY <1>6, <2>1, <2>2
<1>10. p \in Pids
  BY <1>1, <1>7, LocFields
<1>11. PICK row \in Row : row = loc[w].row
  BY LocFields, <1>1
<1>12. /\ row.size \in Int /\ row.coll \in Int /\ row.size >= 0 /\ row.coll >= 0
       /\ RowAt(p) = row.coll
  <2>1. CASE loc[w].pid = None
    <3>1. row.size = 0 /\ row.coll = 0 /\ pos[p].status = "none"
      BY <1>1, <1>7, <1>11, <2>1 DEF Sound, NoRow
    <3> QED BY <3>1 DEF RowAt
  <2>2. CASE loc[w].pid # None
    <3>1. pos[p] = row /\ row.status = "open"
      BY <1>1, <1>7, <1>11, <2>2, NotStale DEF NoStaleWrite, Knows
    <3>2. SolidRow(p)
      BY <1>10 DEF Tight, MoneyBody, SolidRows
    <3> QED BY <3>1, <3>2, RowFields DEF SolidRow, RowAt
  <2> QED BY <2>1, <2>2
<1>13. Stored(w).size = row.size + size /\ Stored(w).coll = row.coll + k
       /\ Stored(w).status = "open"
  BY <1>4, <1>6, <1>11 DEF Stored, Row
<1>14. (\A q \in Pids \ {p} : pos'[q] = pos[q]) /\ pos'[p] = Stored(w)
  BY <1>1, <1>7, <1>10 DEF TypeOK
<1>15. SolidRow(p)' /\ RowAt(p)' = RowAt(p) + k
  BY <1>5, <1>6, <1>12, <1>13, <1>14 DEF SolidRow, RowAt
<1>16. SolidRows' /\ RowSum' = RowSum + k /\ RowSum \in Int
  <2>1. SolidRows' /\ RowSum' = RowSum + RowAt(p)' - RowAt(p) /\ RowSum \in Int
    BY <1>10, <1>14, <1>15, RowAlone
  <2> QED BY <1>6, <1>12, <1>15, <2>1
<1>17. AllSound' /\ OwnOrders' /\ OwedSum' = OwedSum - k /\ OwedSum \in Int
  BY <1>1, <1>7, <1>9, <1>10, DoneOwed
<1>18. SolidOrders' /\ OrderSum' = OrderSum /\ OrderSum \in Int
  BY <1>7, OrdersAlone
<1>19. Reckoned' /\ frozen' >= 0
  BY <1>1, <1>16, <1>17, <1>18, Amounts DEF Reckoned
<1> QED BY SMTT(30), <1>16, <1>17, <1>18, <1>19 DEF MoneyBody

\* A fee is written to a row: its money stays.
LEMMA FeeStays ==
  ASSUME Tight, NEW p \in Pids, NEW n \in Int,
         \/ pos' = [pos EXCEPT ![p].tfee = @ + n]
         \/ pos' = [pos EXCEPT ![p].ffee = @ + n]
  PROVE  SolidRows' /\ RowSum' = RowSum /\ RowSum \in Int
<1>1. TypeOK /\ TypeOK' /\ SolidRows /\ pos[p] \in Row
  BY DEF Tight, MoneyBody, TypeOK
<1>2. \A q \in Pids : /\ pos'[q].status = pos[q].status /\ pos'[q].size = pos[q].size
                      /\ pos'[q].coll = pos[q].coll
  BY <1>1 DEF TypeOK, Row
<1>3. \A q \in Pids : RowAt(q)' = RowAt(q) /\ (SolidRow(q) => SolidRow(q)')
  BY <1>2 DEF RowAt, SolidRow
<1> QED BY <1>1, <1>3, RowSums DEF SolidRows

LEMMA FeeMoney ==
  ASSUME Tight, NEW w \in Workers, Fee(w) \/ FeeFails(w)
  PROVE  MoneyBody'
<1>1. Frame(w) /\ pc[w] = "fee" /\ TypeOK /\ pc[w] \in TradeLabels /\ pc'[w] = "idle"
      /\ loc[w].pid \in Pids \cup {None}
      /\ UNCHANGED <<available, frozen, pnl, fees, absorbed, gift>>
  BY StepFrame, TightParts, LocFields
     DEF Step, Proceed, Fee, FeeFails, Finish, Goto, TypeOK, TradeLabels, account, books
<1>2. PICK o \in Orders : o = loc[w].order
  BY <1>1, Others
<1>3. /\ orders[o].status = "applying"
      /\ \A v \in Workers \ {w} : pc[v] \in TradeLabels => loc[v].order \in Orders /\ loc[v].order # o
  BY <1>1, <1>2, Others
<1>4. /\ \A q \in Orders \ {o} : orders'[q] = orders[q]
      /\ orders'[o].status = "applied"
      /\ SolidOrders' /\ OrderSum' = OrderSum + InOrder(o)' - InOrder(o)
      /\ OrderSum \in Int
  <2>1. orders' = [orders EXCEPT ![o].status = "applied"]
    BY <1>2 DEF Fee, FeeFails
  <2> QED BY <1>3, <2>1, StatusOnly DEF LiveStatus
<1>5. InOrder(o) = 0 /\ InOrder(o)' = 0
  BY <1>3, <1>4 DEF InOrder
<1>6. Sound(w)' /\ OwedAt(w) = 0 /\ OwedAt(w)' = 0
  BY <1>1 DEF Sound, OwedAt, CarryLabels, TradeLabels
<1>7. /\ AllSound' /\ OwnOrders' /\ OwedSum' = OwedSum + OwedAt(w)' - OwedAt(w)
      /\ OwedSum \in Int
  BY <1>1, <1>3, <1>4, <1>6, StepOwed DEF TradeLabels
<1>8. SolidRows' /\ RowSum' = RowSum /\ RowSum \in Int
  <2>1. PICK n \in Int : n = FeePerLot * orders[o].lots
    BY <1>1, OrderAmounts, AmountAssumption, TimesNat
  <2>2. CASE FeeFails(w) \/ loc[w].pid = None
    <3>1. pos' = pos
      BY <2>2 DEF Fee, FeeFails
    <3> QED BY <3>1, RowsAlone
  <2>3. CASE Fee(w) /\ loc[w].pid # None
    <3>1. PICK p \in Pids : p = loc[w].pid
      BY <1>1, <2>3
    <3>2. pos' = [pos EXCEPT ![p].tfee = @ + n]
      BY <1>2, <2>1, <2>3, <3>1 DEF Fee
    <3> QED BY <3>2, FeeStays
  <2> QED BY <2>2, <2>3
<1>9. Reckoned' /\ frozen' >= 0
  BY <1>1, <1>4, <1>5, <1>6, <1>7, <1>8, Amounts DEF Reckoned
<1> QED BY SMTT(30), <1>4, <1>7, <1>8, <1>9 DEF MoneyBody

LEMMA FundApplyMoney ==
  ASSUME Tight, NEW w \in Workers, FundApply(w)
  PROVE  MoneyBody'
<1>1. Frame(w) /\ pc[w] = "fund" /\ TypeOK /\ loc[w].pid \in Pids /\ pc'[w] = "idle"
      /\ UNCHANGED <<orders, available, frozen, pnl, fees, absorbed, gift>>
  BY StepFrame, TightParts
     DEF Step, Proceed, FundApply, Finish, Goto, TypeOK, Ready, PidLabels, account, books
<1>2. PICK f \in Int : pos' = [pos EXCEPT ![loc[w].pid].ffee = @ + f]
  BY AmountAssumption DEF FundApply
<1>3. SolidRows' /\ RowSum' = RowSum /\ RowSum \in Int
  BY <1>1, <1>2, FeeStays
<1>4. Sound(w)' /\ OwedAt(w) = 0 /\ OwedAt(w)' = 0
  BY <1>1 DEF Sound, OwedAt, CarryLabels, TradeLabels
<1>5. /\ AllSound' /\ OwnOrders' /\ OwedSum' = OwedSum + OwedAt(w)' - OwedAt(w)
      /\ OwedSum \in Int
  BY <1>1, <1>4, QuietOwed DEF TradeLabels
<1>6. SolidOrders' /\ OrderSum' = OrderSum /\ OrderSum \in Int
  BY <1>1, OrdersAlone
<1>7. Reckoned' /\ frozen' >= 0
  BY <1>1, <1>3, <1>4, <1>5, <1>6, Amounts DEF Reckoned
<1> QED BY <1>3, <1>5, <1>6, <1>7 DEF MoneyBody

LEMMA RemoveWriteMoney ==
  ASSUME Tight, NEW w \in Workers, RemoveWrite(w)
  PROVE  MoneyBody'
<1>1. Frame(w) /\ pc[w] = "removewrite" /\ TypeOK /\ loc[w] \in Locals /\ Sound(w)
      /\ leaks' = {} /\ pc'[w] = "removepay"
      /\ UNCHANGED <<orders, available, frozen, pnl, fees, absorbed, gift, loc>>
  BY StepFrame, TightParts, LocFields DEF Step, Proceed, RemoveWrite, Goto, TypeOK, account
<1>2. PICK d \in Pids, row \in Row, c \in Int :
        d = loc[w].pid /\ row = loc[w].row /\ c = loc[w].coll
  BY <1>1, TightParts, LocFields DEF Ready, PidLabels
<1>3. /\ pos' = [pos EXCEPT ![d] = [row EXCEPT !.coll = @ - c]]
      /\ Stale(d, row) \subseteq leaks'
  BY <1>2 DEF RemoveWrite
<1>4. pos[d] = row /\ row.status = "open" /\ c >= 0 /\ row.coll >= c
  BY <1>1, <1>2, <1>3, NotStale DEF NoStaleWrite, Sound
<1>5. row.size > 0 /\ row.coll \in Int /\ RowAt(d) = row.coll
  <2>1. SolidRow(d)
    BY DEF Tight, MoneyBody, SolidRows
  <2> QED BY <1>4, <2>1, RowFields DEF SolidRow, RowAt
<1>6. /\ \A q \in Pids \ {d} : pos'[q] = pos[q]
      /\ pos'[d].status = "open" /\ pos'[d].size = row.size /\ pos'[d].coll = row.coll - c
  BY <1>1, <1>3, <1>4 DEF TypeOK, Row
<1>7. SolidRow(d)' /\ RowAt(d)' = RowAt(d) - c
  BY <1>4, <1>5, <1>6 DEF SolidRow, RowAt
<1>8. SolidRows' /\ RowSum' = RowSum - c /\ RowSum \in Int
  <2>1. SolidRows' /\ RowSum' = RowSum + RowAt(d)' - RowAt(d) /\ RowSum \in Int
    BY <1>6, <1>7, RowAlone
  <2> QED BY <1>5, <1>7, <2>1
<1>9. Sound(w)' /\ OwedAt(w) = 0 /\ OwedAt(w)' = c
  BY <1>1, <1>2, <1>4 DEF Sound, OwedAt, CarryLabels, TradeLabels
<1>10. /\ AllSound' /\ OwnOrders' /\ OwedSum' = OwedSum + OwedAt(w)' - OwedAt(w)
       /\ OwedSum \in Int
  BY <1>1, <1>9, QuietOwed DEF TradeLabels
<1>11. SolidOrders' /\ OrderSum' = OrderSum /\ OrderSum \in Int
  BY <1>1, OrdersAlone
<1>12. Reckoned' /\ frozen' >= 0
  BY <1>1, <1>8, <1>9, <1>10, <1>11, Amounts DEF Reckoned
<1> QED BY <1>8, <1>10, <1>11, <1>12 DEF MoneyBody

LEMMA RemovePayMoney ==
  ASSUME Tight, NEW w \in Workers, RemovePay(w)
  PROVE  MoneyBody'
<1>1. Frame(w) /\ pc[w] = "removepay" /\ TypeOK /\ loc[w] \in Locals /\ Sound(w)
      /\ leaks' = {} /\ pc'[w] = "idle"
      /\ UNCHANGED <<pos, orders, pnl, fees, absorbed, gift>>
  BY StepFrame, TightParts, LocFields DEF Step, Proceed, RemovePay, Finish, Goto, TypeOK
<1>2. PICK c \in Int : c = loc[w].coll /\ c >= 0
  BY <1>1, LocFields DEF Sound
<1>3. Move(c, c) /\ (IF frozen > 0 THEN {"drained"} ELSE {}) \subseteq leaks'
  BY <1>1, <1>2 DEF RemovePay, Settle
<1>4. frozen = 0 /\ frozen' = 0 /\ available' = available + c
  <2>1. frozen = 0
    BY <1>1, <1>3, Amounts
  <2> QED BY <1>2, <1>3, <2>1 DEF Move, AtLeastZero
<1>5. Sound(w)' /\ OwedAt(w) = c /\ OwedAt(w)' = 0
  BY <1>1, <1>2 DEF Sound, OwedAt, CarryLabels, TradeLabels
<1>6. /\ AllSound' /\ OwnOrders' /\ OwedSum' = OwedSum + OwedAt(w)' - OwedAt(w)
       /\ OwedSum \in Int
  BY <1>1, <1>5, QuietOwed DEF TradeLabels
<1>7. SolidRows' /\ RowSum' = RowSum /\ RowSum \in Int
  BY <1>1, RowsAlone
<1>8. SolidOrders' /\ OrderSum' = OrderSum /\ OrderSum \in Int
  BY <1>1, OrdersAlone
<1>9. Reckoned' /\ frozen' >= 0
  BY <1>1, <1>4, <1>5, <1>6, <1>7, <1>8, Amounts DEF Reckoned
<1> QED BY <1>6, <1>7, <1>8, <1>9 DEF MoneyBody

LEMMA LiquidateMoney ==
  ASSUME Tight, NEW w \in Workers, Liquidate(w)
  PROVE  MoneyBody'
<1>1. Frame(w) /\ pc[w] = "liquidate" /\ TypeOK /\ loc[w] \in Locals /\ leaks' = {}
      /\ pc'[w] = "idle" /\ orders' = orders
  BY StepFrame, TightParts, LocFields DEF Step, Proceed, Liquidate, Finish, Goto, TypeOK
<1>2. PICK d \in Pids, price \in Nat : d = loc[w].pid /\ price = loc[w].price
  BY <1>1, TightParts, LocFields DEF Ready, PidLabels
<1>3. PICK row \in Row : row = pos[d]
  BY <1>1 DEF TypeOK
<1>4. Sound(w)' /\ OwedAt(w) = 0 /\ OwedAt(w)' = 0
  BY <1>1 DEF Sound, OwedAt, CarryLabels, TradeLabels
<1>5. AllSound' /\ OwnOrders' /\ OwedSum' = OwedSum /\ OwedSum \in Int
  <2>1. /\ AllSound' /\ OwnOrders' /\ OwedSum' = OwedSum + OwedAt(w)' - OwedAt(w)
        /\ OwedSum \in Int
    BY <1>1, <1>4, QuietOwed DEF TradeLabels
  <2> QED BY <1>4, <2>1
<1>6. SolidOrders' /\ OrderSum' = OrderSum /\ OrderSum \in Int
  BY <1>1, OrdersAlone
<1>7. CASE ~StillOpen(row)
  <2>1. UNCHANGED <<pos, available, frozen, pnl, fees, absorbed, gift>>
    BY <1>2, <1>3, <1>7 DEF Liquidate, account, books
  <2>2. SolidRows' /\ RowSum' = RowSum /\ RowSum \in Int
    BY <2>1, RowsAlone
  <2>3. Reckoned' /\ frozen' >= 0
    BY <1>5, <1>6, <2>1, <2>2, Amounts DEF Reckoned
  <2> QED BY <1>5, <1>6, <2>2, <2>3 DEF MoneyBody
<1>8. CASE StillOpen(row)
  <2>1. IsOpen(d) /\ row.size > 0 /\ row.coll >= 0
        /\ row.size \in Int /\ row.coll \in Int /\ row.ffee \in Int
    <3>1. row.status = "open"
      BY <1>8 DEF StillOpen
    <3>2. SolidRow(d)
      BY DEF Tight, MoneyBody, SolidRows
    <3> QED BY <1>3, <3>1, <3>2, RowFields DEF SolidRow, IsOpen
  <2>2. PICK b \in Nat : b = Buffer(row.size)
    BY <2>1, BufferNat
  <2>3. PICK g \in Int : g = Profit(row, price)
    BY ProfitInt
  <2>4. PICK left \in Int : left = Remaining(row, price) - LiqFee
                            /\ left = row.coll + g - row.ffee - LiqFee
    BY <2>1, <2>3, AmountAssumption DEF Remaining
  <2>5. PICK out \in Nat : out = row.coll + b /\ out = row.coll + Buffer(row.size)
    BY <2>1, <2>2
  <2>6. PICK rest : rest = IF OpenRows \ {d} = {} THEN AtLeastZero(Residual(FALSE) - out) ELSE 0
    OBVIOUS
  <2>7. PICK lost \in Nat, kept \in Nat : lost = AtLeastZero(-left) /\ kept = AtLeastZero(left)
    BY FloorNat
  <2>8. kept = left + lost
    BY <2>7, FloorSplit
  <2>9. /\ pos' = [pos EXCEPT ![d] = [HandlerShut(row) EXCEPT !.status = "liquidated"]]
        /\ pnl' = pnl + g /\ fees' = fees + row.ffee + LiqFee
        /\ absorbed' = absorbed + lost /\ gift' = gift + b
        /\ Move(out + rest, kept + b + rest)
        /\ (IF frozen > 0 THEN {"drained"} ELSE {}) \subseteq leaks'
    BY <1>2, <1>3, <1>8, <2>2, <2>3, <2>4, <2>5, <2>6, <2>7 DEF Liquidate
  <2>10. frozen = 0
    BY <1>1, <2>9, Amounts
  <2>11. rest = 0
    BY <2>6, <2>10 DEF Residual, AtLeastZero
  <2>12. frozen' = 0 /\ available' = available + kept + b
    BY <2>9, <2>10, <2>11, Amounts DEF Move, AtLeastZero
  <2>13. PICK new : new = [HandlerShut(row) EXCEPT !.status = "liquidated"]
    OBVIOUS
  <2>14. new.status = "liquidated"
    BY <2>13, RowStatus
  <2>15. PICK c \in Int, coll \in Int, f \in Int : c = row.size /\ coll = row.coll /\ f = row.ffee
    BY <2>1
  <2>16. /\ SolidRows' /\ RowSum \in Int /\ RowSum' = RowSum - Share(row.coll, c, row.size)
    <3>1. c = pos[d].size /\ c <= pos[d].size
      BY <1>3, <2>15
    <3>2. pos' = [pos EXCEPT ![d] = new] /\ new.status \in {"closed", "liquidated"}
      BY <2>9, <2>13, <2>14
    <3> QED BY <1>3, <2>1, <3>1, <3>2, RowCut
  <2>17. RowSum' = RowSum - coll
    BY <2>1, <2>15, <2>16, ShareWhole
  <2>18. /\ pnl' = pnl + g /\ fees' = fees + f + LiqFee /\ LiqFee \in Int
         /\ left = coll + g - f - LiqFee
    BY <2>4, <2>9, <2>15, AmountAssumption
  <2>19. Reckoned' /\ frozen' >= 0
    <3>1. RowSum' + available' + frozen' - RowSum - available - frozen
          = pnl' - pnl - fees' + fees + absorbed' - absorbed + gift' - gift
      BY <2>8, <2>9, <2>10, <2>12, <2>16, <2>17, <2>18, Amounts
    <3> QED BY <1>5, <1>6, <2>12, <2>16, <2>17, <3>1, Amounts DEF Reckoned
  <2> QED BY <1>5, <1>6, <2>16, <2>19 DEF MoneyBody
<1> QED BY <1>7, <1>8

LEMMA QueryFailsMoney ==
  ASSUME Tight, NEW w \in Workers, QueryFails(w)
  PROVE  MoneyBody'
<1>1. Frame(w) /\ Fail(w) /\ pc[w] \in CarryLabels \ {"release"}
      /\ UNCHANGED <<pos, available, frozen, pnl, fees, absorbed, gift>>
  BY StepFrame, TightParts DEF Step, QueryFails, CarryLabels, TradeLabels, account, books
<1> QED BY <1>1, FailMoney

LEMMA CleanFailsMoney ==
  ASSUME Tight, NEW w \in Workers, CleanFails(w)
  PROVE  MoneyBody'
<1>1. Frame(w) /\ pc[w] = "clean" /\ TypeOK /\ pc[w] \in TradeLabels /\ Done(w, None)
      /\ UNCHANGED <<pos, orders, available, frozen, pnl, fees, absorbed, gift>>
  BY StepFrame, TightParts DEF Step, CleanFails, TradeLabels, account, books
<1>2. OwedAt(w) = 0
  BY <1>1 DEF OwedAt, CarryLabels, TradeLabels
<1>3. AllSound' /\ OwnOrders' /\ OwedSum' = OwedSum - OwedAt(w) /\ OwedSum \in Int
  BY <1>1, DoneOwed
<1>4. SolidRows' /\ RowSum' = RowSum /\ RowSum \in Int
  BY <1>1, RowsAlone
<1>5. SolidOrders' /\ OrderSum' = OrderSum /\ OrderSum \in Int
  BY <1>1, OrdersAlone
<1>6. Reckoned' /\ frozen' >= 0
  BY <1>1, <1>2, <1>3, <1>4, <1>5, Amounts DEF Reckoned
<1> QED BY <1>3, <1>4, <1>5, <1>6 DEF MoneyBody

\* Who is dropped without a leak had begun nothing.
LEMMA DropMoney ==
  ASSUME Tight, NEW w \in Workers, Drop(w)
  PROVE  MoneyBody'
<1>1. Frame(w) /\ pc[w] \in Unbegun /\ TypeOK /\ pc'[w] = "idle"
      /\ UNCHANGED <<pos, orders, available, frozen, pnl, fees, absorbed, gift>>
  <2>1. leaks' = IF pc[w] \in Unbegun THEN leaks ELSE leaks \cup {"dropped"}
    BY DEF Drop
  <2>2. pc[w] \in Unbegun
    BY <2>1, TightParts
  <2> QED BY <2>2, StepFrame, TightParts DEF Step, Drop, Finish, Goto, TypeOK, account
<1>2. Sound(w)' /\ OwedAt(w)' = OwedAt(w)
  BY <1>1 DEF Unbegun, Sound, OwedAt, CarryLabels, TradeLabels
<1> QED BY <1>1, <1>2, QuietMoney DEF TradeLabels

LEMMA StepMoney ==
  ASSUME Tight, NEW w \in Workers, Step(w)
  PROVE  MoneyBody'
BY QueryFailsMoney, CleanFailsMoney, DropMoney, NotTaken, OpposingMoney, DecreaseMoney, WriteMoney, ReleaseMoney, CleanMoney, SameMoney,
   StoreMoney, FeeMoney, FundApplyMoney, RemoveWriteMoney, RemovePayMoney, LiquidateMoney
   DEF Step, Proceed

LEMMA InitMoney == Init => MoneyInv
<1> SUFFICES ASSUME Init PROVE MoneyBody
  BY DEF MoneyInv
<1>1. /\ \A p \in Pids : pos[p].status = "none"
      /\ \A o \in Orders : orders[o].status = "none"
      /\ \A w \in Workers : pc[w] = "idle"
  BY DEF Init, NoRow, NoOrder
<1>0. \A o \in Orders : orders[o].due = "none"
  BY DEF Init, NoOrder
<1>2. SolidRows /\ SolidOrders /\ AllSound /\ OwnOrders
  BY <1>0, <1>1 DEF SolidRows, SolidRow, SolidOrders, SolidOrder, LiveStatus, AllSound, Sound,
     CarryLabels, TradeLabels, OwnOrders
<1>3. RowSum = 0
  BY <1>1, SumZero, FiniteAssumption DEF RowSum, RowAt
<1>4. OrderSum = 0
  BY <1>0, <1>1, SumZero, FiniteAssumption DEF OrderSum, OrderAt, Unreleased
<1>5. OwedSum = 0
  BY <1>1, SumZero, FiniteAssumption DEF OwedSum, OwedAt, CarryLabels, TradeLabels
<1>6. Reckoned /\ frozen >= 0
  BY <1>3, <1>4, <1>5, AmountAssumption DEF Reckoned, Init
<1> QED BY <1>2, <1>6 DEF MoneyBody

LEMMA NextMoney == TypeOK /\ Ready /\ TypeOK' /\ Inv /\ MoneyInv /\ [Next]_vars => MoneyInv'
<1> SUFFICES ASSUME TypeOK, Ready, TypeOK', Inv, MoneyInv, [Next]_vars, leaks' = {}
             PROVE  MoneyBody'
  BY DEF MoneyInv
<1>1. CASE Next
  <2>1. Tight
    BY <1>1, LeaksStay DEF Tight, MoneyInv
  <2> QED BY <1>1, <2>1, UserMoney, CallMoney, StepMoney DEF Next
<1>2. CASE UNCHANGED vars
  BY <1>2 DEF vars, account, books, MoneyInv, MoneyBody, SolidRows, SolidRow, SolidOrders,
     SolidOrder, AllSound, Sound, ByTrade, OwnOrders, Reckoned, RowSum, OrderSum, OwedSum, RowAt,
     OrderAt, Unreleased, OwedAt, Carry
<1> QED BY <1>1, <1>2

\* Between calls nothing is owed to anybody.
LEMMA MoneyReconciles == TypeOK /\ MoneyInv => Reconciled
<1> SUFFICES ASSUME TypeOK, MoneyBody, Orderly
             PROVE  Wealth = Deposit + pnl - fees + absorbed + gift
  BY DEF MoneyInv, Reconciled
<1>1. RowSum = InRows
  BY DEF RowSum, RowAt, InRows, SumFunction
<1>2. OrderSum = InTransit
  <2>1. \A o \in Orders : OrderAt(o) =
          IF orders[o].status = "filled" /\ orders[o].margin > 0
          THEN (orders[o].lots * orders[o].price) \div Leverage ELSE 0
    BY CarryInt DEF Orderly, OrderAt, Unreleased, Carry
  <2> QED BY <2>1 DEF OrderSum, InTransit, SumFunction
<1>3. OwedSum = 0
  <2>1. \A w \in Workers : OwedAt(w) = 0
    BY DEF Orderly, OwedAt, CarryLabels, TradeLabels
  <2> QED BY <2>1, SumZero, FiniteAssumption DEF OwedSum
<1>4. RowSum \in Int /\ OrderSum \in Int
  <2>1. \A p \in Pids : RowAt(p) \in Int
    BY RowFields DEF RowAt, TypeOK
  <2>2. \A o \in Orders : OrderAt(o) \in Int
    BY CarryInt
  <2> QED BY <2>1, <2>2, SumInt, FiniteAssumption DEF RowSum, OrderSum
<1> QED BY <1>1, <1>2, <1>3, <1>4 DEF MoneyBody, Reckoned, Wealth, TypeOK

\* Between calls, what is available, frozen, in the rows and in transit is the
\* deposit, plus what was realised and absorbed, less the fees, as long as none of
\* the windows in which the code loses or makes up money was taken.
THEOREM MoneyReconciled == Spec => []Reconciled
BY Typed, InitInv, NextInv, InitMoney, NextMoney, MoneyReconciles, PTL DEF Spec
=============================================================================
