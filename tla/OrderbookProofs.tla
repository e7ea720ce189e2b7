-------------------------- MODULE OrderbookProofs --------------------------
(***************************************************************************)
(* Theorems about the two matching engines.                                *)
(*                                                                         *)
(* Orderbook, for every set of threads, orders, prices and quantities:     *)
(* types, locks, the order of matching, the counter, the index, final      *)
(* cancels, fill or kill, the book of serial calls, and the ledger the     *)
(* market implements.                                                      *)
(*                                                                         *)
(* SpotEngine, for every set of traders and balances, and every number of  *)
(* orders, failed statements and restarts: SpotInv is inductive, and with  *)
(* it the book agrees with the rows and the locks cover them.              *)
(***************************************************************************)
EXTENDS OrderbookSerial, SpotEngine, SumFacts, FiniteSetTheorems, TLAPS

-----------------------------------------------------------------------------
(* The queues as sets of entries. *)

\* A nonempty finite set of integers has a greatest element.
LEMMA FiniteMax ==
    ASSUME NEW S \in SUBSET Int, IsFiniteSet(S), S # {}
    PROVE  \E m \in S : \A x \in S : x <= m
<1>. DEFINE HasMax(T) == \E m \in T : \A x \in T : x <= m
            R == StrictSubsetOrdering(S)
            F == FiniteSubsetsOf(S)
            Bad == {T \in F : T # {} /\ ~HasMax(T)}
<1>1. SUFFICES ASSUME Bad # {} PROVE FALSE
  BY DEF FiniteSubsetsOf
<1>2. IsWellFoundedOn(R, F)
  BY FS_StrictSubsetOrderingWellFounded
<1>3. PICK T \in Bad : \A U \in Bad : ~ (<<U, T>> \in R)
  <2>. HIDE DEF R, F
  <2>. QED  BY <1>1, <1>2, WFMin
<1>4. PICK a \in T : TRUE
  OBVIOUS
<1>5. T \subseteq S /\ IsFiniteSet(T) /\ ~HasMax(T)
  BY DEF FiniteSubsetsOf
<1>. DEFINE U == T \ {a}
<1>6. U # {}
  BY <1>4, <1>5
<1>7. U \in F
  BY <1>5, FS_RemoveElement DEF FiniteSubsetsOf
<1>8. <<U, T>> \in R
  BY <1>4, <1>5 DEF StrictSubsetOrdering
<1>9. HasMax(U)
  BY <1>3, <1>6, <1>7, <1>8
<1>10. PICK m \in U : \A x \in U : x <= m
  BY <1>9
<1>11. HasMax(T)
  <2>1. CASE a <= m  BY <1>10, <2>1
  <2>2. CASE m < a
    <3>1. \A x \in T : x <= a  BY <1>10, <1>4, <1>5, <2>2
    <3>2. QED  BY <3>1, <1>4
  <2>3. QED  BY <2>1, <2>2, <1>4, <1>5, <1>10
<1>12. QED
  BY <1>11, <1>5

\* Level numbers are integers.
LEMMA LevelType ==
    ASSUME NEW p \in Prices
    PROVE  Level(p) \in Int
  BY PriceAssumption DEF Level

\* A new entry goes behind everything queued at its level.
LEMMA NextTurnType ==
    ASSUME TypeOK, NEW s \in Sides, NEW l \in Int
    PROVE  /\ NextTurn(s, l) \in Nat \ {0}
           /\ \A e \in Queue(s, l) : e.turn < NextTurn(s, l)
<1>1. CASE Queue(s, l) = {}
  BY <1>1 DEF NextTurn
<1>2. CASE Queue(s, l) # {}
  <2>. DEFINE Q == Queue(s, l)
              T == {e.turn : e \in Q}
  <2>1. Q \subseteq Entry /\ IsFiniteSet(Q)
    BY FS_Subset DEF TypeOK, Queue, Entries
  <2>2. T \in SUBSET (Nat \ {0}) /\ T # {}
    BY <2>1, <1>2 DEF Entry
  <2>3. IsFiniteSet(T)
    <3>. DEFINE f == [e \in Q |-> e.turn]
    <3>1. f \in Surjection(Q, T)
      BY DEF Surjection
    <3>. HIDE DEF f, T, Q
    <3>2. QED  BY <2>1, <3>1, FS_Surjection
  <2>4. \E m \in T : \A x \in T : x <= m
    <3>1. T \in SUBSET Int  BY <2>2
    <3>. HIDE DEF T
    <3>2. QED  BY <3>1, <2>2, <2>3, FiniteMax
  <2>5. \E t \in T : \A e \in Q : e.turn <= t
    BY <2>4
  <2>. DEFINE m == CHOOSE t \in T : \A e \in Q : e.turn <= t
  <2>6. m \in T /\ \A e \in Q : e.turn <= m
    BY <2>5
  <2>7. NextTurn(s, l) = 1 + m
    BY <1>2 DEF NextTurn
  <2>. HIDE DEF m
  <2>8. QED
    BY <2>6, <2>7, <2>2, <2>1 DEF Entry
<1>3. QED
  BY <1>1, <1>2

-----------------------------------------------------------------------------
(* Type correctness. *)

\* Initially every variable has its type.
LEMMA InitType == Init => TypeOK
<1>. SUFFICES ASSUME Init PROVE TypeOK
  OBVIOUS
<1>1. CallsOK
  BY DEF Init, CallsOK, SubmitLabels
<1>2. IsFiniteSet(book) /\ book \subseteq Entry
  BY FS_EmptySet DEF Init
<1>3. NoReq \in Requests
  BY DEF NoReq, Requests, Sides
<1>4. QED
  BY <1>1, <1>2, <1>3 DEF Init, TypeOK, Labels

\* An entry traded in part is an entry.
LEMMA EntryLess ==
    ASSUME NEW e \in Entry, NEW q \in Nat, q < e.rem
    PROVE  [e EXCEPT !.rem = @ - q] \in Entry
  BY DEF Entry

\* submit_order answers one of four statuses.
LEMMA StatusType ==
    ASSUME NEW r, NEW n
    PROVE  StatusOf(r, n) \in Statuses
  BY DEF StatusOf, Statuses

\* Every step of a submit keeps the types.
LEMMA SubmitType ==
    ASSUME TypeOK, NEW w \in Workers, SubmitStep(w)
    PROVE  TypeOK'
<1>. USE DEF TypeOK, CallsOK, Goto, Finish, Labels, SubmitLabels, CancelLabels,
             queues, aux
<1>1. CASE BeginMatch(w)
  BY <1>1 DEF BeginMatch, Opposite, Sides
<1>2. CASE \E e \in book : Trade(w, e)
  <2>1. PICK e \in book : Trade(w, e)
    BY <1>2
  <2>. DEFINE q == TradeAmount(left[w], e.rem)
  <2>2. e \in Entry /\ q \in Nat \ {0} /\ q <= left[w] /\ q <= e.rem
    BY <2>1 DEF Trade, TradeAmount, Entry
  <2>3. book' \subseteq Entry /\ IsFiniteSet(book')
    <3>1. IsFiniteSet(book \ {e})
      BY FS_RemoveElement
    <3>2. q # e.rem => [e EXCEPT !.rem = @ - q] \in Entry
      <4>1. ASSUME q # e.rem PROVE q < e.rem
        BY <4>1, <2>2 DEF Entry
      <4>. HIDE DEF q, TypeOK
      <4>2. QED
        BY <4>1, <2>2, EntryLess
    <3>3. q # e.rem => IsFiniteSet((book \ {e}) \cup {[e EXCEPT !.rem = @ - q]})
      BY <3>1, FS_AddElement
    <3>4. QED
      BY <2>1, <3>1, <3>2, <3>3 DEF Trade, Consumed
  <2>4. left' \in [Workers -> Nat] /\ traded' \in [Orders -> Nat]
    BY <2>1, <2>2 DEF Trade
  <2>5. index' \in [Orders -> Slot \cup {None}] /\ count' \in Int
    BY <2>1, <2>2 DEF Trade
  <2>6. last' \in Prices \cup {None}
    BY <2>1, <2>2 DEF Trade, LastAfter, Entry
  <2>7. QED
    BY <2>1, <2>3, <2>4, <2>5, <2>6 DEF Trade
<1>3. CASE EndMatch(w)
  BY <1>3 DEF EndMatch
<1>4. CASE Settle(w)
  <2>1. StatusOf(req[w], left[w]) \in Statuses
    BY StatusType
  <2>2. NoReq \in Requests
    BY DEF NoReq, Requests, Sides
  <2>3. CallsOK'
    BY <1>4, <2>2 DEF Settle
  <2>4. QED
    BY <1>4, <2>1, <2>2, <2>3 DEF Settle
<1>5. CASE AddOrder(w)
  <2>. DEFINE r == req[w]
              l == Level(r.limit)
              entry == [id |-> r.order, side |-> r.side, price |-> r.limit,
                        rem |-> left[w], turn |-> NextTurn(r.side, l)]
  <2>1. r.limit \in Prices /\ r.side \in Sides /\ r.order \in Orders /\ left[w] \in Nat \ {0}
    BY <1>5 DEF AddOrder, Rests, Requests
  <2>2. l \in Int
    BY <2>1, LevelType
  <2>3. entry \in Entry
    BY <2>1, <2>2, NextTurnType DEF Entry
  <2>4. IsFiniteSet(book \cup {entry})
    BY FS_AddElement
  <2>5. book' \subseteq Entry /\ IsFiniteSet(book')
    <3>. HIDE DEF entry
    <3>1. book' = book \/ book' = book \cup {entry}
      BY <1>5 DEF AddOrder, entry
    <3>2. QED  BY <3>1, <2>3, <2>4
  <2>6. StatusOf(r, left[w]) \in Statuses
    BY StatusType
  <2>7. index' \in [Orders -> Slot \cup {None}]
    <3>1. <<r.side, l>> \in Slot
      BY <2>1, <2>2 DEF Slot
    <3>2. index' = index \/ index' = [index EXCEPT ![r.order] = <<r.side, l>>]
      BY <1>5 DEF AddOrder
    <3>3. QED
      BY <3>1, <3>2
  <2>8. pc' \in [Workers -> Labels] /\ CallsOK'
    <3>1. pc' = [pc EXCEPT ![w] = "check"] \/ pc' = [pc EXCEPT ![w] = "count"]
      BY <1>5 DEF AddOrder
    <3>2. pc[w] = "settle" /\ req' = req /\ slot' = slot
      BY <1>5 DEF AddOrder
    <3>3. QED
      BY <3>1, <3>2
  <2>9. left' \in [Workers -> Nat] /\ result' \in [Orders -> Statuses \cup {None}]
    BY <1>5, <2>6 DEF AddOrder
  <2>10. QED
    BY <1>5, <2>5, <2>7, <2>8, <2>9 DEF AddOrder
<1>6. CASE CountOrder(w)
  BY <1>6 DEF CountOrder
<1>7. CASE SelfCheck(w)
  <2>1. NoReq \in Requests
    BY DEF NoReq, Requests, Sides
  <2>2. CallsOK'
    BY <1>7, <2>1 DEF SelfCheck
  <2>3. QED
    BY <1>7, <2>1, <2>2 DEF SelfCheck
<1>8. QED
  BY <1>1, <1>2, <1>3, <1>4, <1>5, <1>6, <1>7 DEF SubmitStep

\* The return of a cancel or amend keeps the types of what it changes.
LEMMA ReturnType ==
    ASSUME TypeOK, NEW w \in Workers, Return(w), pc[w] # "idle", pc[w] \notin SubmitLabels
    PROVE  /\ pc' \in [Workers -> Labels]
           /\ req' \in [Workers -> Requests]
           /\ left' \in [Workers -> Nat]
           /\ slot' \in [Workers -> Slot \cup {None}]
           /\ closed' \subseteq Orders
           /\ CallsOK'
<1>. USE DEF TypeOK, CallsOK, Goto, Finish, Labels, SubmitLabels, CancelLabels
<1>1. NoReq \in Requests
  BY DEF NoReq, Requests, Sides
<1>2. req[w].qty \in Nat
  BY DEF Requests
<1>3. CASE req[w].op = "amend"
  BY <1>2, <1>3 DEF Return
<1>4. CASE req[w].op # "amend"
  BY <1>1, <1>4 DEF Return
<1>5. QED
  BY <1>3, <1>4

\* Every step of a cancel keeps the types.
LEMMA CancelType ==
    ASSUME TypeOK, NEW w \in Workers, CancelStep(w)
    PROVE  TypeOK'
<1>. USE DEF TypeOK, CallsOK, Goto, Labels, SubmitLabels, CancelLabels, queues, aux
<1>0. \A e : IsFiniteSet(book \ {e})
  BY FS_RemoveElement
<1>1. CASE Unindex(w)
  <2>1. index[req[w].order] \in Slot \cup {None}
    BY <1>1 DEF Unindex
  <2>2. QED
    BY <1>1, <2>1 DEF Unindex
<1>2. CASE Unqueue(w)
  <2>1. CASE ~Return(w)
    <3>1. PICK e \in book : book' = book \ {e}
      BY <1>2, <2>1 DEF Unqueue, Queue, Entries, FirstOf
    <3>2. pc[w] = "unqueue" /\ pc' = [pc EXCEPT ![w] = "uncount"]
          /\ UNCHANGED <<index, count, last, lock, req, slot, left, aux>>
      BY <1>2, <2>1 DEF Unqueue
    <3>3. QED
      BY <1>0, <3>1, <3>2
  <2>2. CASE Return(w)
    <3>1. pc[w] = "unqueue" /\ (book' = book \/ \E e : book' = book \ {e})
          /\ UNCHANGED <<index, count, last, lock, placed, cancels, result, traded>>
      BY <1>2 DEF Unqueue
    <3>2. book' \subseteq Entry /\ IsFiniteSet(book')
      BY <1>0, <3>1
    <3>3. QED
      BY <2>2, <3>1, <3>2, ReturnType
  <2>3. QED
    BY <2>1, <2>2
<1>3. CASE ScanBids(w)
  <2>1. pc[w] = "scanbids" /\ (book' = book \/ \E e : book' = book \ {e})
        /\ (pc' = [pc EXCEPT ![w] = "dropindex"] \/ pc' = [pc EXCEPT ![w] = "scanasks"])
        /\ UNCHANGED <<index, count, last, lock, req, slot, left, aux>>
    BY <1>3 DEF ScanBids
  <2>2. book' \subseteq Entry /\ IsFiniteSet(book')
    <3>1. CASE book' = book  BY <3>1
    <3>2. CASE \E e : book' = book \ {e}  BY <1>0, <3>2
    <3>3. QED  BY <2>1, <3>1, <3>2
  <2>3. PICK label \in {"dropindex", "scanasks"} : pc' = [pc EXCEPT ![w] = label]
    BY <2>1
  <2>4. CallsOK' /\ pc' \in [Workers -> Labels]
    BY <2>1, <2>3
  <2>5. QED
    BY <2>1, <2>2, <2>4
<1>4. CASE ScanAsks(w)
  <2>1. CASE ~Return(w)
    <3>1. PICK e \in book : book' = book \ {e}
      BY <1>4, <2>1 DEF ScanAsks, Entries, FirstOf
    <3>2. pc[w] = "scanasks" /\ pc' = [pc EXCEPT ![w] = "dropindex"]
          /\ UNCHANGED <<index, count, last, lock, req, slot, left, aux>>
      BY <1>4, <2>1 DEF ScanAsks
    <3>3. QED
      BY <1>0, <3>1, <3>2
  <2>2. CASE Return(w)
    <3>1. pc[w] = "scanasks" /\ (book' = book \/ \E e : book' = book \ {e})
          /\ UNCHANGED <<index, count, last, lock, placed, cancels, result, traded>>
      BY <1>4 DEF ScanAsks
    <3>2. book' \subseteq Entry /\ IsFiniteSet(book')
      BY <1>0, <3>1
    <3>3. QED
      BY <2>2, <3>1, <3>2, ReturnType
  <2>3. QED
    BY <2>1, <2>2
<1>5. CASE DropIndex(w)
  BY <1>5 DEF DropIndex
<1>6. CASE Uncount(w)
  <2>1. pc[w] = "uncount" /\ Return(w) /\ count' \in Int
        /\ UNCHANGED <<book, index, last, lock, placed, cancels, result, traded>>
    BY <1>6 DEF Uncount
  <2>2. QED
    BY <2>1, ReturnType
<1>7. QED
  BY <1>1, <1>2, <1>3, <1>4, <1>5, <1>6 DEF CancelStep

\* A new call keeps the types.
LEMMA CallType ==
    ASSUME TypeOK, NEW w \in Workers, Call(w)
    PROVE  TypeOK'
<1>. USE DEF TypeOK, CallsOK, Goto, Labels, SubmitLabels, CancelLabels, queues
<1>1. PICK o \in Orders : (\E t \in Terms : Submit(w, o, t) \/ Amend(w, o, t)) \/ Cancel(w, o)
  BY DEF Call
<1>2. CASE Cancel(w, o)
  <2>. DEFINE r == [NoReq EXCEPT !.order = o, !.op = "cancel", !.late = ~Submitting(o)]
  <2>1. r \in Requests /\ r.order = o /\ r.op = "cancel"
    BY DEF NoReq, Requests, Sides
  <2>. HIDE DEF r
  <2>2. req' = [req EXCEPT ![w] = r] /\ pc' = [pc EXCEPT ![w] = "unindex"]
        /\ UNCHANGED <<queues, left, slot, placed, result, traded, closed>>
        /\ cancels' = [cancels EXCEPT ![o] = @ + 1]
    BY <1>2 DEF Cancel, r
  <2>3. QED
    BY <2>1, <2>2
<1>3. CASE \E t \in Terms : Submit(w, o, t) \/ Amend(w, o, t)
  <2>1. PICK t \in Terms : Submit(w, o, t) \/ Amend(w, o, t)
    BY <1>3
  <2>2. \A op \in {"submit", "amend"} :
          Request(o, t, op, FALSE) \in Requests
          /\ Request(o, t, op, FALSE).order = o
          /\ Request(o, t, op, FALSE).op # "cancel"
          /\ Request(o, t, op, FALSE).limit = t.limit
          /\ Request(o, t, op, FALSE).kind = t.kind
    BY QuantityAssumption, TifAssumption, KindAssumption
       DEF Request, Requests, Terms
  <2>3. t.qty \in Nat /\ t.side \in Sides /\ (t.kind = "limit" => t.limit \in Prices)
    BY <2>1, QuantityAssumption DEF Terms, Submit, Amend, ValidTerms
  <2>. HIDE DEF Request
  <2>4. CASE Submit(w, o, t)
    <3>. DEFINE r == Request(o, t, "submit", FALSE)
    <3>1. req' = [req EXCEPT ![w] = r] /\ pc' = [pc EXCEPT ![w] = "match"]
          /\ left' = [left EXCEPT ![w] = t.qty] /\ placed' = [placed EXCEPT ![o] = t.side]
          /\ UNCHANGED <<queues, slot, cancels, result, traded, closed>>
      BY <2>4 DEF Submit
    <3>. HIDE DEF r
    <3>2. r \in Requests /\ r.order = o /\ r.op # "cancel"
          /\ (r.kind = "limit" => r.limit \in Prices)
      BY <2>2, <2>3 DEF r
    <3>3. QED
      BY <2>3, <3>1, <3>2
  <2>5. CASE Amend(w, o, t)
    <3>. DEFINE r == Request(o, t, "amend", FALSE)
    <3>1. req' = [req EXCEPT ![w] = r] /\ pc' = [pc EXCEPT ![w] = "unindex"]
          /\ cancels' = [cancels EXCEPT ![o] = @ + 1]
          /\ UNCHANGED <<queues, left, slot, placed, result, traded, closed>>
      BY <2>5 DEF Amend
    <3>. HIDE DEF r
    <3>2. r \in Requests /\ r.order = o /\ r.op # "cancel"
          /\ (r.kind = "limit" => r.limit \in Prices)
      BY <2>2, <2>3 DEF r
    <3>3. QED
      BY <3>1, <3>2
  <2>6. QED
    BY <2>1, <2>4, <2>5
<1>4. QED
  BY <1>1, <1>2, <1>3

\* TypeOK is an inductive invariant: for every number of threads and orders,
\* every variable keeps its type, entries keep a positive quantity and calls
\* have the arguments their next step reads.
THEOREM TypeCorrect == Spec => []TypeOK
<1>1. Init => TypeOK
  BY InitType
<1>2. TypeOK /\ [Next]_vars => TypeOK'
  <2>1. SUFFICES ASSUME TypeOK, [Next]_vars PROVE TypeOK'
    OBVIOUS
  <2>2. CASE UNCHANGED vars
    BY <2>1, <2>2 DEF TypeOK, CallsOK, vars, queues, calls, aux
  <2>3. ASSUME NEW w \in Workers, Call(w) \/ SubmitStep(w) \/ CancelStep(w)
        PROVE  TypeOK'
    BY <2>1, <2>3, CallType, SubmitType, CancelType
  <2>4. QED
    BY <2>1, <2>2, <2>3 DEF Next
<1>3. QED
  BY <1>1, <1>2, PTL DEF Spec

-----------------------------------------------------------------------------
(* Mutual exclusion of sweeps. *)

\* Only the start and the end of a sweep touch the locks; every other step
\* leaves the sweeps of all workers and their arguments alone.
LEMMA LockFrame ==
    ASSUME TypeOK, NEW w \in Workers, Call(w) \/ SubmitStep(w) \/ CancelStep(w),
           ~BeginMatch(w), ~EndMatch(w)
    PROVE  /\ lock' = lock
           /\ \A v \in Workers : (pc'[v] = "sweep") <=> (pc[v] = "sweep")
           /\ \A v \in Workers : pc[v] = "sweep" => req'[v] = req[v]
<1>. USE DEF TypeOK, Goto, Finish, Return, queues, aux
<1>1. CASE Call(w)
  BY ZenonT(40), <1>1 DEF Call, Submit, Amend, Cancel
<1>2. CASE SubmitStep(w)
  <2>1. CASE \E e \in book : Trade(w, e)  BY <2>1 DEF Trade
  <2>2. CASE Settle(w)  BY <2>2 DEF Settle
  <2>3. CASE AddOrder(w)  BY <2>3 DEF AddOrder
  <2>4. CASE CountOrder(w)  BY <2>4 DEF CountOrder
  <2>5. CASE SelfCheck(w)  BY <2>5 DEF SelfCheck
  <2>6. QED  BY <1>2, <2>1, <2>2, <2>3, <2>4, <2>5 DEF SubmitStep
<1>3. CASE CancelStep(w)
  <2>1. CASE Unindex(w)  BY <2>1 DEF Unindex
  <2>2. CASE Unqueue(w)  BY <2>2 DEF Unqueue
  <2>3. CASE ScanBids(w)  BY <2>3 DEF ScanBids
  <2>4. CASE ScanAsks(w)  BY <2>4 DEF ScanAsks
  <2>5. CASE DropIndex(w)  BY <2>5 DEF DropIndex
  <2>6. CASE Uncount(w)  BY <2>6 DEF Uncount
  <2>7. QED  BY <1>3, <2>1, <2>2, <2>3, <2>4, <2>5, <2>6 DEF CancelStep
<1>4. QED
  BY SMTT(30), <1>1, <1>2, <1>3

\* A side's lock is held exactly by the worker that sweeps that side: two takers
\* never consume one side at a time, and no add or cancel works on a side while
\* it is swept.
THEOREM SweepsExclude == Spec => []SweepHoldsLock
<1>1. Init => SweepHoldsLock
  BY NoneAssumption DEF Init, SweepHoldsLock
<1>2. TypeOK /\ SweepHoldsLock /\ [Next]_vars => SweepHoldsLock'
  <2>1. SUFFICES ASSUME TypeOK, SweepHoldsLock, [Next]_vars PROVE SweepHoldsLock'
    OBVIOUS
  <2>2. CASE UNCHANGED vars
    BY <2>1, <2>2 DEF SweepHoldsLock, vars, queues, calls
  <2>3. ASSUME NEW w \in Workers, Call(w) \/ SubmitStep(w) \/ CancelStep(w)
        PROVE  SweepHoldsLock'
    <3>1. CASE BeginMatch(w)
      <4>1. /\ pc[w] = "match" /\ req' = req
            /\ \/ lock' = lock /\ pc' = [pc EXCEPT ![w] = "settle"]
               \/ /\ lock' = [lock EXCEPT ![Opposite(req[w].side)] = w]
                  /\ pc' = [pc EXCEPT ![w] = "sweep"]
            /\ lock[Opposite(req[w].side)] = None
        BY <3>1 DEF BeginMatch, Goto
      <4>2. Opposite(req[w].side) \in Sides
        BY DEF Opposite, Sides
      <4>3. QED
        BY <2>1, <4>1, <4>2, NoneAssumption DEF SweepHoldsLock, TypeOK
    <3>2. CASE EndMatch(w)
      <4>1. /\ pc[w] = "sweep" /\ req' = req
            /\ lock' = [lock EXCEPT ![Opposite(req[w].side)] = None]
            /\ pc' = [pc EXCEPT ![w] = "settle"]
        BY <3>2 DEF EndMatch, Goto
      <4>2. Opposite(req[w].side) \in Sides
        BY DEF Opposite, Sides
      <4>3. QED
        BY <2>1, <4>1, <4>2, NoneAssumption DEF SweepHoldsLock, TypeOK
    <3>3. CASE ~BeginMatch(w) /\ ~EndMatch(w)
      BY <2>1, <2>3, <3>3, LockFrame DEF SweepHoldsLock
    <3>4. QED
      BY <3>1, <3>2, <3>3
  <2>4. QED
    BY <2>1, <2>2, <2>3 DEF Next
<1>3. QED
  BY <1>1, <1>2, TypeCorrect, PTL DEF Spec

-----------------------------------------------------------------------------
(* Prices on the grid of levels. *)

\* On the grid a level's price is the price of each of its entries.
LEMMA OnGrid ==
    ASSUME Scale = 1, NEW p \in Prices
    PROVE  Level(p) = p /\ LevelPrice(Level(p)) = p
  BY PriceAssumption DEF Level, LevelPrice

-----------------------------------------------------------------------------
(* The order counter. *)

\* How the number of workers at some labels changes when one worker moves.
LEMMA CountAt ==
    ASSUME TypeOK, NEW w \in Workers, NEW label, NEW L,
           pc' = [pc EXCEPT ![w] = label]
    PROVE  /\ Cardinality(At(L)) \in Int
           /\ Cardinality(At(L)') = Cardinality(At(L))
                + (IF label \in L THEN 1 ELSE 0) - (IF pc[w] \in L THEN 1 ELSE 0)
<1>1. IsFiniteSet(At(L)) /\ IsFiniteSet(At(L)')
  BY WorkerAssumption, FS_Subset DEF At
<1>2. \A v \in Workers \ {w} : pc'[v] = pc[v]
  BY DEF TypeOK
<1>3. pc'[w] = label
  BY DEF TypeOK
<1>4. Cardinality(At(L)) \in Int
  BY <1>1, FS_CardinalityType
<1>5. CASE label \in L /\ pc[w] \notin L
  <2>1. At(L)' = At(L) \cup {w} /\ w \notin At(L)
    BY <1>2, <1>3, <1>5 DEF At
  <2>2. QED  BY <1>1, <1>4, <1>5, <2>1, FS_AddElement
<1>6. CASE label \notin L /\ pc[w] \in L
  <2>1. At(L)' = At(L) \ {w} /\ w \in At(L)
    BY <1>2, <1>3, <1>6 DEF At
  <2>2. QED  BY <1>1, <1>4, <1>6, <2>1, FS_RemoveElement
<1>7. CASE (label \in L) <=> (pc[w] \in L)
  <2>1. At(L)' = At(L)
    BY <1>2, <1>3, <1>7 DEF At
  <2>2. QED  BY <1>4, <1>7, <2>1
<1>8. QED
  BY <1>5, <1>6, <1>7

Owed == Cardinality(At({"count"})) - Cardinality(At({"dropindex", "uncount"}))

\* What a worker at a label owes.
Weight(label) ==
    IF label = "count" THEN 1
    ELSE IF label \in {"dropindex", "uncount"} THEN -1 ELSE 0

\* What a step of w does to the owed increments and decrements.
LEMMA OwedAfter ==
    ASSUME TypeOK, NEW w \in Workers, NEW label, Goto(w, label)
    PROVE  Owed \in Int /\ Owed' = Owed + Weight(label) - Weight(pc[w])
<1>. USE DEF Goto
<1>1. Cardinality(At({"count"})) \in Int /\ Cardinality(At({"dropindex", "uncount"})) \in Int
  BY CountAt
<1>2. Cardinality(At({"count"})') = Cardinality(At({"count"}))
         + (IF label \in {"count"} THEN 1 ELSE 0) - (IF pc[w] \in {"count"} THEN 1 ELSE 0)
  BY CountAt
<1>. DEFINE D == {"dropindex", "uncount"}
<1>3. Cardinality(At(D)') = Cardinality(At(D))
         + (IF label \in D THEN 1 ELSE 0) - (IF pc[w] \in D THEN 1 ELSE 0)
  <2>. HIDE DEF D
  <2>. QED  BY CountAt
<1>4. /\ Owed = Cardinality(At({"count"})) - Cardinality(At({"dropindex", "uncount"}))
      /\ Owed' = Cardinality(At({"count"})') - Cardinality(At({"dropindex", "uncount"})')
  BY DEF Owed
<1>5. QED
  BY <1>1, <1>2, <1>3, <1>4 DEF Weight

\* An entry joins or leaves the queues: their size changes by one.
LEMMA BookSize ==
    ASSUME TypeOK
    PROVE  /\ Cardinality(book) \in Nat
           /\ \A e \in book : Cardinality(book \ {e}) = Cardinality(book) - 1
           /\ \A e : e \notin book => Cardinality(book \cup {e}) = Cardinality(book) + 1
           /\ \A e \in book : \A f : f \notin book =>
                 Cardinality((book \ {e}) \cup {f}) = Cardinality(book)
<1>1. IsFiniteSet(book)
  BY DEF TypeOK
<1>2. Cardinality(book) \in Nat
  BY <1>1, FS_CardinalityType
<1>3. \A e \in book : IsFiniteSet(book \ {e}) /\ Cardinality(book \ {e}) = Cardinality(book) - 1
  BY <1>1, FS_RemoveElement
<1>4. \A e : e \notin book => Cardinality(book \cup {e}) = Cardinality(book) + 1
  BY <1>1, FS_AddElement
<1>5. ASSUME NEW e \in book, NEW f, f \notin book
      PROVE  Cardinality((book \ {e}) \cup {f}) = Cardinality(book)
  <2>1. f \notin book \ {e}
    BY <1>5
  <2>2. Cardinality((book \ {e}) \cup {f}) = Cardinality(book \ {e}) + 1
    BY <1>3, <2>1, FS_AddElement
  <2>3. Cardinality(book \ {e}) = Cardinality(book) - 1
    BY <1>3, <1>5
  <2>. HIDE <1>3
  <2>4. QED
    BY <1>2, <2>2, <2>3
<1>6. QED
  BY <1>2, <1>3, <1>4, <1>5

\* Two queued entries never share a place in one queue, so an entry is known by
\* its side, level and turn.
TurnsDistinct ==
    \A e, f \in book :
        e.side = f.side /\ EntryLevel(e) = EntryLevel(f) /\ e.turn = f.turn => e = f

CountInv == TurnsDistinct /\ CountAgrees

\* What each step does to the queues, the counter and the step's own label.
Joins(e) == /\ e \notin book /\ book' = book \cup {e} /\ count' = count
            /\ \A f \in book : f.side = e.side /\ EntryLevel(f) = EntryLevel(e)
                                => f.turn # e.turn
Shrinks(e, n) == /\ e \in book /\ n \in Nat
                 /\ book' = (book \ {e}) \cup {[e EXCEPT !.rem = n]}
                 /\ n # e.rem /\ count' = count

\* Changing only the quantity of one entry keeps turns distinct and the number
\* of entries.
LEMMA ShrinkEffect ==
    ASSUME TypeOK, TurnsDistinct, NEW e, NEW n, Shrinks(e, n)
    PROVE  TurnsDistinct' /\ Cardinality(book') = Cardinality(book)
<1>. DEFINE g == [e EXCEPT !.rem = n]
<1>1. e \in Entry
  BY DEF Shrinks, TypeOK
<1>2. g.side = e.side /\ g.price = e.price /\ g.turn = e.turn /\ g.rem = n
  BY <1>1 DEF Entry
<1>3. g # e /\ EntryLevel(g) = EntryLevel(e)
  BY <1>2 DEF Shrinks, EntryLevel
<1>4. book' = (book \ {e}) \cup {g}
  BY DEF Shrinks
<1>. HIDE DEF g
<1>5. g \notin book
  BY <1>2, <1>3 DEF TurnsDistinct, Shrinks
<1>6. TurnsDistinct'
  BY <1>2, <1>3, <1>4 DEF TurnsDistinct, Shrinks, EntryLevel
<1>7. Cardinality(book') = Cardinality(book)
  BY <1>4, <1>5, BookSize DEF Shrinks
<1>8. QED
  BY <1>6, <1>7

\* An entry that joins at the back of its queue keeps turns distinct.
LEMMA JoinEffect ==
    ASSUME TypeOK, TurnsDistinct, NEW e, Joins(e)
    PROVE  TurnsDistinct' /\ Cardinality(book') = Cardinality(book) + 1
<1>1. TurnsDistinct'
  BY DEF TurnsDistinct, Joins, EntryLevel
<1>2. QED
  BY <1>1, BookSize DEF Joins

\* An entry that leaves keeps turns distinct.
LEMMA LeaveEffect ==
    ASSUME TypeOK, TurnsDistinct, NEW e \in book, book' = book \ {e}
    PROVE  TurnsDistinct' /\ Cardinality(book') = Cardinality(book) - 1
  BY BookSize DEF TurnsDistinct, EntryLevel

\* CountAgrees in terms of what is owed.
LEMMA CountFacts ==
    ASSUME TypeOK, CountInv
    PROVE  /\ Cardinality(book) \in Nat /\ count \in Int /\ Owed \in Int
           /\ count + Owed = Cardinality(book)
<1>1. count + Owed = Cardinality(book) /\ count \in Int
  BY DEF TypeOK, CountInv, CountAgrees, Owed
<1>2. Cardinality(At({"count"})) \in Int
      /\ Cardinality(At({"dropindex", "uncount"})) \in Int
  BY WorkerAssumption, FS_Subset, FS_CardinalityType DEF At
<1>3. QED
  BY <1>1, <1>2, BookSize DEF Owed

\* A step that leaves the queues alone keeps turns distinct.
LEMMA SameQueues ==
    ASSUME CountInv, book' = book
    PROVE  TurnsDistinct' /\ Cardinality(book') = Cardinality(book)
  BY DEF CountInv, TurnsDistinct, EntryLevel

\* Every step of a submit keeps the counter honest.
LEMMA SubmitCount ==
    ASSUME TypeOK, CountInv, NEW w \in Workers, SubmitStep(w)
    PROVE  CountInv'
<1>. USE DEF Finish, queues, aux
<1>0. /\ Cardinality(book) \in Nat /\ count \in Int /\ Owed \in Int
      /\ count + Owed = Cardinality(book)
  BY CountFacts
<1>. SUFFICES TurnsDistinct' /\ count' + Owed' = Cardinality(book')
  BY DEF CountInv, CountAgrees, Owed
<1>1. CASE \E e \in book : Trade(w, e)
  <2>1. PICK e \in book : Trade(w, e)
    BY <1>1
  <2>. DEFINE q == TradeAmount(left[w], e.rem)
  <2>2. Owed' = Owed
    BY <2>1 DEF Trade, Owed, At
  <2>3. CASE Consumed(q, e)
    <3>1. book' = book \ {e} /\ count' = count - 1
      BY <2>1, <2>3 DEF Trade
    <3>2. QED
      <4>1. TurnsDistinct' /\ Cardinality(book') = Cardinality(book) - 1
        BY <3>1, LeaveEffect DEF CountInv
      <4>2. QED
        BY <1>0, <2>2, <3>1, <4>1
  <2>4. CASE ~Consumed(q, e)
    <3>1. book' = (book \ {e}) \cup {[e EXCEPT !.rem = e.rem - q]} /\ count' = count
      BY <2>1, <2>4 DEF Trade
    <3>2. e \in Entry /\ q \in Nat /\ 0 < q /\ q <= e.rem /\ q # e.rem
      BY <2>1, <2>4 DEF Trade, TradeAmount, Consumed, TypeOK, Entry
    <3>3. e.rem - q \in Nat /\ e.rem - q # e.rem
      BY <3>2 DEF Entry
    <3>4. Shrinks(e, e.rem - q)
      BY <3>1, <3>3 DEF Shrinks
    <3>5. QED
      BY <1>0, <2>2, <3>1, <3>4, ShrinkEffect DEF CountInv
  <2>5. QED
    BY <2>3, <2>4
<1>2. CASE AddOrder(w)
  <2>. DEFINE r == req[w]
              l == Level(r.limit)
              entry == [id |-> r.order, side |-> r.side, price |-> r.limit,
                        rem |-> left[w], turn |-> NextTurn(r.side, l)]
  <2>1. r.limit \in Prices /\ r.side \in Sides /\ l \in Int
    BY <1>2, LevelType DEF AddOrder, Rests, TypeOK, CallsOK, Requests, SubmitLabels
  <2>2. \A f \in book : f.side = r.side /\ EntryLevel(f) = l => f.turn < NextTurn(r.side, l)
    BY <2>1, NextTurnType DEF Queue, Entries
  <2>3. NextTurn(r.side, l) \in Nat
    BY <2>1, NextTurnType
  <2>4. CASE index[r.order] # None
    <3>1. book' = book /\ count' = count /\ pc[w] = "settle" /\ Goto(w, "check")
      BY <1>2, <2>4 DEF AddOrder
    <3>2. Owed' = Owed
      BY <3>1, OwedAfter DEF Weight
    <3>3. QED
      BY <1>0, SameQueues, <3>1, <3>2
  <2>5. CASE index[r.order] = None
    <3>1. book' = book \cup {entry} /\ count' = count /\ pc[w] = "settle"
          /\ Goto(w, "count")
      BY <1>2, <2>5 DEF AddOrder
    <3>2. entry.side = r.side /\ EntryLevel(entry) = l /\ entry.turn = NextTurn(r.side, l)
      BY DEF EntryLevel
    <3>. HIDE DEF entry, l
    <3>3. \A f \in book : f.turn \in Nat
      BY DEF TypeOK, Entry
    <3>4. Joins(entry)
      BY <2>2, <2>3, <3>1, <3>2, <3>3 DEF Joins
    <3>5. Owed' = Owed + 1
      BY <3>1, OwedAfter DEF Weight
    <3>6. QED
      <4>1. TurnsDistinct' /\ Cardinality(book') = Cardinality(book) + 1
        BY <3>4, JoinEffect DEF CountInv
      <4>2. QED
        BY <1>0, <3>1, <3>5, <4>1
  <2>6. QED
    BY <2>4, <2>5
<1>3. CASE CountOrder(w)
  <2>1. book' = book /\ count' = count + 1 /\ pc[w] = "count" /\ Goto(w, "check")
    BY <1>3 DEF CountOrder
  <2>2. Owed' = Owed - 1 /\ Owed \in Int
    BY <2>1, OwedAfter DEF Weight
  <2>3. QED
    BY <1>0, SameQueues, <2>1, <2>2
<1>4. CASE BeginMatch(w) \/ EndMatch(w) \/ Settle(w) \/ SelfCheck(w)
  <2>1. PICK label \in {"settle", "sweep", "check", "idle"} : Goto(w, label)
    BY <1>4 DEF BeginMatch, EndMatch, Settle, SelfCheck
  <2>2. book' = book /\ count' = count /\ pc[w] \in {"match", "sweep", "settle", "check"}
    BY <1>4 DEF BeginMatch, EndMatch, Settle, SelfCheck
  <2>3. Owed' = Owed
    BY <2>1, <2>2, OwedAfter DEF Weight
  <2>4. QED
    BY <1>0, SameQueues, <2>2, <2>3
<1>5. QED
  BY <1>1, <1>2, <1>3, <1>4 DEF SubmitStep

\* A returning cancel or amend leaves nothing owed.
LEMMA ReturnWeight ==
    ASSUME TypeOK, NEW w \in Workers, Return(w)
    PROVE  Owed' = Owed - Weight(pc[w]) /\ Owed \in Int
<1>1. PICK label \in {"idle", "match"} : Goto(w, label)
  BY DEF Return, Finish
<1>2. QED
  BY <1>1, OwedAfter DEF Weight

\* Every step of a cancel keeps the counter honest.
LEMMA CancelCount ==
    ASSUME TypeOK, CountInv, NEW w \in Workers, CancelStep(w)
    PROVE  CountInv'
<1>0. /\ Cardinality(book) \in Nat /\ count \in Int /\ Owed \in Int
      /\ count + Owed = Cardinality(book)
  BY CountFacts
<1>. SUFFICES TurnsDistinct' /\ count' + Owed' = Cardinality(book')
  BY DEF CountInv, CountAgrees, Owed
<1>1. CASE Unindex(w)
  <2>1. PICK label \in {"unqueue", "scanbids"} : Goto(w, label)
    BY <1>1 DEF Unindex
  <2>2. book' = book /\ count' = count /\ pc[w] = "unindex"
    BY <1>1 DEF Unindex
  <2>3. Owed' = Owed
    BY <1>0, <2>1, <2>2, OwedAfter DEF Weight
  <2>4. QED
    BY <1>0, <2>2, <2>3, SameQueues
<1>2. ASSUME NEW e \in book, NEW label, book' = book \ {e}, count' = count,
             pc[w] \in {"unqueue", "scanbids", "scanasks"},
             label \in {"dropindex", "uncount"}, Goto(w, label)
      PROVE  TurnsDistinct' /\ count' + Owed' = Cardinality(book')
  <2>1. Owed' = Owed - 1
    BY <1>0, <1>2, OwedAfter DEF Weight
  <2>2. TurnsDistinct' /\ Cardinality(book') = Cardinality(book) - 1
    BY <1>2, LeaveEffect DEF CountInv
  <2>3. QED
    BY <1>0, <1>2, <2>1, <2>2
<1>3. ASSUME book' = book, count' = count, pc[w] \in {"unqueue", "scanbids", "scanasks"},
             Return(w) \/ Goto(w, "scanasks")
      PROVE  TurnsDistinct' /\ count' + Owed' = Cardinality(book')
  <2>1. Owed' = Owed
    BY <1>0, <1>3, ReturnWeight, OwedAfter DEF Weight
  <2>2. QED
    BY <1>0, <1>3, <2>1, SameQueues
<1>4. CASE Unqueue(w)
  <2>1. pc[w] = "unqueue" /\ count' = count
    BY <1>4 DEF Unqueue
  <2>2. (\E e \in book : book' = book \ {e} /\ Goto(w, "uncount"))
        \/ (book' = book /\ Return(w))
    BY <1>4 DEF Unqueue, Queue, Entries
  <2>3. QED
    BY <1>2, <1>3, <2>1, <2>2
<1>5. CASE ScanBids(w)
  <2>1. pc[w] = "scanbids" /\ count' = count
    BY <1>5 DEF ScanBids
  <2>2. (\E e \in book : book' = book \ {e} /\ Goto(w, "dropindex"))
        \/ (book' = book /\ Goto(w, "scanasks"))
    BY <1>5 DEF ScanBids, Entries
  <2>3. QED
    BY <1>2, <1>3, <2>1, <2>2
<1>6. CASE ScanAsks(w)
  <2>1. pc[w] = "scanasks" /\ count' = count
    BY <1>6 DEF ScanAsks
  <2>2. (\E e \in book : book' = book \ {e} /\ Goto(w, "dropindex"))
        \/ (book' = book /\ Return(w))
    BY <1>6 DEF ScanAsks, Entries
  <2>3. QED
    BY <1>2, <1>3, <2>1, <2>2
<1>7. CASE DropIndex(w)
  <2>1. book' = book /\ count' = count /\ pc[w] = "dropindex" /\ Goto(w, "uncount")
    BY <1>7 DEF DropIndex
  <2>2. Owed' = Owed
    BY <1>0, <2>1, OwedAfter DEF Weight
  <2>3. QED
    BY <1>0, <2>1, <2>2, SameQueues
<1>8. CASE Uncount(w)
  <2>1. book' = book /\ count' = count - 1 /\ pc[w] = "uncount" /\ Return(w)
    BY <1>8 DEF Uncount
  <2>2. Owed' = Owed + 1
    BY <1>0, <2>1, ReturnWeight DEF Weight
  <2>3. QED
    BY <1>0, <2>1, <2>2, SameQueues
<1>9. QED
  BY <1>1, <1>4, <1>5, <1>6, <1>7, <1>8 DEF CancelStep

\* CountInv is inductive given the types.
LEMMA CountInvariant == Spec => []CountInv
<1>1. Init => CountInv
  <2>1. SUFFICES ASSUME Init PROVE CountInv
    OBVIOUS
  <2>2. At({"count"}) = {} /\ At({"dropindex", "uncount"}) = {} /\ book = {} /\ count = 0
    <3>1. pc = [w \in Workers |-> "idle"] /\ book = {} /\ count = 0
      BY <2>1 DEF Init
    <3>2. QED
      BY <3>1 DEF At
  <2>3. Cardinality({}) = 0
    BY FS_EmptySet
  <2>4. TurnsDistinct
    BY <2>2 DEF TurnsDistinct
  <2>5. CountAgrees
    BY <2>2, <2>3 DEF CountAgrees
  <2>6. QED
    BY <2>4, <2>5 DEF CountInv
<1>2. TypeOK /\ CountInv /\ [Next]_vars => CountInv'
  <2>1. SUFFICES ASSUME TypeOK, CountInv, [Next]_vars PROVE CountInv'
    OBVIOUS
  <2>2. CASE UNCHANGED vars
    <3>1. book' = book /\ count' = count /\ pc' = pc
      BY <2>2 DEF vars, queues, calls
    <3>2. QED
      BY <2>1, <3>1 DEF CountInv, CountAgrees, TurnsDistinct, EntryLevel, At
  <2>3. ASSUME NEW w \in Workers, Call(w) PROVE CountInv'
    <3>1. book' = book /\ count' = count /\ pc[w] = "idle"
      BY <2>3 DEF Call, Submit, Amend, Cancel, queues
    <3>2. PICK label \in {"match", "unindex"} : Goto(w, label)
      BY <2>3 DEF Call, Submit, Amend, Cancel
    <3>3. Owed' = Owed
      BY <2>1, <3>1, <3>2, OwedAfter, CountFacts DEF Weight
    <3>4. QED
      BY <2>1, <3>1, <3>3, SameQueues, CountFacts DEF CountInv, CountAgrees, Owed
  <2>4. QED
    BY <2>1, <2>2, <2>3, SubmitCount, CancelCount DEF Next
<1>3. QED
  BY <1>1, <1>2, TypeCorrect, PTL DEF Spec

\* order_count is exact up to the increments and decrements still owed, for any
\* number of threads and whatever calls they race, amends included.
THEOREM CounterCorrect == Spec => []CountAgrees
<1>1. CountInv => CountAgrees
  BY DEF CountInv
<1>2. QED
  BY <1>1, CountInvariant, PTL

-----------------------------------------------------------------------------
(* Queues and index: orders submitted once. *)

\* The invariant behind the next two theorems, for orders submitted once.  Who
\* calls what about an order:
Callers ==
    /\ \A w \in Workers : pc[w] # "idle" => placed[req[w].order] # None
    /\ \A w \in Workers : pc[w] \in CancelLabels => req[w].op = "cancel"
    /\ \A v, w \in Workers :
          pc[v] \in SubmitLabels /\ pc[w] \in SubmitLabels
            /\ req[v].order = req[w].order => v = w
    /\ \A e \in book : placed[e.id] # None
    /\ \A o \in closed : placed[o] # None /\ ~Submitting(o)

\* An order on its way in is not in the queues or the index, and no cancel has
\* met it there.
Incoming ==
    \A w \in Workers : pc[w] \in {"match", "sweep", "settle"} =>
        /\ index[req[w].order] = None
        /\ \A e \in book : e.id # req[w].order
        /\ \A v \in Workers : pc[v] \in {"unqueue", "dropindex", "uncount"}
                                => req[v].order # req[w].order

\* What each cancel knows of its order at each of its steps.
Leaving ==
    \A w \in Workers :
        /\ pc[w] = "unqueue" =>
             /\ index[req[w].order] = None
             /\ \A e \in book : e.id = req[w].order => slot[w] = <<e.side, EntryLevel(e)>>
        /\ pc[w] \in {"dropindex", "uncount"} => \A e \in book : e.id # req[w].order
        /\ pc[w] \in CancelLabels /\ req[w].late =>
             /\ ~Submitting(req[w].order)
             /\ pc[w] = "scanasks" =>
                  \A e \in book : e.side = "Buy" => e.id # req[w].order

OnceInv == Callers /\ Incoming /\ Leaving /\ IndexAgrees /\ CancelIsFinal

\* The functions among the variables, and what the proofs read of an entry.
Shape ==
    /\ pc \in [Workers -> Labels] /\ DOMAIN req = Workers /\ DOMAIN slot = Workers
    /\ index \in [Orders -> Slot \cup {None}] /\ DOMAIN placed = Orders
    /\ \A w \in Workers : pc[w] # "idle" => req[w].order \in Orders
    /\ \A e \in book : e.id \in Orders /\ e.side \in Sides /\ EntryLevel(e) \in Int
    /\ None \notin Slot /\ None \notin Sides

LEMMA ShapeOf == ASSUME TypeOK PROVE Shape
<1>1. \A e \in book : e.price \in Prices
  BY DEF TypeOK, Entry
<1>2. \A e \in book : EntryLevel(e) \in Int
  BY <1>1, LevelType DEF EntryLevel
<1>3. None \notin Slot
  BY NoneAssumption DEF Slot
<1>4. None \notin Sides
  BY NoneAssumption
<1>5. QED
  BY <1>2, <1>3, <1>4 DEF Shape, TypeOK, CallsOK, Entry

\* The queues hold the same orders at the same places.
SamePlaces ==
    /\ \A f \in book' : \E e \in book :
          f.id = e.id /\ f.side = e.side /\ EntryLevel(f) = EntryLevel(e)
    /\ \A e \in book : \E f \in book' :
          f.id = e.id /\ f.side = e.side /\ EntryLevel(f) = EntryLevel(e)
    /\ (\A e, f \in book : e.id = f.id => e = f) => \A e, f \in book' : e.id = f.id => e = f

LEMMA ShrinkPlaces ==
    ASSUME TypeOK, NEW e, NEW n, Shrinks(e, n)
    PROVE  SamePlaces
<1>. DEFINE g == [e EXCEPT !.rem = n]
<1>1. e \in Entry
  BY DEF Shrinks, TypeOK
<1>2. g.side = e.side /\ g.price = e.price /\ g.id = e.id
  BY <1>1 DEF Entry
<1>3. EntryLevel(g) = EntryLevel(e)
  BY <1>2 DEF EntryLevel
<1>4. book' = (book \ {e}) \cup {g} /\ e \in book
  BY DEF Shrinks
<1>. HIDE DEF g
<1>5. QED
  BY <1>2, <1>3, <1>4 DEF SamePlaces, EntryLevel

\* A step of a submit that leaves queues and index alone.
LEMMA QuietSubmitStep ==
    ASSUME Shape, OnceInv, NEW w \in Workers,
           NEW l, pc[w] \in SubmitLabels, pc' = [pc EXCEPT ![w] = l],
           \/ l = "check" /\ req' = req
           \/ l = "idle" /\ req' = [req EXCEPT ![w] = NoReq]
           \/ l \in {"sweep", "settle"} /\ pc[w] \in {"match", "sweep"} /\ req' = req,
           book' = book /\ index' = index /\ slot' = slot /\ placed' = placed /\ closed' = closed
    PROVE  OnceInv'
<1>. USE DEF Submitting, SubmitLabels, CancelLabels, Labels, EntryLevel, Shape, OnceInv,
             Callers, Incoming, Leaving, IndexAgrees, CancelIsFinal, Holds, NoReq
<1>1. Callers'  OBVIOUS
<1>2. Incoming'  OBVIOUS
<1>3. Leaving'  OBVIOUS
<1>4. IndexAgrees'  OBVIOUS
<1>5. CancelIsFinal'  OBVIOUS
<1>6. QED  BY <1>1, <1>2, <1>3, <1>4, <1>5

\* A sweep consumes a maker, index entry included, or takes part of it.
LEMMA SweepStep ==
    ASSUME Shape, OnceInv, NEW w \in Workers,
           NEW e \in book,
           \/ book' = book \ {e} /\ index' = [index EXCEPT ![e.id] = None]
           \/ SamePlaces /\ index' = index,
           pc' = pc /\ req' = req /\ slot' = slot /\ placed' = placed /\ closed' = closed
    PROVE  OnceInv'
<1>. USE DEF Submitting, SubmitLabels, CancelLabels, Labels, EntryLevel, Shape, OnceInv,
             Callers, Incoming, Leaving, IndexAgrees, CancelIsFinal, Holds, NoReq, SamePlaces
<1>1. Callers'  OBVIOUS
<1>2. Incoming'  OBVIOUS
<1>3. Leaving'  OBVIOUS
<1>4. IndexAgrees'  OBVIOUS
<1>5. CancelIsFinal'  OBVIOUS
<1>6. QED  BY <1>1, <1>2, <1>3, <1>4, <1>5

\* A residual joins the queues and the index.
LEMMA JoinStep ==
    ASSUME Shape, OnceInv, NEW w \in Workers,
           NEW e, pc[w] = "settle", book' = book \cup {e},
           e.id = req[w].order,
           index' = [index EXCEPT ![e.id] = <<e.side, EntryLevel(e)>>],
           pc' = [pc EXCEPT ![w] = "count"],
           req' = req /\ slot' = slot /\ placed' = placed /\ closed' = closed
    PROVE  OnceInv'
<1>. USE DEF Submitting, SubmitLabels, CancelLabels, Labels, EntryLevel, Shape, OnceInv,
             Callers, Incoming, Leaving, IndexAgrees, CancelIsFinal, Holds, NoReq
<1>1. Callers'  OBVIOUS
<1>2. Incoming'  OBVIOUS
<1>3. Leaving'  OBVIOUS
<1>4. IndexAgrees'  OBVIOUS
<1>5. CancelIsFinal'  OBVIOUS
<1>6. QED  BY <1>1, <1>2, <1>3, <1>4, <1>5

\* A new order arrives.
LEMMA SubmitCall ==
    ASSUME Shape, OnceInv, NEW w \in Workers,
           NEW o \in Orders, NEW s \in Sides, pc[w] = "idle", placed[o] = None,
           placed' = [placed EXCEPT ![o] = s], NEW r, r.order = o,
           pc' = [pc EXCEPT ![w] = "match"], req' = [req EXCEPT ![w] = r],
           book' = book /\ index' = index /\ slot' = slot /\ closed' = closed
    PROVE  OnceInv'
<1>. USE DEF Submitting, SubmitLabels, CancelLabels, Labels, EntryLevel, Shape, OnceInv,
             Callers, Incoming, Leaving, IndexAgrees, CancelIsFinal, Holds, NoReq
<1>1. Callers'  OBVIOUS
<1>2. Incoming'  OBVIOUS
<1>3. Leaving'  OBVIOUS
<1>4. IndexAgrees'  OBVIOUS
<1>5. CancelIsFinal'  OBVIOUS
<1>6. QED  BY <1>1, <1>2, <1>3, <1>4, <1>5

\* A cancel is called; its order may be on its way in.
LEMMA CancelCall ==
    ASSUME Shape, OnceInv, NEW w \in Workers,
           NEW o \in Orders, pc[w] = "idle", placed[o] # None,
           NEW r, r.order = o, r.op = "cancel", r.late => ~Submitting(o),
           pc' = [pc EXCEPT ![w] = "unindex"], req' = [req EXCEPT ![w] = r],
           book' = book /\ index' = index /\ slot' = slot /\ placed' = placed /\ closed' = closed
    PROVE  OnceInv'
<1>. USE DEF Submitting, SubmitLabels, CancelLabels, Labels, EntryLevel, Shape, OnceInv,
             Callers, Incoming, Leaving, IndexAgrees, CancelIsFinal, Holds, NoReq
<1>1. Callers'  OBVIOUS
<1>2. Incoming'  OBVIOUS
<1>3. Leaving'  OBVIOUS
<1>4. IndexAgrees'  OBVIOUS
<1>5. CancelIsFinal'  OBVIOUS
<1>6. QED  BY <1>1, <1>2, <1>3, <1>4, <1>5

\* A cancel takes the index entry, if there is one.
LEMMA UnindexStep ==
    ASSUME Shape, OnceInv, NEW w \in Workers,
           pc[w] = "unindex",
           index' = [index EXCEPT ![req[w].order] = None],
           slot' = [slot EXCEPT ![w] = index[req[w].order]],
           pc' = [pc EXCEPT ![w] = IF index[req[w].order] # None THEN "unqueue" ELSE "scanbids"],
           req' = req /\ book' = book /\ placed' = placed /\ closed' = closed
    PROVE  OnceInv'
<1>. USE DEF Submitting, SubmitLabels, CancelLabels, Labels, EntryLevel, Shape, OnceInv,
             Callers, Incoming, Leaving, IndexAgrees, CancelIsFinal, Holds, NoReq
<1>1. Callers'  OBVIOUS
<1>2. Incoming'  OBVIOUS
<1>3. Leaving'  OBVIOUS
<1>4. IndexAgrees'  OBVIOUS
<1>5. CancelIsFinal'  OBVIOUS
<1>6. QED  BY <1>1, <1>2, <1>3, <1>4, <1>5

\* A cancel takes the entry out of the queues.
LEMMA TakeStep ==
    ASSUME Shape, OnceInv, NEW w \in Workers,
           NEW e \in book, NEW l, e.id = req[w].order, book' = book \ {e},
           \/ pc[w] = "unqueue" /\ l = "uncount"
           \/ pc[w] \in {"scanbids", "scanasks"} /\ l = "dropindex",
           pc' = [pc EXCEPT ![w] = l],
           req' = req /\ index' = index /\ slot' = slot /\ placed' = placed /\ closed' = closed
    PROVE  OnceInv'
<1>. USE DEF Submitting, SubmitLabels, CancelLabels, Labels, EntryLevel, Shape, OnceInv,
             Callers, Incoming, Leaving, IndexAgrees, CancelIsFinal, Holds, NoReq
<1>1. Callers'  OBVIOUS
<1>2. Incoming'  OBVIOUS
<1>3. Leaving'  OBVIOUS
<1>4. IndexAgrees'  OBVIOUS
<1>5. CancelIsFinal'  OBVIOUS
<1>6. QED  BY <1>1, <1>2, <1>3, <1>4, <1>5

\* A scan finds the bids without the order and goes on to the asks.
LEMMA NextScan ==
    ASSUME Shape, OnceInv, NEW w \in Workers,
           pc[w] = "scanbids",
           \A e \in book : e.side = "Buy" => e.id # req[w].order,
           pc' = [pc EXCEPT ![w] = "scanasks"],
           req' = req /\ book' = book /\ index' = index /\ slot' = slot /\ placed' = placed /\ closed' = closed
    PROVE  OnceInv'
<1>. USE DEF Submitting, SubmitLabels, CancelLabels, Labels, EntryLevel, Shape, OnceInv,
             Callers, Incoming, Leaving, IndexAgrees, CancelIsFinal, Holds, NoReq
<1>1. Callers'  OBVIOUS
<1>2. Incoming'  OBVIOUS
<1>3. Leaving'  OBVIOUS
<1>4. IndexAgrees'  OBVIOUS
<1>5. CancelIsFinal'  OBVIOUS
<1>6. QED  BY <1>1, <1>2, <1>3, <1>4, <1>5

\* A scan that found the order drops the index entry once more.
LEMMA DropStep ==
    ASSUME Shape, OnceInv, NEW w \in Workers,
           pc[w] = "dropindex",
           index' = [index EXCEPT ![req[w].order] = None],
           pc' = [pc EXCEPT ![w] = "uncount"],
           req' = req /\ book' = book /\ slot' = slot /\ placed' = placed /\ closed' = closed
    PROVE  OnceInv'
<1>. USE DEF Submitting, SubmitLabels, CancelLabels, Labels, EntryLevel, Shape, OnceInv,
             Callers, Incoming, Leaving, IndexAgrees, CancelIsFinal, Holds, NoReq
<1>1. Callers'  OBVIOUS
<1>2. Incoming'  OBVIOUS
<1>3. Leaving'  OBVIOUS
<1>4. IndexAgrees'  OBVIOUS
<1>5. CancelIsFinal'  OBVIOUS
<1>6. QED  BY <1>1, <1>2, <1>3, <1>4, <1>5

\* A cancel returns, having found its order or not.
LEMMA ReturnStep ==
    ASSUME Shape, OnceInv, NEW w \in Workers,
           pc[w] \in {"unqueue", "scanasks", "uncount"},
           pc[w] = "scanasks" => \A e \in book : e.side = "Sell" => e.id # req[w].order,
           pc[w] = "unqueue" => \A e \in book : <<e.side, EntryLevel(e)>> = slot[w] => e.id # req[w].order,
           closed' = IF req[w].late THEN closed \cup {req[w].order} ELSE closed,
           pc' = [pc EXCEPT ![w] = "idle"], req' = [req EXCEPT ![w] = NoReq],
           slot' = [slot EXCEPT ![w] = None],
           book' = book /\ index' = index /\ placed' = placed
    PROVE  OnceInv'
<1>. USE DEF Submitting, SubmitLabels, CancelLabels, Labels, EntryLevel, Shape, OnceInv,
             Callers, Incoming, Leaving, IndexAgrees, CancelIsFinal, Holds, NoReq, Sides
<1>1. Callers'  OBVIOUS
<1>2. Incoming'  OBVIOUS
<1>3. Leaving'  OBVIOUS
<1>4. IndexAgrees'  OBVIOUS
<1>5. CancelIsFinal'  OBVIOUS
<1>6. QED  BY <1>1, <1>2, <1>3, <1>4, <1>5

\* Every step of a submit keeps OnceInv.
LEMMA SubmitOnce ==
    ASSUME TypeOK, OnceInv, NEW w \in Workers, SubmitStep(w)
    PROVE  OnceInv'
<1>0. Shape
  BY ShapeOf
<1>. USE DEF Goto, Finish, queues, aux, SubmitLabels
<1>1. CASE \E e \in book : Trade(w, e)
  <2>1. PICK e \in book : Trade(w, e)
    BY <1>1
  <2>. DEFINE q == TradeAmount(left[w], e.rem)
  <2>2. pc' = pc /\ req' = req /\ slot' = slot /\ placed' = placed /\ closed' = closed
    BY <2>1 DEF Trade
  <2>3. CASE Consumed(q, e)
    <3>1. book' = book \ {e} /\ index' = [index EXCEPT ![e.id] = None]
      BY <2>1, <2>3 DEF Trade
    <3>. QED  BY <1>0, <2>2, <3>1, SweepStep
  <2>4. CASE ~Consumed(q, e)
    <3>1. book' = (book \ {e}) \cup {[e EXCEPT !.rem = e.rem - q]} /\ count' = count
          /\ index' = index
      BY <2>1, <2>4 DEF Trade
    <3>2. e \in Entry /\ q \in Nat /\ 0 < q /\ q <= e.rem /\ q # e.rem
      BY <2>1, <2>4 DEF Trade, TradeAmount, Consumed, TypeOK, Entry
    <3>3. e.rem - q \in Nat /\ e.rem - q # e.rem
      BY <3>2 DEF Entry
    <3>4. Shrinks(e, e.rem - q)
      BY <3>1, <3>3 DEF Shrinks
    <3>5. SamePlaces
      BY <3>4, ShrinkPlaces
    <3>. QED  BY <1>0, <2>2, <3>1, <3>5, SweepStep
  <2>5. QED  BY <2>3, <2>4
<1>2. CASE AddOrder(w)
  <2>. DEFINE r == req[w]
              l == Level(r.limit)
              entry == [id |-> r.order, side |-> r.side, price |-> r.limit,
                        rem |-> left[w], turn |-> NextTurn(r.side, l)]
  <2>1. pc[w] = "settle" /\ index[r.order] = None
    BY <1>2 DEF AddOrder, OnceInv, Incoming
  <2>2. /\ book' = book \cup {entry}
        /\ index' = [index EXCEPT ![r.order] = <<r.side, l>>]
        /\ pc' = [pc EXCEPT ![w] = "count"]
        /\ req' = req /\ slot' = slot /\ placed' = placed /\ closed' = closed
    BY <1>2, <2>1 DEF AddOrder
  <2>3. entry.id = req[w].order /\ entry.side = r.side /\ EntryLevel(entry) = l
    BY DEF EntryLevel
  <2>. HIDE DEF entry, l
  <2>4. QED  BY <1>0, <2>1, <2>2, <2>3, JoinStep
<1>3. CASE BeginMatch(w)
  <2>1. PICK l \in {"sweep", "settle"} : pc' = [pc EXCEPT ![w] = l]
    BY <1>3 DEF BeginMatch
  <2>2. pc[w] = "match" /\ req' = req
        /\ book' = book /\ index' = index /\ slot' = slot /\ placed' = placed /\ closed' = closed
    BY <1>3 DEF BeginMatch, TypeOK
  <2>3. QED  BY <1>0, <2>1, <2>2, QuietSubmitStep
<1>4. CASE EndMatch(w)
  <2>1. pc' = [pc EXCEPT ![w] = "settle"] /\ pc[w] = "sweep" /\ req' = req
        /\ book' = book /\ index' = index /\ slot' = slot /\ placed' = placed /\ closed' = closed
    BY <1>4 DEF EndMatch, TypeOK
  <2>2. QED  BY <1>0, <2>1, QuietSubmitStep
<1>5. CASE Settle(w) \/ CountOrder(w) \/ SelfCheck(w)
  <2>1. pc[w] \in SubmitLabels
        /\ book' = book /\ index' = index /\ slot' = slot /\ placed' = placed /\ closed' = closed
    BY <1>5 DEF Settle, CountOrder, SelfCheck
  <2>2. \/ pc' = [pc EXCEPT ![w] = "check"] /\ req' = req
        \/ pc' = [pc EXCEPT ![w] = "idle"] /\ req' = [req EXCEPT ![w] = NoReq]
    BY <1>5 DEF Settle, CountOrder, SelfCheck, TypeOK
  <2>3. QED  BY <1>0, <2>1, <2>2, QuietSubmitStep
<1>6. QED
  BY <1>1, <1>2, <1>3, <1>4, <1>5 DEF SubmitStep

\* Every step of a cancel keeps OnceInv.
LEMMA CancelOnce ==
    ASSUME TypeOK, OnceInv, NEW w \in Workers, CancelStep(w)
    PROVE  OnceInv'
<1>0. Shape
  BY ShapeOf
<1>1. pc[w] \in CancelLabels => req[w].op = "cancel"
  BY DEF OnceInv, Callers
<1>. USE DEF Goto, Finish, queues, aux, CancelLabels
<1>2. ASSUME pc[w] \in CancelLabels, Return(w)
      PROVE  /\ closed' = IF req[w].late THEN closed \cup {req[w].order} ELSE closed
             /\ pc' = [pc EXCEPT ![w] = "idle"] /\ req' = [req EXCEPT ![w] = NoReq]
             /\ slot' = [slot EXCEPT ![w] = None]
  BY <1>1, <1>2 DEF Return
<1>3. CASE Unindex(w)
  BY <1>0, <1>3, UnindexStep DEF Unindex
<1>4. CASE Unqueue(w)
  <2>1. pc[w] = "unqueue" /\ index' = index /\ placed' = placed
    BY <1>4 DEF Unqueue
  <2>2. \/ \E e \in book : /\ e.id = req[w].order /\ book' = book \ {e}
                           /\ pc' = [pc EXCEPT ![w] = "uncount"]
                           /\ req' = req /\ slot' = slot /\ closed' = closed
        \/ /\ Return(w) /\ book' = book
           /\ ~Holds(Queue(slot[w][1], slot[w][2]), req[w].order)
    BY <1>4 DEF Unqueue, Queue, Entries, FirstOf
  <2>3. ASSUME ~Holds(Queue(slot[w][1], slot[w][2]), req[w].order)
        PROVE  \A e \in book : <<e.side, EntryLevel(e)>> = slot[w] => e.id # req[w].order
    BY <2>3 DEF Holds, Queue, Entries
  <2>4. QED  BY <1>0, <1>2, <2>1, <2>2, <2>3, TakeStep, ReturnStep
<1>5. CASE ScanBids(w)
  <2>1. /\ pc[w] = "scanbids" /\ index' = index /\ placed' = placed
        /\ req' = req /\ slot' = slot /\ closed' = closed
    BY <1>5 DEF ScanBids
  <2>2. \/ \E e \in book : /\ e.id = req[w].order /\ book' = book \ {e}
                           /\ pc' = [pc EXCEPT ![w] = "dropindex"]
        \/ /\ book' = book /\ pc' = [pc EXCEPT ![w] = "scanasks"]
           /\ ~Holds(Entries("Buy"), req[w].order)
    BY <1>5 DEF ScanBids, Entries, FirstOf
  <2>3. QED  BY <1>0, <2>1, <2>2, TakeStep, NextScan DEF Holds, Entries
<1>6. CASE ScanAsks(w)
  <2>1. pc[w] = "scanasks" /\ index' = index /\ placed' = placed
    BY <1>6 DEF ScanAsks
  <2>2. \/ \E e \in book : /\ e.id = req[w].order /\ book' = book \ {e}
                           /\ pc' = [pc EXCEPT ![w] = "dropindex"]
                           /\ req' = req /\ slot' = slot /\ closed' = closed
        \/ /\ Return(w) /\ book' = book /\ ~Holds(Entries("Sell"), req[w].order)
    BY <1>6 DEF ScanAsks, Entries, FirstOf
  <2>3. QED  BY <1>0, <1>2, <2>1, <2>2, TakeStep, ReturnStep DEF Holds, Entries
<1>7. CASE DropIndex(w)
  BY <1>0, <1>7, DropStep DEF DropIndex
<1>8. CASE Uncount(w)
  <2>1. pc[w] = "uncount" /\ Return(w) /\ book' = book /\ index' = index /\ placed' = placed
    BY <1>8 DEF Uncount
  <2>2. QED  BY <1>0, <1>2, <2>1, ReturnStep
<1>9. QED
  BY <1>3, <1>4, <1>5, <1>6, <1>7, <1>8 DEF CancelStep

\* Every call keeps OnceInv where no order is amended.
LEMMA CallOnce ==
    ASSUME TypeOK, OnceInv, Amendable = {}, NEW w \in Workers, Call(w)
    PROVE  OnceInv'
<1>0. Shape
  BY ShapeOf
<1>. USE DEF Goto, queues
<1>1. ASSUME NEW o \in Orders, NEW t \in Terms, Submit(w, o, t) PROVE OnceInv'
  <2>. DEFINE r == Request(o, t, "submit", FALSE)
  <2>1. t.side \in Sides /\ r.order = o
    BY DEF Terms, Request
  <2>2. /\ pc[w] = "idle" /\ placed[o] = None /\ placed' = [placed EXCEPT ![o] = t.side]
        /\ pc' = [pc EXCEPT ![w] = "match"] /\ req' = [req EXCEPT ![w] = r]
        /\ book' = book /\ index' = index /\ slot' = slot /\ closed' = closed
    BY <1>1 DEF Submit
  <2>. HIDE DEF r
  <2>3. QED  BY <1>0, <2>1, <2>2, SubmitCall
<1>2. ASSUME NEW o \in Orders, Cancel(w, o) PROVE OnceInv'
  <2>. DEFINE r == [NoReq EXCEPT !.order = o, !.op = "cancel", !.late = ~Submitting(o)]
  <2>1. r.order = o /\ r.op = "cancel" /\ (r.late => ~Submitting(o))
    BY ZenonT(60) DEF NoReq
  <2>2. /\ pc[w] = "idle" /\ placed[o] # None /\ placed' = placed
        /\ pc' = [pc EXCEPT ![w] = "unindex"] /\ req' = [req EXCEPT ![w] = r]
        /\ book' = book /\ index' = index /\ slot' = slot /\ closed' = closed
    BY <1>2 DEF Cancel
  <2>. HIDE DEF r
  <2>3. QED  BY <1>0, <2>1, <2>2, CancelCall
<1>3. ~\E o \in Orders, t \in Terms : Amend(w, o, t)
  BY DEF Amend
<1>4. QED
  BY <1>1, <1>2, <1>3 DEF Call

\* OnceInv is inductive given the types.
LEMMA OnceInvariant ==
    ASSUME Amendable = {} PROVE Spec => []OnceInv
<1>1. Init => OnceInv
  BY DEF Init, OnceInv, Callers, Incoming, Leaving, IndexAgrees, CancelIsFinal, Holds,
         SubmitLabels, CancelLabels
<1>2. TypeOK /\ OnceInv /\ [Next]_vars => OnceInv'
  <2>1. SUFFICES ASSUME TypeOK, OnceInv, [Next]_vars PROVE OnceInv'
    OBVIOUS
  <2>2. CASE UNCHANGED vars
    <3>. USE <2>2 DEF vars, queues, calls, aux
    <3>1. Callers' /\ Incoming' /\ CancelIsFinal'
      BY <2>1 DEF OnceInv, Callers, Incoming, CancelIsFinal, Submitting
    <3>2. Leaving' /\ IndexAgrees'
      BY <2>1 DEF OnceInv, Leaving, IndexAgrees, Holds, Submitting, EntryLevel
    <3>3. QED  BY <3>1, <3>2 DEF OnceInv
  <2>3. QED
    BY <2>1, <2>2, SubmitOnce, CancelOnce, CallOnce DEF Next
<1>3. QED
  BY <1>1, <1>2, TypeCorrect, PTL DEF Spec

\* While no order is amended the queues and the lock-free index tell the same
\* story up to the cancels in flight, whatever submits, sweeps, fast cancels and
\* scans of however many threads interleave (orderbook.rs add, match, cancel).
THEOREM QueuesMatchIndex ==
    ASSUME Amendable = {} PROVE Spec => []IndexAgrees
<1>1. OnceInv => IndexAgrees
  BY DEF OnceInv
<1>2. QED
  BY <1>1, OnceInvariant, PTL

\* While no order is amended, an order whose cancel was called after its submit
\* had returned is out of the queues for good once the cancel has returned, even
\* when another cancel or a taker got to it first.
THEOREM CancelledStaysOut ==
    ASSUME Amendable = {} PROVE Spec => []CancelIsFinal
<1>1. OnceInv => CancelIsFinal
  BY DEF OnceInv
<1>2. QED
  BY <1>1, OnceInvariant, PTL

-----------------------------------------------------------------------------
(* Fill or kill: the pre-check adds up what the sweep can take. *)

\* What a set of entries holds together.
Held(entries) == SumFunctionOnSet([e \in entries |-> e.rem], entries)

\* An entry's quantity leaves the sum with it ...
LEMMA HeldRemove ==
    ASSUME NEW R, IsFiniteSet(R), \A e \in R : e.rem \in Int, NEW a \in R
    PROVE  Held(R) = a.rem + Held(R \ {a}) /\ Held(R) \in Int /\ Held(R \ {a}) \in Int
<1>. DEFINE T == R \ {a}
            g == [e \in R |-> e.rem]
            h == [e \in T |-> e.rem]
<1>1. \A x \in R : g[x] \in Int
  OBVIOUS
<1>2. SumFunctionOnSet(g, R) = g[a] + SumFunctionOnSet(g, T)
  BY <1>1, SumRemove
<1>3. IsFiniteSet(T) /\ \A x \in T : g[x] \in Int /\ h[x] = g[x]
  BY FS_RemoveElement
<1>4. SumFunctionOnSet(h, T) = SumFunctionOnSet(g, T)
  <2>. HIDE DEF g, h, T
  <2>. QED  BY <1>3, SumSame
<1>5. SumFunctionOnSet(g, R) \in Int
  <2>. HIDE DEF g
  <2>. QED  BY <1>1, SumInt
<1>6. SumFunctionOnSet(g, T) \in Int
  <2>. HIDE DEF g, T
  <2>. QED  BY <1>3, SumInt
<1>7. QED
  BY <1>2, <1>4, <1>5, <1>6 DEF Held

\* ... and joins the sum with it.
LEMMA HeldAdd ==
    ASSUME NEW R, IsFiniteSet(R), \A e \in R : e.rem \in Int, NEW f, f \notin R, f.rem \in Int
    PROVE  Held(R \cup {f}) = f.rem + Held(R) /\ Held(R \cup {f}) \in Int
<1>. DEFINE S == R \cup {f}
<1>1. IsFiniteSet(S) /\ f \in S /\ S \ {f} = R /\ \A e \in S : e.rem \in Int
  BY FS_AddElement
<1>. HIDE DEF S
<1>2. Held(S) = f.rem + Held(S \ {f}) /\ Held(S) \in Int
  BY <1>1, HeldRemove
<1>3. QED
  BY <1>1, <1>2 DEF S

\* The makers a taker may sweep are finitely many queued entries.
LEMMA ReachableType ==
    ASSUME TypeOK, NEW s, NEW limit
    PROVE  /\ IsFiniteSet(Reachable(s, limit)) /\ Reachable(s, limit) \subseteq book
           /\ \A e \in Reachable(s, limit) : e.rem \in Nat \ {0}
           /\ Fillable(s, limit) = Held(Reachable(s, limit))
           /\ Fillable(s, limit) \in Int
<1>1. Reachable(s, limit) \subseteq book
  BY DEF Reachable, Entries
<1>2. IsFiniteSet(Reachable(s, limit))
  BY <1>1, FS_Subset DEF TypeOK
<1>3. \A e \in Reachable(s, limit) : e.rem \in Nat \ {0}
  BY <1>1 DEF TypeOK, Entry
<1>4. Fillable(s, limit) = Held(Reachable(s, limit))
  BY DEF Fillable, Held
<1>. DEFINE R == Reachable(s, limit)
            g == [e \in R |-> e.rem]
<1>5. \A x \in R : g[x] \in Int
  BY <1>3
<1>6. SumFunctionOnSet(g, R) \in Int
  <2>. HIDE DEF g, R
  <2>. QED  BY <1>2, <1>5, SumInt DEF R
<1>7. QED
  BY <1>1, <1>2, <1>3, <1>4, <1>6 DEF Held

\* A side locked by one worker is not touched by the others.
LEMMA SideKept ==
    ASSUME TypeOK, SweepHoldsLock, NEW w \in Workers,
           Call(w) \/ SubmitStep(w) \/ CancelStep(w),
           NEW s \in Sides, lock[s] # None, lock[s] # w
    PROVE  Entries(s)' = Entries(s)
<1>. USE DEF queues, Entries
<1>1. CASE Call(w)
  BY Zenon, <1>1 DEF Call, Submit, Amend, Cancel
<1>2. CASE SubmitStep(w)
  <2>1. CASE \E e \in book : Trade(w, e)
    <3>1. PICK e \in book : Trade(w, e)
      BY <2>1
    <3>2. e.side = Opposite(req[w].side) /\ pc[w] = "sweep"
      BY <3>1 DEF Trade, IsFront, Reachable
    <3>3. e.side # s
      BY <3>2 DEF SweepHoldsLock
    <3>4. e \in Entry
      BY DEF TypeOK
    <3>5. \A n : [e EXCEPT !.rem = n].side = e.side
      BY <3>4 DEF Entry
    <3>6. \E n : book' = book \ {e} \/ book' = (book \ {e}) \cup {[e EXCEPT !.rem = n]}
      BY <3>1 DEF Trade
    <3>7. QED  BY <3>3, <3>5, <3>6
  <2>2. CASE AddOrder(w)
    <3>. DEFINE r == req[w]
                entry == [id |-> r.order, side |-> r.side, price |-> r.limit,
                          rem |-> left[w], turn |-> NextTurn(r.side, Level(r.limit))]
    <3>1. entry.side # s
      BY <2>2 DEF AddOrder
    <3>2. book' = book \/ book' = book \cup {entry}
      BY <2>2 DEF AddOrder
    <3>. HIDE DEF entry
    <3>3. QED  BY <3>1, <3>2
  <2>3. CASE BeginMatch(w) \/ EndMatch(w) \/ Settle(w) \/ CountOrder(w) \/ SelfCheck(w)
    BY <2>3 DEF BeginMatch, EndMatch, Settle, CountOrder, SelfCheck
  <2>4. QED  BY <1>2, <2>1, <2>2, <2>3 DEF SubmitStep
<1>3. CASE CancelStep(w)
  <2>1. book' = book \/ \E e \in book : book' = book \ {e} /\ e.side # s
    BY <1>3 DEF CancelStep, Unindex, Unqueue, ScanBids, ScanAsks, DropIndex, Uncount, Queue
  <2>2. QED  BY <2>1
<1>4. QED  BY SMTT(30), <1>1, <1>2, <1>3

LEMMA FillableKept ==
    ASSUME NEW s, NEW limit, Entries(Opposite(s))' = Entries(Opposite(s))
    PROVE  Fillable(s, limit)' = Fillable(s, limit)
<1>1. Reachable(s, limit)' = Reachable(s, limit)
  BY DEF Reachable
<1>2. QED
  BY <1>1 DEF Fillable

\* A trade takes the same quantity from the taker and from what its side of the
\* book can still give it.
LEMMA TradeTakes ==
    ASSUME TypeOK, TurnsDistinct, NEW w \in Workers, NEW e \in book, Trade(w, e)
    PROVE  \E q \in Nat :
              /\ left'[w] = left[w] - q
              /\ Fillable(req[w].side, req[w].limit)' = Fillable(req[w].side, req[w].limit) - q
<1>1. PICK r : r = req[w]
  OBVIOUS
<1>. DEFINE q == TradeAmount(left[w], e.rem)
            R == Reachable(r.side, r.limit)
            T == R \ {e}
<1>2. e \in Entry /\ q \in Nat \ {0} /\ q <= left[w] /\ q <= e.rem /\ e.rem \in Nat /\ left[w] \in Nat
  BY DEF Trade, TradeAmount, Entry, TypeOK
<1>3. left'[w] = left[w] - q /\ e \in R /\ req' = req
  BY <1>1 DEF Trade, TypeOK, IsFront
<1>4. /\ IsFiniteSet(R) /\ R \subseteq book /\ \A f \in R : f.rem \in Int
      /\ Fillable(r.side, r.limit) = Held(R)
  BY ReachableType
<1>5. Fillable(r.side, r.limit)' = Held(R')
  BY DEF Fillable, Held
<1>. HIDE DEF R
<1>6. Held(R) = e.rem + Held(T) /\ Held(R) \in Int /\ Held(T) \in Int
  BY <1>3, <1>4, HeldRemove
<1>7. IsFiniteSet(T) /\ \A f \in T : f.rem \in Int
  BY <1>4, FS_RemoveElement
<1>8. Held(R)' = Held(R) - q
  <2>1. CASE Consumed(q, e)
    <3>1. book' = book \ {e} /\ q = e.rem
      BY <2>1 DEF Trade, Consumed
    <3>2. R' = T
      BY <3>1 DEF R, Reachable, Entries
    <3>3. Held(R') = Held(T)
      BY <3>2
    <3>. HIDE DEF q, T
    <3>4. QED  BY <1>2, <1>6, <3>1, <3>3
  <2>2. CASE ~Consumed(q, e)
    <3>. DEFINE n == e.rem - q
                f == [e EXCEPT !.rem = n]
    <3>1. book' = (book \ {e}) \cup {f} /\ q # e.rem
      BY <2>2 DEF Trade, Consumed
    <3>2. n \in Nat /\ n # e.rem
      BY <1>2
    <3>. HIDE DEF n, q
    <3>3. f.rem = n /\ f.side = e.side /\ f.price = e.price /\ f.turn = e.turn /\ f # e
      BY <1>2, <3>2 DEF Entry
    <3>. HIDE DEF f
    <3>4. f \notin book
      BY <3>3 DEF TurnsDistinct, EntryLevel
    <3>5. R' = T \cup {f}
      BY <1>3, <3>1, <3>3 DEF R, Reachable, Entries, EntryLevel
    <3>6. f \notin T
      BY <1>4, <3>4
    <3>7. Held(T \cup {f}) = n + Held(T)
      <4>. HIDE DEF T
      <4>1. QED  BY <1>7, <3>2, <3>3, <3>6, HeldAdd
    <3>8. Held(R') = n + Held(T)
      BY <3>5, <3>7
    <3>9. QED
      <4>. HIDE DEF T
      <4>. QED  BY <1>2, <1>6, <3>2, <3>8 DEF n
  <2>3. QED  BY <2>1, <2>2
<1>9. QED
  <2>1. Fillable(r.side, r.limit)' = Fillable(r.side, r.limit) - q
    BY <1>4, <1>5, <1>8
  <2>. HIDE DEF q
  <2>2. QED  BY <1>1, <1>2, <1>3, <2>1

\* The invariant: what a fill-or-kill taker still wants, the makers it has
\* locked can give.
FokInv ==
    /\ \A w \in Workers : pc[w] = "match" => left[w] = req[w].qty
    /\ \A w \in Workers : pc[w] = "sweep" /\ req[w].tif = "FOK"
                            => left[w] <= Fillable(req[w].side, req[w].limit)
    /\ FokAllOrNothing

\* A step of w leaves what the other callers have and lack alone.
LEMMA OthersKept ==
    ASSUME TypeOK, NEW w \in Workers, Call(w) \/ SubmitStep(w) \/ CancelStep(w)
    PROVE  \A v \in Workers \ {w} : pc'[v] = pc[v] /\ req'[v] = req[v] /\ left'[v] = left[v]
<1>. USE DEF TypeOK, Goto, Finish, queues, aux
<1>1. CASE Call(w)
  BY ZenonT(40), <1>1 DEF Call, Submit, Amend, Cancel
<1>2. CASE SubmitStep(w)
  BY <1>2 DEF SubmitStep, BeginMatch, Trade, EndMatch, Settle, AddOrder, CountOrder, SelfCheck
<1>3. CASE CancelStep(w)
  BY <1>3 DEF CancelStep, Unindex, Unqueue, ScanBids, ScanAsks, DropIndex, Uncount, Return
<1>4. QED  BY SMTT(30), <1>1, <1>2, <1>3

\* What the step of w itself does to its own call.
LEMMA FokOwn ==
    ASSUME TypeOK, TurnsDistinct, FokInv, NEW w \in Workers,
           Call(w) \/ SubmitStep(w) \/ CancelStep(w)
    PROVE  /\ pc'[w] = "match" => left'[w] = req'[w].qty
           /\ pc'[w] = "sweep" /\ req'[w].tif = "FOK"
                => left'[w] <= Fillable(req[w].side, req[w].limit)' /\ req'[w] = req[w]
           /\ pc'[w] = "settle" /\ req'[w].tif = "FOK" => left'[w] \in {0, req'[w].qty}
<1>. USE DEF TypeOK, Goto, Finish, queues, aux
<1>1. CASE Call(w)
  <2>1. ASSUME NEW o, NEW t, Submit(w, o, t)
        PROVE  pc'[w] = "match" /\ left'[w] = t.qty /\ req'[w].qty = t.qty
    BY <2>1 DEF Submit, Request
  <2>2. (\E o, t : Amend(w, o, t)) \/ (\E o : Cancel(w, o)) => pc'[w] = "unindex"
    BY Zenon DEF Amend, Cancel
  <2>3. QED  BY <1>1, <2>1, <2>2 DEF Call
<1>2. CASE CancelStep(w)
  BY <1>2 DEF CancelStep, Unindex, Unqueue, ScanBids, ScanAsks, DropIndex, Uncount, Return
<1>3. CASE Settle(w) \/ AddOrder(w) \/ CountOrder(w) \/ SelfCheck(w)
  BY <1>3 DEF Settle, AddOrder, CountOrder, SelfCheck
<1>4. CASE BeginMatch(w)
  <2>1. PICK r : r = req[w]
    OBVIOUS
  <2>2. req' = req /\ left' = left /\ book' = book /\ left[w] = r.qty /\ pc[w] = "match"
        /\ r.qty \in Nat
    BY <1>4, <2>1 DEF BeginMatch, FokInv, Requests
  <2>3. Fillable(r.side, r.limit)' = Fillable(r.side, r.limit)
    BY <2>2, FillableKept DEF Entries
  <2>4. \/ pc'[w] = "settle"
        \/ pc'[w] = "sweep" /\ (r.tif = "FOK" => Fillable(r.side, r.limit) >= r.qty)
    BY <1>4, <2>1 DEF BeginMatch
  <2>5. Fillable(r.side, r.limit) \in Int
    BY ReachableType
  <2>6. QED  BY <2>1, <2>2, <2>3, <2>4, <2>5
<1>5. CASE EndMatch(w)
  <2>1. PICK r : r = req[w]
    OBVIOUS
  <2>2. /\ pc[w] = "sweep" /\ left' = left /\ req' = req /\ pc'[w] = "settle"
        /\ left[w] = 0 \/ Reachable(r.side, r.limit) = {}
    BY <1>5, <2>1 DEF EndMatch
  <2>3. Held({}) = 0
    BY SumEmpty DEF Held
  <2>4. Reachable(r.side, r.limit) = {} => Fillable(r.side, r.limit) = 0
    BY <2>3, ReachableType
  <2>5. r.tif = "FOK" => left[w] <= Fillable(r.side, r.limit)
    BY <2>1, <2>2 DEF FokInv
  <2>6. left[w] \in Nat
    OBVIOUS
  <2>7. QED  BY <2>1, <2>2, <2>4, <2>5, <2>6
<1>6. CASE \E e \in book : Trade(w, e)
  <2>1. PICK e \in book : Trade(w, e)
    BY <1>6
  <2>2. pc' = pc /\ req' = req /\ pc[w] = "sweep"
    BY <2>1 DEF Trade
  <2>3. PICK q \in Nat :
              /\ left'[w] = left[w] - q
              /\ Fillable(req[w].side, req[w].limit)' = Fillable(req[w].side, req[w].limit) - q
    BY <2>1, TradeTakes
  <2>4. req[w].tif = "FOK" => left[w] <= Fillable(req[w].side, req[w].limit)
    BY <2>2 DEF FokInv
  <2>5. Fillable(req[w].side, req[w].limit) \in Int /\ left[w] \in Nat
    BY ReachableType
  <2>6. QED  BY <2>2, <2>3, <2>4, <2>5
<1>7. QED
  BY <1>1, <1>2, <1>3, <1>4, <1>5, <1>6 DEF SubmitStep

\* While w sweeps, a step of another worker leaves its makers alone.
LEMMA FokOther ==
    ASSUME TypeOK, SweepHoldsLock, FokInv, NEW w \in Workers, NEW v \in Workers, v # w,
           Call(v) \/ SubmitStep(v) \/ CancelStep(v), pc[w] = "sweep", req[w].tif = "FOK"
    PROVE  left[w] <= Fillable(req[w].side, req[w].limit)'
<1>1. PICK r : r = req[w]
  OBVIOUS
<1>2. Opposite(r.side) \in Sides
  BY DEF Opposite, Sides
<1>3. lock[Opposite(r.side)] = w /\ w # None
  BY <1>1, <1>2, NoneAssumption DEF SweepHoldsLock
<1>4. Entries(Opposite(r.side))' = Entries(Opposite(r.side))
  BY <1>2, <1>3, SideKept
<1>5. Fillable(r.side, r.limit)' = Fillable(r.side, r.limit)
  BY <1>4, FillableKept
<1>6. req'[w] = r
  BY <1>1, OthersKept
<1>7. left[w] <= Fillable(r.side, r.limit)
  BY <1>1 DEF FokInv
<1>8. QED
  BY <1>5, <1>6, <1>7

\* A fill-or-kill order trades its whole quantity or nothing, for any queues and
\* whatever other threads submit, amend and cancel meanwhile: the pre-check of
\* match_order and the sweep see one state of the side they lock.
THEOREM FillOrKill == Spec => []FokAllOrNothing
<1>1. Init => FokInv
  BY DEF Init, FokInv, FokAllOrNothing
<1>2. TypeOK /\ SweepHoldsLock /\ CountInv /\ FokInv /\ [Next]_vars => FokInv'
  <2>1. SUFFICES ASSUME TypeOK, SweepHoldsLock, CountInv, FokInv, [Next]_vars PROVE FokInv'
    OBVIOUS
  <2>2. CASE UNCHANGED vars
    BY <2>1, <2>2 DEF vars, queues, calls, aux, FokInv, FokAllOrNothing, Fillable, Reachable,
         Entries, WithinLimit, EntryLevel
  <2>3. ASSUME NEW v \in Workers, Call(v) \/ SubmitStep(v) \/ CancelStep(v)
        PROVE  FokInv'
    <3>1. SUFFICES ASSUME NEW w \in Workers
                   PROVE  /\ pc'[w] = "match" => left'[w] = req'[w].qty
                          /\ pc'[w] = "sweep" /\ req'[w].tif = "FOK"
                               => left'[w] <= Fillable(req[w].side, req[w].limit)'
                          /\ pc'[w] = "settle" /\ req'[w].tif = "FOK"
                               => left'[w] \in {0, req'[w].qty}
      BY DEF FokInv, FokAllOrNothing
    <3>2. CASE w = v
      BY <2>1, <2>3, <3>2, FokOwn DEF CountInv
    <3>3. CASE w # v
      <4>1. pc'[w] = pc[w] /\ req'[w] = req[w] /\ left'[w] = left[w]
        BY <2>1, <2>3, <3>3, OthersKept
      <4>2. pc[w] = "sweep" /\ req[w].tif = "FOK"
              => left[w] <= Fillable(req[w].side, req[w].limit)'
        BY <2>1, <2>3, <3>3, FokOther
      <4>3. QED  BY <2>1, <4>1, <4>2 DEF FokInv, FokAllOrNothing
    <3>4. QED  BY <3>2, <3>3
  <2>4. QED
    BY <2>1, <2>2, <2>3 DEF Next
<1>3. FokInv => FokAllOrNothing
  BY DEF FokInv
<1>4. QED
  BY <1>1, <1>2, <1>3, TypeCorrect, SweepsExclude, CountInvariant, PTL DEF Spec

-----------------------------------------------------------------------------
(* One call at a time. *)

\* The invariant for one call at a time: the book is never crossed, and an order
\* about to rest has left nothing it could have traded with.
Alone == \A v, w \in Workers : pc[v] # "idle" /\ pc[w] # "idle" => v = w
Uncrossed ==
    \A b, a \in book : b.side = "Buy" /\ a.side = "Sell" => b.price < a.price
Swept ==
    \A w \in Workers : pc[w] = "settle" /\ Rests(req[w], left[w])
                         => Reachable(req[w].side, req[w].limit) = {}
SerialInv == ~overlapped => Alone /\ Uncrossed /\ Swept

\* Taking an entry out, or part of it, does not cross the book.
LEMMA LessUncrossed ==
    ASSUME TypeOK, Uncrossed, NEW e \in book, NEW n,
           book' = book \ {e} \/ book' = (book \ {e}) \cup {[e EXCEPT !.rem = n]}
    PROVE  Uncrossed'
<1>1. [e EXCEPT !.rem = n].side = e.side /\ [e EXCEPT !.rem = n].price = e.price
  BY DEF TypeOK, Entry
<1>2. QED
  BY <1>1 DEF Uncrossed

\* What is left of a swept order rests below every ask, or above every bid.
LEMMA RestUncrossed ==
    ASSUME TypeOK, Scale = 1, Uncrossed, Swept, NEW w \in Workers, AddOrder(w)
    PROVE  Uncrossed'
<1>. DEFINE entry == [id |-> req[w].order, side |-> req[w].side, price |-> req[w].limit,
                      rem |-> left[w],
                      turn |-> NextTurn(req[w].side, Level(req[w].limit))]
<1>1. pc[w] = "settle" /\ Rests(req[w], left[w])
  BY DEF AddOrder
<1>2. req[w].limit \in Prices /\ req[w].side \in Sides
  BY <1>1 DEF TypeOK, CallsOK, Rests, Requests, SubmitLabels
<1>3. Reachable(req[w].side, req[w].limit) = {}
  BY <1>1 DEF Swept
<1>4. \A e \in book : e.price \in Prices /\ LevelPrice(EntryLevel(e)) = e.price
  BY OnGrid DEF TypeOK, Entry, EntryLevel
<1>5. \A e \in book : e.side = Opposite(req[w].side)
          => ~WithinLimit(req[w].side, req[w].limit, e.price)
  BY <1>3, <1>4 DEF Reachable, Entries
<1>6. req[w].limit # None /\ \A p \in Prices : p \in Int
  BY <1>2, NoneAssumption, PriceAssumption
<1>7. \A e \in book : e.side = Opposite(req[w].side)
          => IF req[w].side = "Buy" THEN req[w].limit < e.price ELSE e.price < req[w].limit
  BY <1>2, <1>4, <1>5, <1>6 DEF WithinLimit
<1>8. book' = book \/ book' = book \cup {entry}
  BY DEF AddOrder
<1>9. entry.side = req[w].side /\ entry.price = req[w].limit
  OBVIOUS
<1>. HIDE DEF entry
<1>10. QED
  BY <1>2, <1>7, <1>8, <1>9 DEF Uncrossed, Opposite, Sides

\* A step keeps the book uncrossed while the caller is alone.
LEMMA StepUncrossed ==
    ASSUME TypeOK, Scale = 1, Uncrossed, Swept, NEW w \in Workers,
           Call(w) \/ SubmitStep(w) \/ CancelStep(w)
    PROVE  Uncrossed'
<1>1. CASE book' = book
  BY SMTT(30), <1>1 DEF Uncrossed
<1>2. CASE Call(w)
  BY Zenon, <1>1, <1>2 DEF Call, Submit, Amend, Cancel, queues
<1>3. CASE CancelStep(w)
  <2>1. book' = book \/ \E e \in book : book' = book \ {e}
    BY <1>3 DEF CancelStep, Unindex, Unqueue, ScanBids, ScanAsks, DropIndex, Uncount,
         Queue, Entries, queues
  <2>2. QED  BY <1>1, <2>1, LessUncrossed
<1>4. CASE \E e \in book : Trade(w, e)
  <2>1. \E e \in book : \E n : \/ book' = book \ {e}
                                \/ book' = (book \ {e}) \cup {[e EXCEPT !.rem = n]}
    BY <1>4 DEF Trade
  <2>2. QED  BY <2>1, LessUncrossed
<1>5. CASE BeginMatch(w) \/ EndMatch(w) \/ Settle(w) \/ CountOrder(w) \/ SelfCheck(w)
  BY <1>1, <1>5 DEF BeginMatch, EndMatch, Settle, CountOrder, SelfCheck, queues
<1>6. QED
  BY <1>2, <1>3, <1>4, <1>5, RestUncrossed DEF SubmitStep

\* The caller reaches its rest only with its side of the book swept.
LEMMA StepSwept ==
    ASSUME TypeOK, Alone, Alone', NEW w \in Workers,
           Call(w) \/ SubmitStep(w) \/ CancelStep(w)
    PROVE  Swept'
<1>1. SUFFICES ASSUME NEW v \in Workers, pc'[v] = "settle", Rests(req[v], left[v])'
               PROVE  Reachable(req[v].side, req[v].limit)' = {}
  BY SMTT(30) DEF Swept
<1>. USE DEF TypeOK, Goto, Finish, queues, aux
<1>2. pc[w] # "idle" \/ pc'[w] # "idle"
  BY ZenonT(40) DEF Call, Submit, Amend, Cancel, SubmitStep, BeginMatch, Trade, EndMatch, Settle,
       AddOrder, CountOrder, SelfCheck, CancelStep, Unindex, Unqueue, ScanBids, ScanAsks,
       DropIndex, Uncount
<1>3. v # w => pc'[v] = pc[v]
  BY OthersKept
<1>4. v = w
  <2>1. ASSUME v # w PROVE pc[w] = "idle" /\ pc'[w] = "idle"
    BY <1>1, <1>3, <2>1 DEF Alone
  <2>2. QED  BY <1>2, <2>1
<1>5. BeginMatch(w) \/ EndMatch(w)
  <2>1. ~Call(w)
    BY Zenon, <1>1, <1>4 DEF Call, Submit, Amend, Cancel
  <2>2. ~CancelStep(w)
    BY <1>1, <1>4 DEF CancelStep, Unindex, Unqueue, ScanBids, ScanAsks, DropIndex, Uncount, Return
  <2>3. ~(Settle(w) \/ AddOrder(w) \/ CountOrder(w) \/ SelfCheck(w))
    BY <1>1, <1>4 DEF Settle, AddOrder, CountOrder, SelfCheck
  <2>4. ~(\E e \in book : Trade(w, e))
    BY <1>1, <1>4 DEF Trade
  <2>5. QED  BY <2>1, <2>2, <2>3, <2>4 DEF SubmitStep
<1>6. ~BeginMatch(w)
  <2>1. ASSUME BeginMatch(w) PROVE FALSE
    <3>1. req[w].tif = "FOK" /\ req' = req
      BY <1>1, <1>4, <2>1 DEF BeginMatch
    <3>2. QED  BY <1>1, <1>4, <3>1 DEF Rests
  <2>2. QED  BY <2>1
<1>7. req' = req /\ left' = left /\ book' = book
      /\ (left[w] = 0 \/ Reachable(req[w].side, req[w].limit) = {})
  BY <1>5, <1>6 DEF EndMatch
<1>8. left[w] # 0
  BY <1>1, <1>4, <1>7 DEF Rests
<1>9. QED
  BY <1>4, <1>7, <1>8 DEF Reachable, Entries

\* One call at a time leaves the book uncrossed: the best bid stays below the best
\* ask until two calls overlap (match and add_order of one submit are separate
\* critical sections), for a grid of prices that are all on a level.
THEOREM SerialUncrossed ==
    ASSUME Scale = 1 PROVE WatchedSpec => []SerialBookUncrossed
<1>1. Init /\ overlapped = FALSE => SerialInv
  BY DEF Init, SerialInv, Alone, Uncrossed, Swept
<1>2. TypeOK /\ SerialInv
        /\ [Next /\ overlapped' = (overlapped \/ Overlap')]_<<vars, overlapped>> => SerialInv'
  <2>1. SUFFICES ASSUME TypeOK, SerialInv,
                        [Next /\ overlapped' = (overlapped \/ Overlap')]_<<vars, overlapped>>
                 PROVE  SerialInv'
    OBVIOUS
  <2>2. CASE UNCHANGED <<vars, overlapped>>
    BY <2>1, <2>2 DEF vars, queues, calls, SerialInv, Alone, Uncrossed, Swept, Rests, Reachable,
         Entries, WithinLimit, EntryLevel
  <2>3. CASE Next /\ overlapped' = (overlapped \/ Overlap')
    <3>1. SUFFICES ASSUME ~overlapped' PROVE Alone' /\ Uncrossed' /\ Swept'
      BY DEF SerialInv
    <3>2. ~overlapped /\ ~Overlap'
      BY <2>3, <3>1
    <3>3. Alone /\ Uncrossed /\ Swept /\ Alone'
      BY <2>1, <3>2 DEF SerialInv, Overlap, Alone
    <3>4. QED
      BY <2>1, <2>3, <3>3, StepUncrossed, StepSwept DEF Next
  <2>4. QED  BY <2>1, <2>2, <2>3
<1>3. WatchedSpec => Spec
  <2>1. [Next /\ overlapped' = (overlapped \/ Overlap')]_<<vars, overlapped>> => [Next]_vars
    OBVIOUS
  <2>2. QED  BY <2>1, PTL DEF WatchedSpec, Spec
<1>4. SerialInv => SerialBookUncrossed
  BY DEF SerialInv, SerialBookUncrossed, RestingBookUncrossed, Uncrossed, Entries
<1>5. QED
  BY <1>1, <1>2, <1>3, <1>4, TypeCorrect, PTL DEF WatchedSpec

-----------------------------------------------------------------------------
(* The refinement of the ledger. *)

\* The steps of a submit at which its order has not rested yet.
Entering == {"match", "sweep", "settle"}

\* Past them nothing is left with the taker.
RestZero == \A w \in Workers : pc[w] \in {"count", "check"} => left[w] = 0

\* Where the open quantity of an order is: with its taker, in its entry, or
\* nowhere.
OpenPlaces ==
    \A o \in Orders :
        /\ placed[o] = None => OpenQuantity(o) = None
        /\ placed[o] # None =>
             /\ \A w \in Workers : pc[w] \in Entering /\ req[w].order = o
                                     => OpenQuantity(o) = left[w]
             /\ \A e \in book : e.id = o => OpenQuantity(o) = e.rem
             /\ OpenQuantity(o) = 0 \/ Holds(book, o)
                  \/ \E w \in Workers : pc[w] \in Entering /\ req[w].order = o

LEMMA OpenPlacesHold == TypeOK /\ OnceInv /\ RestZero => OpenPlaces
<1>1. SUFFICES ASSUME TypeOK, OnceInv, RestZero, NEW o \in Orders, placed[o] # None
               PROVE  /\ \A w \in Workers : pc[w] \in Entering /\ req[w].order = o
                                     => OpenQuantity(o) = left[w]
                      /\ \A e \in book : e.id = o => OpenQuantity(o) = e.rem
                      /\ OpenQuantity(o) = 0 \/ Holds(book, o)
                           \/ \E w \in Workers : pc[w] \in Entering /\ req[w].order = o
  BY DEF OpenPlaces, OpenQuantity
<1>2. \A w \in Workers : pc[w] \in SubmitLabels /\ req[w].order = o
        => Submitting(o) /\ Submitter(o) = w
  BY <1>1 DEF OnceInv, Callers, Submitting, Submitter
<1>3. \A w \in Workers : pc[w] \in SubmitLabels <=> pc[w] \in Entering \cup {"count", "check"}
  BY DEF SubmitLabels, Entering
<1>4. \A e \in book : e.id = o => Resting(o) = e.rem
  BY <1>1 DEF OnceInv, IndexAgrees, Resting, Holds
<1>5. ~Holds(book, o) => Resting(o) = 0
  BY DEF Resting
<1>6. \A w \in Workers : pc[w] \in Entering /\ req[w].order = o => ~Holds(book, o)
  BY <1>1 DEF OnceInv, Incoming, Entering, Holds
<1>7. \A e \in book : e.rem \in Nat
  BY <1>1 DEF TypeOK, Entry
<1>8. \A w \in Workers : left[w] \in Nat
  BY <1>1 DEF TypeOK
<1>9. ASSUME NEW w \in Workers, pc[w] \in Entering, req[w].order = o
      PROVE  OpenQuantity(o) = left[w]
  <2>1. OpenQuantity(o) = left[w] + Resting(o) /\ Resting(o) = 0
    BY <1>1, <1>2, <1>3, <1>5, <1>6, <1>9 DEF OpenQuantity
  <2>2. QED  BY <1>8, <2>1
<1>10. ~(\E w \in Workers : pc[w] \in Entering /\ req[w].order = o)
         => OpenQuantity(o) = Resting(o)
  <2>1. CASE Submitting(o)
    <3>1. PICK w \in Workers : pc[w] \in SubmitLabels /\ req[w].order = o
      BY <2>1 DEF Submitting
    <3>2. OpenQuantity(o) = left[w] + Resting(o)
      BY <1>1, <1>2, <3>1 DEF OpenQuantity
    <3>3. pc[w] \notin Entering => left[w] = 0
      BY <1>1, <1>3, <3>1 DEF RestZero
    <3>4. Resting(o) \in Nat
      BY <1>4, <1>5, <1>7 DEF Holds
    <3>5. QED  BY <3>1, <3>2, <3>3, <3>4
  <2>2. CASE ~Submitting(o)
    BY <1>1, <2>2 DEF OpenQuantity
  <2>3. QED  BY <2>1, <2>2
<1>11. \A e \in book : e.id = o => OpenQuantity(o) = e.rem
  BY <1>4, <1>6, <1>10 DEF Holds
<1>12. QED
  BY <1>5, <1>9, <1>10, <1>11

\* What the proof of the refinement knows before and after a step.
LedgerInv == TypeOK /\ OnceInv /\ RestZero /\ OpenPlaces

LEMMA LedgerInvariant ==
    ASSUME Amendable = {} PROVE Spec => []LedgerInv
<1>1. Init => RestZero
  BY DEF Init, RestZero
<1>2. TypeOK /\ RestZero /\ [Next]_vars => RestZero'
  <2>1. SUFFICES ASSUME TypeOK, RestZero, [Next]_vars PROVE RestZero'
    OBVIOUS
  <2>. USE DEF TypeOK, Goto, Finish, queues, aux, calls
  <2>2. CASE UNCHANGED vars
    BY <2>1, <2>2 DEF vars, RestZero
  <2>3. ASSUME NEW w \in Workers, Call(w) \/ SubmitStep(w) \/ CancelStep(w)
        PROVE  RestZero'
    <3>1. pc'[w] \in {"count", "check"} => left'[w] = 0
      <4>1. CASE Call(w)
        <5>1. \E label \in {"match", "unindex"} : Goto(w, label)
          BY <4>1 DEF Call, Submit, Amend, Cancel
        <5>2. QED  BY <2>1, <5>1
      <4>2. CASE SubmitStep(w)
        BY <2>1, <4>2 DEF SubmitStep, BeginMatch, Trade, EndMatch, Settle, AddOrder, CountOrder,
             SelfCheck, RestZero
      <4>3. CASE CancelStep(w)
        <5>1. \E label \in Labels \ {"count", "check"} : Goto(w, label)
          BY <4>3 DEF CancelStep, Unindex, Unqueue, ScanBids, ScanAsks, DropIndex, Uncount,
               Return, Labels, CancelLabels, SubmitLabels
        <5>2. QED  BY <2>1, <5>1
      <4>4. QED  BY <2>3, <4>1, <4>2, <4>3
    <3>2. QED
      BY <2>1, <2>3, <3>1, OthersKept DEF RestZero
  <2>4. QED  BY <2>1, <2>2, <2>3 DEF Next
<1>3. QED
  BY <1>1, <1>2, OpenPlacesHold, OnceInvariant, TypeCorrect, PTL DEF Spec, LedgerInv

\* Nothing happens to where the quantity of p is.
Untouched(p) ==
    /\ placed'[p] = placed[p]
    /\ \A v \in Workers :
          /\ (pc'[v] \in Entering /\ req'[v].order = p)
                <=> (pc[v] \in Entering /\ req[v].order = p)
          /\ pc[v] \in Entering /\ req[v].order = p => left'[v] = left[v]
    /\ \A e \in book : e.id = p => \E f \in book' : f.id = p /\ f.rem = e.rem
    /\ \A f \in book' : f.id = p => \E e \in book : e.id = p /\ f.rem = e.rem

LEMMA UntouchedOpen ==
    ASSUME LedgerInv, LedgerInv', NEW p \in Orders, Untouched(p)
    PROVE  OpenQuantity(p)' = OpenQuantity(p)
  BY DEF LedgerInv, OpenPlaces, Untouched, Holds

\* A step that moves no quantity is a stutter of the ledger ...
LEMMA LedgerStutters ==
    ASSUME traded' = traded, \A p \in Orders : OpenQuantity(p)' = OpenQuantity(p)
    PROVE  [Ledger!Next]_(Ledger!vars)
<1>. DEFINE open == [p \in Orders |-> OpenQuantity(p)]
<1>1. open' = open
  OBVIOUS
<1>2. QED  BY <1>1 DEF Ledger!vars

\* ... one that takes all that is left of an order is a withdrawal ...
LEMMA LedgerWithdraws ==
    ASSUME traded' = traded, NEW o \in Orders,
           OpenQuantity(o) \in Nat \ {0}, OpenQuantity(o)' = 0, None \notin Nat,
           \A p \in Orders \ {o} : OpenQuantity(p)' = OpenQuantity(p)
    PROVE  [Ledger!Next]_(Ledger!vars)
<1>. DEFINE open == [p \in Orders |-> OpenQuantity(p)]
<1>1. PICK z : z = 0
  OBVIOUS
<1>2. open' = [open EXCEPT ![o] = z]
  <2>1. \A p \in Orders : OpenQuantity(p)' = IF p = o THEN z ELSE OpenQuantity(p)
    BY <1>1
  <2>2. QED  BY <2>1
<1>3. open[o] # None /\ open[o] > 0
  OBVIOUS
<1>4. Ledger!Withdraw(o)
  BY <1>1, <1>2, <1>3 DEF Ledger!Withdraw
<1>5. QED  BY <1>4 DEF Ledger!Next

\* ... one that gives a new order its quantity places it ...
LEMMA LedgerPlaces ==
    ASSUME traded' = traded, NEW o \in Orders, NEW q \in Quantities,
           OpenQuantity(o) = None, OpenQuantity(o)' = q,
           \A p \in Orders \ {o} : OpenQuantity(p)' = OpenQuantity(p)
    PROVE  [Ledger!Next]_(Ledger!vars)
<1>. DEFINE open == [p \in Orders |-> OpenQuantity(p)]
<1>1. open' = [open EXCEPT ![o] = q] /\ open[o] = None
  OBVIOUS
<1>2. Ledger!Place(o, q)
  BY <1>1 DEF Ledger!Place
<1>3. QED  BY <1>2 DEF Ledger!Next

\* ... and one that trades q between two orders executes them against each other.
LEMMA LedgerExecutes ==
    ASSUME NEW m \in Orders, NEW t \in Orders, m # t, NEW q \in Nat \ {0}, None \notin Nat,
           OpenQuantity(m) \in Nat, OpenQuantity(t) \in Nat,
           q <= OpenQuantity(m), q <= OpenQuantity(t),
           OpenQuantity(m)' = OpenQuantity(m) - q, OpenQuantity(t)' = OpenQuantity(t) - q,
           \A p \in Orders \ {m, t} : OpenQuantity(p)' = OpenQuantity(p),
           traded' = [traded EXCEPT ![m] = @ + q, ![t] = @ + q]
    PROVE  [Ledger!Next]_(Ledger!vars)
<1>. DEFINE open == [p \in Orders |-> OpenQuantity(p)]
<1>1. open' = [open EXCEPT ![m] = @ - q, ![t] = @ - q]
  OBVIOUS
<1>2. open[m] # None /\ open[t] # None /\ q <= open[m] /\ q <= open[t] /\ q \in 1..open[m]
  OBVIOUS
<1>3. Ledger!Execute(m, t, q)
  BY <1>1, <1>2 DEF Ledger!Execute
<1>4. QED  BY <1>2, <1>3 DEF Ledger!Next

\* A trade executes q between the maker's order and the taker's.
LEMMA TradeLedger ==
    ASSUME LedgerInv, LedgerInv', NEW w \in Workers, NEW e \in book, Trade(w, e)
    PROVE  [Ledger!Next]_(Ledger!vars)
<1>1. PICK t : t = req[w].order
  OBVIOUS
<1>2. PICK q : q = TradeAmount(left[w], e.rem)
  OBVIOUS
<1>3. /\ e \in Entry /\ left[w] \in Nat /\ pc[w] = "sweep" /\ left[w] > 0 /\ t \in Orders
      /\ placed[e.id] # None /\ placed[t] # None /\ e.id # t
  BY <1>1 DEF Trade, LedgerInv, TypeOK, CallsOK, OnceInv, Callers, Incoming
<1>4. q \in Nat \ {0} /\ q <= left[w] /\ q <= e.rem /\ e.rem \in Nat \ {0}
  BY <1>2, <1>3 DEF TradeAmount, Entry
<1>5. /\ pc' = pc /\ req' = req /\ placed' = placed
      /\ left' = [left EXCEPT ![w] = left[w] - q]
      /\ traded' = [o \in Orders |-> traded[o] + IF o \in {e.id, t} THEN q ELSE 0]
  BY <1>1, <1>2 DEF Trade
<1>6. PICK f : f = [e EXCEPT !.rem = e.rem - q]
  OBVIOUS
<1>7. f.id = e.id /\ f.rem = e.rem - q
  BY <1>3, <1>6 DEF Entry
<1>8. \/ book' = book \ {e} /\ q = e.rem
      \/ book' = (book \ {e}) \cup {f}
  BY <1>2, <1>6 DEF Trade, Consumed
<1>9. \A g \in book : g.id = e.id => g = e
  BY DEF LedgerInv, OnceInv, IndexAgrees
<1>10. \A v \in Workers : pc[v] \in Entering => req[v].order # e.id
  BY DEF LedgerInv, OnceInv, Incoming, Entering
<1>11. \A v \in Workers : pc[v] \in Entering /\ req[v].order = t => v = w
  BY <1>1, <1>3 DEF LedgerInv, OnceInv, Callers, Entering, SubmitLabels
<1>12. OpenQuantity(e.id) = e.rem /\ OpenQuantity(t) = left[w]
  BY <1>1, <1>3 DEF LedgerInv, OpenPlaces, Entering, Entry
<1>13. OpenQuantity(t)' = left[w] - q
  <2>1. placed'[t] # None /\ pc'[w] \in Entering /\ req'[w].order = t
    BY <1>1, <1>3, <1>5 DEF Entering
  <2>2. OpenQuantity(t)' = left'[w]
    BY <1>3, <2>1 DEF LedgerInv, OpenPlaces
  <2>3. left'[w] = left[w] - q
    BY <1>5 DEF LedgerInv, TypeOK
  <2>4. QED  BY <2>2, <2>3
<1>14. OpenQuantity(e.id)' = e.rem - q
  <2>1. e.id \in Orders /\ placed'[e.id] # None
    BY <1>3, <1>5 DEF Entry
  <2>2. CASE book' = book \ {e} /\ q = e.rem
    <3>1. ~Holds(book, e.id)'
      BY <1>9, <2>2 DEF Holds
    <3>2. OpenQuantity(e.id)' = 0
      BY <1>5, <1>10, <2>1, <3>1 DEF LedgerInv, OpenPlaces
    <3>3. QED  BY <1>4, <2>2, <3>2
  <2>3. CASE book' = (book \ {e}) \cup {f}
    BY <1>7, <2>1, <2>3 DEF LedgerInv, OpenPlaces
  <2>4. QED  BY <1>8, <2>2, <2>3
<1>15. ASSUME NEW p \in Orders \ {e.id, t} PROVE OpenQuantity(p)' = OpenQuantity(p)
  <2>1. \A v \in Workers : pc[v] \in Entering /\ req[v].order = p => left'[v] = left[v]
    BY <1>1, <1>5 DEF LedgerInv, TypeOK
  <2>2. Untouched(p)
    BY <1>5, <1>7, <1>8, <2>1 DEF Untouched
  <2>3. QED  BY <2>2, UntouchedOpen
<1>16. traded' = [traded EXCEPT ![e.id] = @ + q, ![t] = @ + q]
  <2>1. traded \in [Orders -> Nat] /\ e.id \in Orders
    BY <1>3 DEF LedgerInv, TypeOK, Entry
  <2>2. \A o \in Orders : traded'[o] = CASE o = e.id -> traded[o] + q
                                         [] o = t -> traded[o] + q
                                         [] OTHER -> traded[o]
    BY <1>4, <1>5, <2>1
  <2>3. traded' = [o \in Orders |-> traded'[o]]
    BY <1>5
  <2>4. QED  BY <1>3, <2>1, <2>2, <2>3
<1>17. e.id \in Orders /\ None \notin Nat
  BY <1>3, NoneAssumption DEF Entry
<1>18. PICK m : m = e.id
  OBVIOUS
<1>19. QED
  BY <1>3, <1>4, <1>12, <1>13, <1>14, <1>15, <1>16, <1>17, <1>18, LedgerExecutes

\* A step that leaves queues and takers alone stutters.
LEMMA QuietLedger ==
    ASSUME LedgerInv, LedgerInv', book' = book, placed' = placed, traded' = traded,
           \A v \in Workers :
              \/ pc'[v] = pc[v] /\ req'[v] = req[v] /\ left'[v] = left[v]
              \/ pc[v] \in Entering /\ pc'[v] \in Entering /\ req'[v] = req[v]
                   /\ left'[v] = left[v]
              \/ pc[v] \notin Entering /\ pc'[v] \notin Entering
    PROVE  [Ledger!Next]_(Ledger!vars)
<1>1. \A p \in Orders : Untouched(p)
  BY DEF Untouched
<1>2. QED
  BY <1>1, UntouchedOpen, LedgerStutters

\* What a settling order could still trade and does not rest is withdrawn.
LEMMA SettleLedger ==
    ASSUME LedgerInv, LedgerInv', NEW w \in Workers, Settle(w)
    PROVE  [Ledger!Next]_(Ledger!vars)
<1>1. PICK o : o = req[w].order
  OBVIOUS
<1>2. /\ pc[w] = "settle" /\ book' = book /\ placed' = placed /\ traded' = traded
      /\ o \in Orders /\ placed[o] # None /\ left[w] \in Nat
      /\ pc'[w] \notin Entering
  BY <1>1 DEF Settle, queues, LedgerInv, TypeOK, CallsOK, OnceInv, Callers, Finish, Goto, Entering
<1>3. \A v \in Workers \ {w} : pc'[v] = pc[v] /\ req'[v] = req[v] /\ left'[v] = left[v]
  BY OthersKept DEF LedgerInv, SubmitStep
<1>4. \A v \in Workers : pc[v] \in Entering /\ req[v].order = o => v = w
  BY <1>1, <1>2 DEF LedgerInv, OnceInv, Callers, Entering, SubmitLabels
<1>5. ~Holds(book, o)
  BY <1>1, <1>2 DEF LedgerInv, OnceInv, Incoming, Holds
<1>6. OpenQuantity(o) = left[w]
  BY <1>1, <1>2 DEF LedgerInv, OpenPlaces, Entering
<1>7. OpenQuantity(o)' = 0
  <2>1. \A v \in Workers : ~(pc'[v] \in Entering /\ req'[v].order = o)
    BY <1>2, <1>3, <1>4
  <2>2. ~Holds(book, o)'
    BY <1>2, <1>5 DEF Holds
  <2>3. QED  BY <1>2, <2>1, <2>2 DEF LedgerInv, OpenPlaces
<1>8. ASSUME NEW p \in Orders \ {o} PROVE OpenQuantity(p)' = OpenQuantity(p)
  <2>1. Untouched(p)
    BY <1>1, <1>2, <1>3 DEF Untouched
  <2>2. QED  BY <2>1, UntouchedOpen
<1>9. CASE left[w] = 0
  BY <1>2, <1>6, <1>7, <1>8, <1>9, LedgerStutters
<1>10. CASE left[w] # 0
  BY <1>2, <1>6, <1>7, <1>8, <1>10, NoneAssumption, LedgerWithdraws
<1>11. QED  BY <1>9, <1>10

\* What an order still wants moves from its taker to its entry.
LEMMA AddLedger ==
    ASSUME LedgerInv, LedgerInv', NEW w \in Workers, AddOrder(w)
    PROVE  [Ledger!Next]_(Ledger!vars)
<1>1. PICK o : o = req[w].order
  OBVIOUS
<1>. DEFINE entry == [id |-> req[w].order, side |-> req[w].side, price |-> req[w].limit,
                      rem |-> left[w],
                      turn |-> NextTurn(req[w].side, Level(req[w].limit))]
<1>2. /\ pc[w] = "settle" /\ placed' = placed /\ traded' = traded
      /\ o \in Orders /\ placed[o] # None /\ pc'[w] \notin Entering /\ index[o] = None
  BY <1>1 DEF AddOrder, LedgerInv, TypeOK, CallsOK, OnceInv, Callers, Incoming, Finish, Goto, Entering
<1>3. book' = book \cup {entry}
  BY <1>1, <1>2 DEF AddOrder
<1>4. entry.id = o /\ entry.rem = left[w]
  BY <1>1
<1>. HIDE DEF entry
<1>5. \A v \in Workers \ {w} : pc'[v] = pc[v] /\ req'[v] = req[v] /\ left'[v] = left[v]
  BY OthersKept DEF LedgerInv, SubmitStep
<1>6. OpenQuantity(o) = left[w]
  BY <1>1, <1>2 DEF LedgerInv, OpenPlaces, Entering
<1>7. OpenQuantity(o)' = left[w]
  BY <1>2, <1>3, <1>4 DEF LedgerInv, OpenPlaces
<1>8. ASSUME NEW p \in Orders, p # o PROVE OpenQuantity(p)' = OpenQuantity(p)
  <2>1. Untouched(p)
    BY <1>1, <1>2, <1>3, <1>4, <1>5, <1>8 DEF Untouched
  <2>2. QED  BY <2>1, UntouchedOpen
<1>9. QED
  BY <1>2, <1>6, <1>7, <1>8, LedgerStutters

\* What a cancel takes out of the queues is withdrawn.
LEMMA TakeLedger ==
    ASSUME LedgerInv, LedgerInv', NEW w \in Workers, CancelStep(w),
           NEW e \in book, book' = book \ {e}
    PROVE  [Ledger!Next]_(Ledger!vars)
<1>1. PICK o : o = e.id
  OBVIOUS
<1>2. /\ placed' = placed /\ traded' = traded /\ pc[w] \notin Entering
      /\ o \in Orders /\ placed[o] # None /\ e.rem \in Nat \ {0}
  BY <1>1 DEF CancelStep, Unindex, Unqueue, ScanBids, ScanAsks, DropIndex, Uncount,
     queues, aux, LedgerInv, TypeOK, Entry, OnceInv, Callers, Entering
<1>3. pc'[w] \notin Entering
  BY DEF LedgerInv, TypeOK, CancelStep, Unindex, Unqueue, ScanBids, ScanAsks, DropIndex,
     Uncount, Return, Finish, Goto, Entering, OnceInv, Callers, CancelLabels
<1>4. \A v \in Workers \ {w} : pc'[v] = pc[v] /\ req'[v] = req[v] /\ left'[v] = left[v]
  BY OthersKept DEF LedgerInv
<1>5. OpenQuantity(o) = e.rem
  BY <1>1, <1>2 DEF LedgerInv, OpenPlaces
<1>6. OpenQuantity(o)' = 0
  <2>1. ~Holds(book, o)'
    BY <1>1 DEF LedgerInv, OnceInv, IndexAgrees, Holds
  <2>2. \A v \in Workers : ~(pc[v] \in Entering /\ req[v].order = o)
    BY <1>1 DEF LedgerInv, OnceInv, Incoming, Entering
  <2>3. \A v \in Workers : ~(pc'[v] \in Entering /\ req'[v].order = o)
    BY <1>3, <1>4, <2>2
  <2>4. QED  BY <1>2, <2>1, <2>3 DEF LedgerInv, OpenPlaces
<1>7. ASSUME NEW p \in Orders, p # o PROVE OpenQuantity(p)' = OpenQuantity(p)
  <2>1. Untouched(p)
    BY <1>1, <1>2, <1>3, <1>4, <1>7 DEF Untouched
  <2>2. QED  BY <2>1, UntouchedOpen
<1>8. QED
  BY <1>2, <1>5, <1>6, <1>7, NoneAssumption, LedgerWithdraws

\* A new order opens with its quantity.
LEMMA PlaceLedger ==
    ASSUME LedgerInv, LedgerInv', NEW w \in Workers, NEW o \in Orders, NEW t \in Terms,
           Submit(w, o, t)
    PROVE  [Ledger!Next]_(Ledger!vars)
<1>1. /\ pc[w] = "idle" /\ placed[o] = None /\ placed' = [placed EXCEPT ![o] = t.side]
      /\ t.side \in Sides /\ t.qty \in Quantities /\ book' = book /\ traded' = traded
      /\ pc'[w] = "match" /\ left'[w] = t.qty /\ req'[w].order = o
  BY DEF Submit, LedgerInv, TypeOK, Terms, Request, queues, Goto
<1>2. None \notin Sides /\ placed'[o] # None
  BY <1>1, NoneAssumption DEF LedgerInv, TypeOK
<1>3. \A v \in Workers \ {w} : pc'[v] = pc[v] /\ req'[v] = req[v] /\ left'[v] = left[v]
  BY OthersKept DEF LedgerInv, Call
<1>4. OpenQuantity(o) = None
  BY <1>1 DEF LedgerInv, OpenPlaces
<1>5. OpenQuantity(o)' = t.qty
  BY <1>1, <1>2 DEF LedgerInv, OpenPlaces, Entering
<1>6. ASSUME NEW p \in Orders, p # o PROVE OpenQuantity(p)' = OpenQuantity(p)
  <2>1. placed'[p] = placed[p]
    BY <1>1, <1>6 DEF LedgerInv, TypeOK
  <2>2. Untouched(p)
    BY <1>1, <1>3, <1>6, <2>1 DEF Untouched, Entering
  <2>3. QED  BY <2>2, UntouchedOpen
<1>7. PICK q \in Quantities : q = t.qty
  BY <1>1
<1>8. QED
  BY <1>1, <1>4, <1>5, <1>6, <1>7, LedgerPlaces

\* Every step of the code's model is a step of the ledger or a stutter.
LEMMA LedgerStep ==
    ASSUME LedgerInv, LedgerInv', Amendable = {}, [Next]_vars
    PROVE  [Ledger!Next]_(Ledger!vars)
<1>1. CASE UNCHANGED vars
  <2>1. book' = book /\ placed' = placed /\ traded' = traded
        /\ pc' = pc /\ req' = req /\ left' = left
    BY <1>1 DEF vars, queues, calls, aux
  <2>2. QED  BY <2>1, QuietLedger
<1>2. ASSUME NEW w \in Workers, Call(w) PROVE [Ledger!Next]_(Ledger!vars)
  <2>1. \A v \in Workers \ {w} : pc'[v] = pc[v] /\ req'[v] = req[v] /\ left'[v] = left[v]
    BY <1>2, OthersKept DEF LedgerInv
  <2>2. ASSUME NEW o \in Orders, Cancel(w, o) PROVE [Ledger!Next]_(Ledger!vars)
    <3>1. /\ book' = book /\ placed' = placed /\ traded' = traded
          /\ pc[w] \notin Entering /\ pc'[w] \notin Entering
      BY <2>2 DEF Cancel, queues, Goto, LedgerInv, TypeOK, Entering
    <3>2. QED  BY <2>1, <3>1, QuietLedger
  <2>3. QED
    BY <1>2, <2>2, PlaceLedger DEF Call, Amend
<1>3. ASSUME NEW w \in Workers, SubmitStep(w) PROVE [Ledger!Next]_(Ledger!vars)
  <2>1. \A v \in Workers \ {w} : pc'[v] = pc[v] /\ req'[v] = req[v] /\ left'[v] = left[v]
    BY <1>3, OthersKept DEF LedgerInv
  <2>2. CASE BeginMatch(w) \/ EndMatch(w) \/ CountOrder(w) \/ SelfCheck(w)
    <3>1. book' = book /\ placed' = placed /\ traded' = traded /\ left' = left
      BY <2>2 DEF BeginMatch, EndMatch, CountOrder, SelfCheck, queues, aux
    <3>2. \/ pc[w] \in Entering /\ pc'[w] \in Entering /\ req'[w] = req[w]
          \/ pc[w] \notin Entering /\ pc'[w] \notin Entering
      BY <2>2 DEF BeginMatch, EndMatch, CountOrder, SelfCheck, Goto, Finish, LedgerInv, TypeOK,
         Entering
    <3>3. QED  BY <2>1, <3>1, <3>2, QuietLedger
  <2>3. QED
    BY <1>3, <2>2, TradeLedger, SettleLedger, AddLedger DEF SubmitStep
<1>4. ASSUME NEW w \in Workers, CancelStep(w) PROVE [Ledger!Next]_(Ledger!vars)
  <2>1. \A v \in Workers \ {w} : pc'[v] = pc[v] /\ req'[v] = req[v] /\ left'[v] = left[v]
    BY <1>4, OthersKept DEF LedgerInv
  <2>2. placed' = placed /\ traded' = traded /\ pc[w] \notin Entering
        /\ (book' = book \/ \E e \in book : book' = book \ {e})
    BY <1>4 DEF CancelStep, Unindex, Unqueue, ScanBids, ScanAsks, DropIndex, Uncount,
       queues, aux, Entering, Queue, Entries
  <2>3. pc'[w] \notin Entering
    BY <1>4 DEF LedgerInv, TypeOK, CancelStep, Unindex, Unqueue, ScanBids, ScanAsks, DropIndex,
       Uncount, Return, Finish, Goto, Entering, OnceInv, Callers, CancelLabels
  <2>4. QED  BY <1>4, <2>1, <2>2, <2>3, QuietLedger, TakeLedger
<1>5. QED
  BY <1>1, <1>2, <1>3, <1>4 DEF Next

\* While no order is amended the market implements the ledger: through queues,
\* index, locks and threads, an order's quantity opens once, moves only by equal
\* executions on both sides, and is withdrawn at most once, all that is left.
THEOREM LedgerImplemented ==
    ASSUME Amendable = {} PROVE Spec => ImplementsLedger
<1>1. Init => Ledger!Init
  <2>1. SUFFICES ASSUME Init PROVE Ledger!Init
    OBVIOUS
  <2>2. \A o \in Orders : OpenQuantity(o) = None
    BY <2>1 DEF Init, OpenQuantity
  <2>3. traded = [o \in Orders |-> 0]
    BY <2>1 DEF Init
  <2>4. QED  BY <2>2, <2>3 DEF Ledger!Init
<1>2. LedgerInv /\ LedgerInv' /\ [Next]_vars => [Ledger!Next]_(Ledger!vars)
  BY LedgerStep
<1>3. QED
  BY <1>1, <1>2, LedgerInvariant, PTL DEF Spec, ImplementsLedger, Ledger!Spec

-----------------------------------------------------------------------------
(* The spot market.  SpotInv follows a command from its freeze to its last    *)
(* statement: the hits that are still to be committed are already taken from   *)
(* the book but not from the rows (BookWithin), they add up to the room that   *)
(* the order has left and were found within its limit (JobSound), and the      *)
(* frozen balance covers what every order can still claim, the one in hand     *)
(* until its refund and the one whose row is not inserted yet (MoneySound).    *)
SpotSides == {"buy", "sell"}
SpotStatuses == {"open", "partially_filled", "filled", "canceled"}
SpotRow == [user : Traders, side : SpotSides, tif : {"gtc", "ioc", "post", "market"},
            price : Nat, qty : Nat, filled : Nat, paid : Nat, status : SpotStatuses]
SpotHit == [maker : Nat, qty : Nat, after : Nat]

JobTypes ==
    \/ job = Idle
    \/ job \in [pc : {"insert"}, order : SpotRow]
    \/ job \in [pc : {"commit"}, id : Ids, hits : Seq(SpotHit), left : Nat]
    \/ job \in [pc : {"status"}, id : Ids, left : Nat]

SpotTypes ==
    /\ spotOrders \in Seq(SpotRow)
    /\ avail \in [Traders -> [Tokens -> Nat]] /\ frozen \in [Traders -> [Tokens -> Int]]
    /\ DOMAIN resting \subseteq Ids /\ resting \in [DOMAIN resting -> Nat]
    /\ JobTypes
    /\ up \in BOOLEAN /\ faults \in 0 .. MaxSpotFaults
    /\ cut \subseteq Ids /\ lostFills \subseteq Ids /\ halfRefunded \subseteq Ids
    /\ strayLock \subseteq Traders
    /\ up \/ (job = Idle /\ DOMAIN resting = {})

\* What an order can still trade: base, but for a market buy quote.
InQuote(o) == o.side = "buy" /\ o.tif = "market"
Room(o) == IF InQuote(o) THEN o.qty - o.paid ELSE o.qty - o.filled

\* A row never trades beyond its size, and a limit order that has is closed.
RowSound(o) ==
    /\ o.tif # "market" => o.price > 0
    /\ Room(o) >= 0
    /\ o.status \in Live /\ o.tif # "market" => Room(o) > 0
RowsSound == \A i \in Ids : RowSound(spotOrders[i])

NewRow(o) == RowSound(o) /\ o.qty > 0 /\ o.filled = 0 /\ o.paid = 0 /\ o.status = "open"

\* The order of the command in hand, and what a hit of it has yet to be paid.
InHand == IF job.pc \in {"commit", "status"} THEN {job.id} ELSE {}
HitsOn(hits, i) == {n \in DOMAIN hits : hits[n].maker = i}
UnpaidIn(hits, i) == IF HitsOn(hits, i) = {} THEN 0 ELSE hits[CHOOSE n \in HitsOn(hits, i) : TRUE].qty
Unpaid(i) == IF job.pc = "commit" THEN UnpaidIn(job.hits, i) ELSE 0

\* The book, with the hits that are not committed, is within the rows, and
\* equal to them for orders of which no hit was lost since the start.
BookWithin ==
    \A i \in DOMAIN resting :
         /\ i \notin InHand /\ IsLive(i) /\ Restable(spotOrders[i])
         /\ resting[i] + Unpaid(i) <= Room(spotOrders[i])
         /\ i \notin cut \cap lostFills => resting[i] + Unpaid(i) = Room(spotOrders[i])
LiveInBook ==
    up => \A i \in Ids \ InHand :
         /\ IsLive(i) /\ i \notin cut => i \in DOMAIN resting
         /\ IsLive(i) /\ RestsWith(spotOrders[i]) /\ lostFills = {} => i \in DOMAIN resting

SpentOf(o, h) == IF InQuote(o) THEN h.qty * spotOrders[h.maker].price ELSE h.qty
Spents(o, hits) == [n \in DOMAIN hits |-> SpentOf(o, hits[n])]
SpentBy(o, hits) == SumOfSeq(Spents(o, hits))

\* Each maker is hit once, and only within the order's limit.
HitsSound(o, hits) ==
    \A n \in DOMAIN hits :
        /\ hits[n].maker \in Takeable(o) /\ resting[hits[n].maker] = hits[n].after
        /\ \A m \in DOMAIN hits : hits[m].maker = hits[n].maker => m = n
\* Where something is left of a limit order, every maker in reach is used up.
SweptAll(o, hits, spare) ==
    o.tif # "market" /\ spare > 0 =>
        \A i \in Takeable(o) : \E n \in DOMAIN hits : hits[n].maker = i /\ hits[n].after = 0

JobSound ==
    /\ job.pc = "insert" => NewRow(job.order)
    /\ job.pc \in {"commit", "status"} =>
         /\ job.id \notin cut /\ job.id \notin lostFills
         /\ spotOrders[job.id].status # "canceled"
         /\ spotOrders[job.id].status = "filled" => job.left = 0
    /\ job.pc = "status" => Room(spotOrders[job.id]) = job.left /\ ~RestsWith(spotOrders[job.id])
    /\ job.pc = "commit" =>
         /\ Room(spotOrders[job.id]) = job.left + SpentBy(spotOrders[job.id], job.hits)
         /\ HitsSound(spotOrders[job.id], job.hits)
         /\ SweptAll(spotOrders[job.id], job.hits, job.left)

RowsUncrossed ==
    lostFills = {} =>
       \A i, j \in {k \in Ids \ InHand : IsLive(k) /\ RestsWith(spotOrders[k])} :
          spotOrders[i].side = "buy" /\ spotOrders[j].side = "sell"
             => spotOrders[i].price < spotOrders[j].price

FilledSound ==
    \A i \in Ids \ (lostFills \cup InHand) :
        spotOrders[i].status = "filled" => Room(spotOrders[i]) = 0

\* What an order claims of the frozen balance, the order of the command in hand
\* until its refund; and what was frozen for an order that has no row yet.
Counted(i) == i \notin Closing /\ (IsLive(i) \/ i \in InHand)
Claim(i, u, t) ==
    IF Counted(i) /\ spotOrders[i].user = u /\ LockToken(spotOrders[i]) = t
    THEN Residual(spotOrders[i]) ELSE 0
Claims(u, t) == SumFunctionOnSet([i \in Ids |-> Claim(i, u, t)], Ids)
Reserved(u, t) ==
    IF job.pc = "insert" /\ job.order.user = u /\ LockToken(job.order) = t
    THEN LockOf(job.order) ELSE 0
NotHalf(u) == \A i \in halfRefunded : spotOrders[i].user # u
MoneySound ==
    \A u \in Traders : NotHalf(u) =>
        /\ \A t \in Tokens : Claims(u, t) + Reserved(u, t) <= frozen[u][t]
        /\ lostFills = {} /\ u \notin strayLock =>
              frozen[u]["base"] = Claims(u, "base") + Reserved(u, "base")

SpotInv ==
    /\ SpotTypes /\ RowsSound /\ BookWithin /\ LiveInBook /\ JobSound
    /\ RowsUncrossed /\ FilledSound /\ MoneySound

-----------------------------------------------------------------------------
(* The sweep: the last of a set of makers exists, and so does the recursion. *)

LEMMA RowOf ==
  ASSUME SpotTypes, NEW i \in Ids
  PROVE  spotOrders[i] \in SpotRow
BY DEF SpotTypes, Ids

LEMMA TakeableIds ==
  ASSUME SpotTypes, NEW o
  PROVE  /\ Takeable(o) \subseteq Ids /\ Takeable(o) \subseteq DOMAIN resting
         /\ IsFiniteSet(Takeable(o)) /\ Ids \subseteq Nat
<1>1. Len(spotOrders) \in Nat
  BY DEF SpotTypes
<1>2. IsFiniteSet(Ids)
  BY <1>1, FS_Interval DEF Ids
<1>3. Takeable(o) \subseteq DOMAIN resting /\ DOMAIN resting \subseteq Ids
  BY DEF Takeable, SpotTypes
<1>4. IsFiniteSet(Takeable(o))
  BY <1>2, <1>3, FS_Subset
<1>5. Ids \subseteq Nat
  BY <1>1 DEF Ids
<1> QED BY <1>3, <1>4, <1>5

\* Within one side of the book, best first is a total order.
LEMMA AheadOrders ==
  ASSUME SpotTypes, NEW o \in SpotRow
  PROVE  /\ \A i, j \in Takeable(o) : i # j => Ahead(i, j) \/ Ahead(j, i)
         /\ \A i, j, k \in Takeable(o) : Ahead(i, j) /\ Ahead(j, k) => Ahead(i, k)
<1> DEFINE p(i) == spotOrders[i].price
           s(i) == spotOrders[i].side = "sell"
<1>1. \A i \in Takeable(o) : i \in Nat /\ p(i) \in Nat
  BY TakeableIds, RowOf DEF SpotRow
<1>2. \A i, j \in Takeable(o) : s(i) = s(j)
  <2> SUFFICES ASSUME NEW i \in Takeable(o), NEW j \in Takeable(o) PROVE s(i) = s(j)
    OBVIOUS
  <2>1. spotOrders[i].side # o.side /\ spotOrders[j].side # o.side
    BY DEF Takeable
  <2>2. spotOrders[i].side \in SpotSides /\ spotOrders[j].side \in SpotSides /\ o.side \in SpotSides
    BY TakeableIds, RowOf DEF SpotRow
  <2> QED BY <2>1, <2>2 DEF SpotSides
<1>3. \A i, j : Ahead(i, j) <=> IF p(i) = p(j) THEN i < j ELSE IF s(i) THEN p(i) < p(j) ELSE p(i) > p(j)
  BY DEF Ahead
<1> HIDE DEF p, s
<1> QED BY <1>1, <1>2, <1>3

LEMMA LastIsIn ==
  ASSUME SpotTypes, NEW o \in SpotRow, NEW S \in SUBSET Takeable(o), S # {}
  PROVE  LastOf(S) \in S
<1> DEFINE IsLast(i, s) == i \in s /\ \A j \in s \ {i} : Ahead(j, i)
           Fails(s) == s # {} /\ ~ \E i \in s : IsLast(i, s)
           B == {n \in Nat : \E s \in SUBSET S : Cardinality(s) = n /\ Fails(s)}
<1>c. \A s \in SUBSET S : IsFiniteSet(s) /\ Cardinality(s) \in Nat
  BY TakeableIds, FS_Subset, FS_CardinalityType
<1>t. /\ \A i, j \in S : i # j => Ahead(i, j) \/ Ahead(j, i)
      /\ \A i, j, k \in S : Ahead(i, j) /\ Ahead(j, k) => Ahead(i, k)
  BY AheadOrders
<1>1. B = {}
  <2> SUFFICES ASSUME B # {} PROVE FALSE
    OBVIOUS
  <2>1. PICK n \in B : \A k \in B : n <= k
    <3>1. B \in SUBSET Nat
      OBVIOUS
    <3> HIDE DEF B
    <3> QED BY <3>1, LeastNat
  <2>2. PICK s \in SUBSET S : Cardinality(s) = n /\ Fails(s)
    BY <2>1
  <2>3. PICK x \in s : TRUE
    BY <2>2
  <2> DEFINE r == s \ {x}
  <2>4. Cardinality(r) = n - 1 /\ r \in SUBSET S
    BY <1>c, <2>2, FS_RemoveElement
  <2>5. ~Fails(r)
    <3>1. n - 1 \in Nat
      BY <1>c, <2>4
    <3>2. n - 1 \notin B
      BY <2>1, <3>1
    <3> QED BY <2>4, <3>1, <3>2
  <2>6. CASE r = {}
    <3>1. IsLast(x, s)
      BY <2>6
    <3> QED BY <2>2, <3>1
  <2>7. CASE r # {}
    <3>1. PICK y \in r : IsLast(y, r)
      BY <2>5, <2>7
    <3>2. x \in S /\ y \in S /\ x # y
      BY <3>1
    <3>3. CASE Ahead(y, x)
      <4>1. IsLast(x, s)
        <5> SUFFICES ASSUME NEW j \in s \ {x} PROVE Ahead(j, x)
          OBVIOUS
        <5>1. j \in S /\ (j = y \/ Ahead(j, y))
          BY <3>1
        <5> QED BY <1>t, <3>2, <3>3, <5>1
      <4> QED BY <2>2, <4>1
    <3>4. CASE Ahead(x, y)
      <4>1. IsLast(y, s)
        BY <3>1, <3>4
      <4> QED BY <2>2, <3>1, <4>1
    <3> QED BY <1>t, <3>2, <3>3, <3>4
  <2> QED BY <2>6, <2>7
<1>2. ~Fails(S)
  <2>1. Cardinality(S) \in Nat /\ Cardinality(S) \notin B
    BY <1>c, <1>1
  <2> QED BY <2>1
<1>3. \E i \in S : \A j \in S \ {i} : Ahead(j, i)
  BY <1>2
<1> HIDE DEF IsLast, Fails, B
<1> QED BY <1>3 DEF LastOf

\* f sweeps for o over every set of makers of the family F.
SweepsAll(f, o, F) ==
    f = [s \in F |-> IF s = {} THEN Unmatched(o) ELSE Sweep1(o, f[s \ {LastOf(s)}], LastOf(s))]

LEMMA MatchedSweeps ==
  ASSUME NEW o
  PROVE  Matched(o) = (CHOOSE f : SweepsAll(f, o, SUBSET Takeable(o)))[Takeable(o)]
BY DEF Matched, SweepsAll

LEMMA SweepExists ==
  ASSUME SpotTypes, NEW o \in SpotRow
  PROVE  \E f : SweepsAll(f, o, SUBSET Takeable(o))
<1> DEFINE S == Takeable(o)
           B == {n \in Nat : ~ \E f : SweepsAll(f, o, SubsetsUpTo(S, n))}
<1>f. IsFiniteSet(S)
  BY TakeableIds
<1>c. \A s \in SUBSET S : IsFiniteSet(s) /\ Cardinality(s) \in Nat /\ Cardinality(s) <= Cardinality(S)
  BY <1>f, FS_Subset, FS_CardinalityType
<1>l. \A s \in SUBSET S : s # {} => LastOf(s) \in s
  BY LastIsIn
<1> HIDE DEF S
<1>1. B = {}
  <2> SUFFICES ASSUME B # {} PROVE FALSE
    OBVIOUS
  <2>1. PICK n \in B : \A k \in B : n <= k
    <3>1. B \in SUBSET Nat
      OBVIOUS
    <3> HIDE DEF B
    <3> QED BY <3>1, LeastNat
  <2>2. CASE n = 0
    <3> DEFINE f == [s \in SubsetsUpTo(S, 0) |-> Unmatched(o)]
    <3>1. \A s \in SubsetsUpTo(S, 0) : s = {}
      <4> TAKE s \in SubsetsUpTo(S, 0)
      <4>1. IsFiniteSet(s) /\ Cardinality(s) = 0
        BY <1>c DEF SubsetsUpTo
      <4> QED BY <4>1, FS_EmptySet
    <3>2. SweepsAll(f, o, SubsetsUpTo(S, 0))
      BY <3>1 DEF SweepsAll
    <3> HIDE DEF f
    <3> QED BY <2>2, <3>2
  <2>3. CASE n # 0
    <3>1. n - 1 \in Nat /\ n - 1 \notin B
      BY <2>1, <2>3
    <3>2. PICK f : SweepsAll(f, o, SubsetsUpTo(S, n - 1))
      BY <3>1
    <3> DEFINE h == [s \in SubsetsUpTo(S, n) |->
                       IF s = {} THEN Unmatched(o) ELSE Sweep1(o, f[s \ {LastOf(s)}], LastOf(s))]
    <3>3. \A s \in SubsetsUpTo(S, n) : s # {} => s \ {LastOf(s)} \in SubsetsUpTo(S, n - 1)
      <4> SUFFICES ASSUME NEW s \in SubsetsUpTo(S, n), s # {} PROVE s \ {LastOf(s)} \in SubsetsUpTo(S, n - 1)
        OBVIOUS
      <4>1. IsFiniteSet(s) /\ Cardinality(s) \in Nat /\ Cardinality(s) <= n /\ LastOf(s) \in s
        BY <1>c, <1>l DEF SubsetsUpTo
      <4>2. Cardinality(s \ {LastOf(s)}) = Cardinality(s) - 1
        BY <4>1, FS_RemoveElement
      <4>3. Cardinality(s) - 1 <= n - 1 /\ s \in SUBSET S
        BY <4>1, <2>1 DEF SubsetsUpTo
      <4> QED BY <4>2, <4>3 DEF SubsetsUpTo
    <3>4. SubsetsUpTo(S, n - 1) \subseteq SubsetsUpTo(S, n)
      BY <1>c, <2>1 DEF SubsetsUpTo
    <3>5. \A u \in SubsetsUpTo(S, n - 1) : h[u] = f[u]
      BY <3>2, <3>4 DEF SweepsAll
    <3>6. \A s \in SubsetsUpTo(S, n) :
             h[s] = IF s = {} THEN Unmatched(o) ELSE Sweep1(o, h[s \ {LastOf(s)}], LastOf(s))
      BY <3>3, <3>5
    <3>7. SweepsAll(h, o, SubsetsUpTo(S, n))
      BY <3>6, Zenon DEF SweepsAll
    <3> HIDE DEF h
    <3> QED BY <2>1, <3>7
  <2> QED BY <2>2, <2>3
<1>2. Cardinality(S) \in Nat /\ SubsetsUpTo(S, Cardinality(S)) = SUBSET S
  BY <1>c, <1>f, FS_CardinalityType DEF SubsetsUpTo
<1>3. \E f : SweepsAll(f, o, SubsetsUpTo(S, Cardinality(S)))
  BY <1>1, <1>2
<1> QED BY <1>2, <1>3 DEF S

-----------------------------------------------------------------------------
(* What a sweep leaves. *)

LEMMA DivSpot ==
  ASSUME NEW l \in Nat, NEW p \in Nat \ {0}
  PROVE  (l \div p) \in Nat /\ (l \div p) * p <= l
OBVIOUS

LEMMA TimesLess ==
  ASSUME NEW a \in Nat, NEW b \in Nat, a <= b, NEW p \in Nat
  PROVE  a * p <= b * p /\ a * p \in Nat /\ b * p \in Nat
OBVIOUS

\* The hits and the rest after the makers of S.
OneHit(hits, S, n) ==
    /\ hits[n].maker \in S
    /\ hits[n].qty + hits[n].after = resting[hits[n].maker]
    /\ \A m \in DOMAIN hits : hits[m].maker = hits[n].maker => m = n
UsedUp(hits, i) == \E n \in DOMAIN hits : hits[n].maker = i /\ hits[n].after = 0
SweptOver(o, w, S) ==
    /\ w \in [hits : Seq(SpotHit), left : Nat, stopped : BOOLEAN]
    /\ \A n \in DOMAIN w.hits : OneHit(w.hits, S, n)
    /\ o.qty = w.left + SpentBy(o, w.hits)
    /\ o.tif # "market" => ~w.stopped
    /\ o.tif # "market" /\ w.left > 0 => \A i \in S : UsedUp(w.hits, i)

LEMMA SpentNat ==
  ASSUME SpotTypes, NEW o, NEW h \in SpotHit, h.maker \in Ids
  PROVE  SpentOf(o, h) \in Nat
<1>1. h.qty \in Nat /\ spotOrders[h.maker].price \in Nat
  BY RowOf DEF SpotHit, SpotRow
<1> QED BY <1>1, TimesLess DEF SpentOf

LEMMA AppendIs ==
  ASSUME NEW S, NEW s \in Seq(S), NEW x
  PROVE  Append(s, x) = [n \in 1 .. Len(s) + 1 |-> IF n = Len(s) + 1 THEN x ELSE s[n]]
<1> DEFINE t == Append(s, x)
<1>1. s \in Seq(S \cup {x}) /\ x \in S \cup {x}
  OBVIOUS
<1>2. /\ t \in Seq(S \cup {x}) /\ Len(t) = Len(s) + 1
      /\ \A n \in 1 .. Len(s) + 1 : t[n] = IF n = Len(s) + 1 THEN x ELSE s[n]
  BY <1>1
<1> HIDE DEF t
<1>3. t = [n \in 1 .. Len(s) + 1 |-> t[n]]
  BY <1>2
<1>4. [n \in 1 .. Len(s) + 1 |-> t[n]] = [n \in 1 .. Len(s) + 1 |-> IF n = Len(s) + 1 THEN x ELSE s[n]]
  BY <1>2
<1> QED BY <1>3, <1>4 DEF t

LEMMA SpentAppend ==
  ASSUME SpotTypes, NEW o, NEW hits \in Seq(SpotHit), \A n \in DOMAIN hits : hits[n].maker \in Ids,
         NEW h \in SpotHit, h.maker \in Ids
  PROVE  SpentBy(o, Append(hits, h)) = SpentBy(o, hits) + SpentOf(o, h) /\ SpentBy(o, hits) \in Int
<1> DEFINE s == Spents(o, hits)
           x == SpentOf(o, h)
<1>1. Len(hits) \in Nat /\ DOMAIN hits = 1 .. Len(hits) /\ \A n \in DOMAIN hits : hits[n] \in SpotHit
  OBVIOUS
<1>2. \A n \in DOMAIN hits : SpentOf(o, hits[n]) \in Int
  BY <1>1, SpentNat
<1>3. x \in Int
  BY SpentNat
<1>4. s = [n \in 1 .. Len(hits) |-> SpentOf(o, hits[n])]
  BY <1>1 DEF Spents
<1>5. s \in Seq(Int) /\ Len(s) = Len(hits)
  BY <1>1, <1>2, <1>4
<1>6. Spents(o, Append(hits, h)) = Append(s, x)
  <2>1. DOMAIN Append(hits, h) = 1 .. Len(hits) + 1
    BY <1>1
  <2>2. \A n \in 1 .. Len(hits) : Append(hits, h)[n] = hits[n]
    BY <1>1
  <2>3. Append(hits, h)[Len(hits) + 1] = h
    BY <1>1
  <2>4. Spents(o, Append(hits, h)) = [n \in 1 .. Len(hits) + 1 |-> IF n = Len(hits) + 1 THEN x ELSE s[n]]
    <3>1. \A n \in 1 .. Len(hits) + 1 :
            SpentOf(o, Append(hits, h)[n]) = IF n = Len(hits) + 1 THEN x ELSE s[n]
      <4> TAKE n \in 1 .. Len(hits) + 1
      <4>1. CASE n = Len(hits) + 1
        BY <4>1, <2>3
      <4>2. CASE n # Len(hits) + 1
        <5>1. n \in 1 .. Len(hits)
          BY <1>1, <4>2
        <5>2. s[n] = SpentOf(o, hits[n])
          BY <1>4, <5>1
        <5> QED BY <2>2, <4>2, <5>1, <5>2
      <4> QED BY <4>1, <4>2
    <3> HIDE DEF s, x
    <3> QED BY <2>1, <3>1 DEF Spents
  <2> HIDE DEF s, x
  <2>5. Append(s, x) = [n \in 1 .. Len(s) + 1 |-> IF n = Len(s) + 1 THEN x ELSE s[n]]
    BY ONLY <1>5, AppendIs
  <2> QED BY <1>5, <2>4, <2>5
<1>7. /\ SpentBy(o, hits) = SumOfSeq(s) /\ SpentOf(o, h) = x
      /\ SpentBy(o, Append(hits, h)) = SumOfSeq(Append(s, x))
  BY <1>6 DEF SpentBy
<1> HIDE DEF s, x
<1>8. SumOfSeq(Append(s, x)) = SumOfSeq(s) + x /\ SumOfSeq(s) \in Int
  BY <1>3, <1>5, SumOfAppend
<1> QED BY <1>3, <1>7, <1>8

LEMMA SpentEmpty ==
  ASSUME NEW o
  PROVE  SpentBy(o, << >>) = 0
<1>1. DOMAIN Spents(o, << >>) = {}
  BY DEF Spents
<1> QED BY <1>1, SumEmpty DEF SpentBy, SumOfSeq

\* What is taken of a maker is at most what the book has of it and what is left.
LEMMA TakeBounds ==
  ASSUME SpotTypes, NEW o \in SpotRow, NEW i \in Takeable(o), spotOrders[i].price > 0, NEW spare \in Nat
  PROVE  LET q == TakeOf(o, spare, i) IN
         /\ q \in Nat /\ q <= resting[i] /\ resting[i] \in Nat
         /\ SpentOn(o, q, i) \in Nat /\ SpentOn(o, q, i) <= spare
         /\ ~InQuote(o) => SpentOn(o, q, i) = q /\ (q = resting[i] \/ q = spare)
<1>1. resting[i] \in Nat
  BY TakeableIds DEF SpotTypes
<1>2. spotOrders[i].price \in Nat \ {0}
  BY TakeableIds, RowOf DEF SpotRow
<1> DEFINE p == spotOrders[i].price
           q == TakeOf(o, spare, i)
           r == resting[i]
<1>3. CASE InQuote(o)
  <2>1. q = (IF (spare \div p) < r THEN spare \div p ELSE r) /\ SpentOn(o, q, i) = q * p
    BY <1>3 DEF TakeOf, SpentOn, InQuote
  <2>2. (spare \div p) \in Nat /\ (spare \div p) * p <= spare
    BY <1>2, DivSpot
  <2> HIDE DEF p, q, r
  <2>3. q \in Nat /\ q <= r /\ q <= (spare \div p) /\ r \in Nat
    BY <1>1, <2>1, <2>2 DEF r
  <2>4. q * p <= (spare \div p) * p /\ q * p \in Nat /\ (spare \div p) * p \in Nat
    BY <1>2, <2>2, <2>3, TimesLess DEF p
  <2>5. q * p <= spare
    BY <2>2, <2>4
  <2> QED BY <1>3, <2>1, <2>3, <2>4, <2>5 DEF r, q
<1>4. CASE ~InQuote(o)
  <2>1. q = (IF spare < r THEN spare ELSE r) /\ SpentOn(o, q, i) = q
    BY <1>4 DEF TakeOf, SpentOn, InQuote
  <2> QED BY <1>1, <1>4, <2>1
<1> QED BY <1>3, <1>4

LEMMA SpotSweepStep ==
  ASSUME SpotTypes, NEW o \in SpotRow, NEW S \in SUBSET Takeable(o), NEW i \in Takeable(o), i \notin S,
         spotOrders[i].price > 0, NEW w, SweptOver(o, w, S)
  PROVE  SweptOver(o, Sweep1(o, w, i), S \cup {i})
<1> DEFINE q == TakeOf(o, w.left, i)
           x == SpentOn(o, q, i)
           h == [maker |-> i, qty |-> q, after |-> resting[i] - q]
           v == Sweep1(o, w, i)
<1> SUFFICES SweptOver(o, v, S \cup {i})
  OBVIOUS
<1>1. w.left \in Nat /\ w.hits \in Seq(SpotHit) /\ w.stopped \in BOOLEAN
      /\ w \in [hits : Seq(SpotHit), left : Nat, stopped : BOOLEAN]
  BY DEF SweptOver
<1>2. /\ q \in Nat /\ q <= resting[i] /\ resting[i] \in Nat
      /\ x \in Nat /\ x <= w.left
      /\ ~InQuote(o) => x = q /\ (q = resting[i] \/ q = w.left)
  BY <1>1, TakeBounds
<1>3. h \in SpotHit /\ h.maker \in Ids /\ h.maker = i /\ h.qty = q /\ h.after = resting[i] - q
  BY <1>2, TakeableIds DEF SpotHit
<1>4. CASE w.left = 0 \/ w.stopped
  <2>1. v = w
    BY <1>4 DEF Sweep1
  <2>2. o.tif # "market" => w.left = 0
    BY <1>4 DEF SweptOver
  <2>3. \A n \in DOMAIN w.hits : OneHit(w.hits, S \cup {i}, n)
    BY DEF SweptOver, OneHit
  <2>4. SweptOver(o, w, S \cup {i})
    <3>1. ~(w.left > 0) \/ o.tif = "market"
      BY <1>1, <2>2
    <3>2. o.qty = w.left + SpentBy(o, w.hits) /\ (o.tif # "market" => ~w.stopped)
      BY DEF SweptOver
    <3> QED BY <1>1, <2>3, <3>1, <3>2, Zenon DEF SweptOver
  <2> QED BY <2>1, <2>4
<1>5. CASE ~(w.left = 0 \/ w.stopped) /\ q = 0 /\ InQuote(o)
  <2>1. v = [w EXCEPT !.stopped = TRUE]
    BY <1>5 DEF Sweep1, InQuote
  <2>2. v.hits = w.hits /\ v.left = w.left /\ v \in [hits : Seq(SpotHit), left : Nat, stopped : BOOLEAN]
    BY <1>1, <2>1
  <2>3. o.tif = "market"
    BY <1>5 DEF InQuote
  <2>4. \A n \in DOMAIN w.hits : OneHit(w.hits, S \cup {i}, n)
    BY DEF SweptOver, OneHit
  <2> HIDE DEF v
  <2> QED BY <1>1, <2>2, <2>3, <2>4 DEF SweptOver
<1>6. CASE ~(w.left = 0 \/ w.stopped) /\ ~(q = 0 /\ InQuote(o))
  <2>1. v = [w EXCEPT !.left = @ - x, !.hits = Append(@, h)]
    BY <1>6 DEF Sweep1, InQuote
  <2>2. v.hits = Append(w.hits, h) /\ v.left = w.left - x /\ v.stopped = w.stopped
    BY <1>1, <2>1
  <2>3. v \in [hits : Seq(SpotHit), left : Nat, stopped : BOOLEAN]
    <3>1. Append(w.hits, h) \in Seq(SpotHit) /\ w.left - x \in Nat
      BY <1>1, <1>2, <1>3
    <3> HIDE DEF h, x
    <3> QED BY <1>1, <2>1, <3>1
  <2> DEFINE k == Len(w.hits)
  <2>4. k \in Nat /\ DOMAIN w.hits = 1 .. k /\ DOMAIN v.hits = 1 .. k + 1
        /\ (\A n \in 1 .. k : v.hits[n] = w.hits[n]) /\ v.hits[k + 1] = h
    <3> HIDE DEF h
    <3> QED BY <1>1, <2>2, <1>3
  <2>5. \A n \in DOMAIN w.hits : w.hits[n].maker \in S
    BY DEF SweptOver, OneHit
  <2>6. o.qty = v.left + SpentBy(o, v.hits)
    <3>1. \A n \in DOMAIN w.hits : w.hits[n].maker \in Ids
      BY <2>5, TakeableIds
    <3>2. SpentBy(o, Append(w.hits, h)) = SpentBy(o, w.hits) + SpentOf(o, h) /\ SpentBy(o, w.hits) \in Int
      <4> HIDE DEF h
      <4> QED BY <1>1, <1>3, <3>1, SpentAppend
    <3>3. SpentOf(o, h) = x
      BY <1>3 DEF SpentOf, SpentOn, InQuote
    <3>4. o.qty = w.left + SpentBy(o, w.hits)
      BY DEF SweptOver
    <3> HIDE DEF h, x, v, q
    <3> QED BY <1>1, <1>2, <2>2, <3>2, <3>3, <3>4
  <2>7. \A n \in DOMAIN v.hits : OneHit(v.hits, S \cup {i}, n)
    <3>1. \A n \in 1 .. k : OneHit(w.hits, S, n)
      BY <2>4 DEF SweptOver
    <3>3. h.qty + h.after = resting[i]
      BY <1>2, <1>3
    <3> SUFFICES ASSUME NEW n \in 1 .. k + 1 PROVE OneHit(v.hits, S \cup {i}, n)
      BY <2>4
    <3>4. CASE n = k + 1
      <4>1. v.hits[n] = h
        BY <2>4, <3>4
      <4>2. \A m \in 1 .. k + 1 : v.hits[m].maker = i => m = k + 1
        <5> SUFFICES ASSUME NEW m \in 1 .. k, v.hits[m].maker = i PROVE FALSE
          BY <2>4
        <5>1. w.hits[m].maker = i /\ w.hits[m].maker \in S
          BY <2>4, <2>5
        <5> QED BY <5>1
      <4> HIDE DEF h, v, k
      <4> QED BY <1>3, <2>4, <3>3, <3>4, <4>1, <4>2 DEF OneHit
    <3>5. CASE n # k + 1
      <4>1. n \in 1 .. k
        BY <2>4, <3>5
      <4>2. v.hits[n] = w.hits[n] /\ OneHit(w.hits, S, n)
        BY <2>4, <3>1, <4>1
      <4>3. \A m \in 1 .. k + 1 : v.hits[m].maker = w.hits[n].maker => m = n
        <5> SUFFICES ASSUME NEW m \in 1 .. k + 1, v.hits[m].maker = w.hits[n].maker PROVE m = n
          OBVIOUS
        <5>1. CASE m = k + 1
          <6>1. w.hits[n].maker = i
            BY <1>3, <2>4, <5>1
          <6> QED BY <4>2, <6>1 DEF OneHit
        <5>2. CASE m # k + 1
          <6>1. m \in 1 .. k
            BY <2>4, <5>2
          <6>2. w.hits[m].maker = w.hits[n].maker
            BY <2>4, <6>1
          <6> QED BY <2>4, <4>2, <6>1, <6>2 DEF OneHit
        <5> QED BY <5>1, <5>2
      <4> HIDE DEF h, v, k
      <4> QED BY <2>4, <4>2, <4>3 DEF OneHit
    <3> QED BY <3>4, <3>5
  <2>9. o.tif # "market" => ~v.stopped
    BY <1>6, <2>2
  <2>8. o.tif # "market" /\ v.left > 0 => \A j \in S \cup {i} : UsedUp(v.hits, j)
    <3> SUFFICES ASSUME o.tif # "market", v.left > 0, NEW j \in S \cup {i}
                 PROVE  UsedUp(v.hits, j)
      OBVIOUS
    <3>2. ~InQuote(o)
      BY DEF InQuote
    <3>3. q = resting[i] /\ h.after = 0
      <4>1. w.left - x > 0
        BY <2>2
      <4> HIDE DEF q, x, v
      <4> QED BY <1>1, <1>2, <1>3, <3>2, <4>1
    <3>4. CASE j = i
      <4> HIDE DEF h, v, k
      <4> QED BY <1>3, <2>4, <3>3, <3>4 DEF UsedUp
    <3>5. CASE j \in S
      <4>1. w.left > 0
        <5> HIDE DEF q, x, v
        <5> QED BY <1>1, <1>2, <2>2
      <4>2. PICK n \in DOMAIN w.hits : w.hits[n].maker = j /\ w.hits[n].after = 0
        BY <3>5, <4>1 DEF SweptOver, UsedUp
      <4>3. n \in 1 .. k /\ n \in 1 .. k + 1
        BY <2>4
      <4> HIDE DEF h, v, k
      <4> QED BY <2>4, <4>2, <4>3 DEF UsedUp
    <3> QED BY <3>4, <3>5
  <2> HIDE DEF v, h, x, q, k
  <2> QED BY <2>3, <2>6, <2>7, <2>8, <2>9 DEF SweptOver
<1> QED BY <1>4, <1>5, <1>6

\* What the match of an order is.
LEMMA MatchedOver ==
  ASSUME SpotTypes, NEW o \in SpotRow, \A i \in Takeable(o) : spotOrders[i].price > 0
  PROVE  SweptOver(o, Matched(o), Takeable(o))
<1> DEFINE T == Takeable(o)
           f == CHOOSE g : SweepsAll(g, o, SUBSET T)
           Fails(s) == ~SweptOver(o, f[s], s)
           B == {n \in Nat : \E s \in SUBSET T : Cardinality(s) = n /\ Fails(s)}
<1>f. SweepsAll(f, o, SUBSET T)
  BY SweepExists
<1>m. Matched(o) = f[T]
  BY MatchedSweeps
<1>t. IsFiniteSet(T)
  BY TakeableIds
<1>c. \A s \in SUBSET T : IsFiniteSet(s) /\ Cardinality(s) \in Nat
  BY <1>t, FS_Subset, FS_CardinalityType
<1>l. \A s \in SUBSET T : s # {} => LastOf(s) \in s
  BY LastIsIn
<1>p. \A i \in T : spotOrders[i].price > 0
  OBVIOUS
<1>e. SweptOver(o, Unmatched(o), {})
  <2>1. o.qty \in Nat
    BY DEF SpotRow
  <2>2. SpentBy(o, << >>) = 0
    BY SpentEmpty
  <2>3. DOMAIN << >> = {} /\ << >> \in Seq(SpotHit)
    OBVIOUS
  <2>4. Unmatched(o) \in [hits : Seq(SpotHit), left : Nat, stopped : BOOLEAN]
    BY <2>1, <2>3 DEF Unmatched
  <2> QED BY <2>1, <2>2, <2>3, <2>4 DEF SweptOver, Unmatched
<1>s. \A s \in SUBSET T : f[s] = IF s = {} THEN Unmatched(o) ELSE Sweep1(o, f[s \ {LastOf(s)}], LastOf(s))
  <2> HIDE DEF f, T
  <2> QED BY <1>f DEF SweepsAll
<1> HIDE DEF f
<1>1. B = {}
  <2> SUFFICES ASSUME B # {} PROVE FALSE
    OBVIOUS
  <2>1. PICK n \in B : \A k \in B : n <= k
    <3>1. B \in SUBSET Nat
      OBVIOUS
    <3> HIDE DEF B
    <3> QED BY <3>1, LeastNat
  <2>2. PICK s \in SUBSET T : Cardinality(s) = n /\ Fails(s)
    BY <2>1
  <2>3. s # {}
    BY <1>e, <1>s, <2>2
  <2> DEFINE i == LastOf(s)
             r == s \ {i}
  <2>4. i \in s /\ r \in SUBSET T /\ i \in T /\ i \notin r /\ r \cup {i} = s
    BY <1>l, <2>3
  <2>5. Cardinality(r) = n - 1
    BY <1>c, <2>2, <2>4, FS_RemoveElement
  <2>6. ~Fails(r)
    <3>1. n - 1 \in Nat
      BY <1>c, <2>4, <2>5
    <3>2. n - 1 \notin B
      BY <2>1, <3>1
    <3> QED BY <2>4, <2>5, <3>1, <3>2
  <2>7. f[s] = Sweep1(o, f[r], i)
    BY <1>s, <2>3
  <2>8. SweptOver(o, Sweep1(o, f[r], i), r \cup {i})
    <3>1. SweptOver(o, f[r], r) /\ spotOrders[i].price > 0
      BY <1>p, <2>4, <2>6
    <3> HIDE DEF r, i
    <3> QED BY <2>4, <3>1, SpotSweepStep
  <2> QED BY <2>2, <2>4, <2>7, <2>8
<1>2. ~Fails(T)
  <2>1. Cardinality(T) \in Nat /\ Cardinality(T) \notin B
    BY <1>c, <1>1
  <2> QED BY <2>1
<1> QED BY <1>m, <1>2

-----------------------------------------------------------------------------
(* Rows, and what a step does to them. *)

LEMMA RowFields ==
  ASSUME NEW o \in SpotRow
  PROVE  /\ o.user \in Traders /\ o.side \in {"buy", "sell"} /\ o.tif \in {"gtc", "ioc", "post", "market"}
         /\ o.price \in Nat /\ o.qty \in Nat /\ o.filled \in Nat /\ o.paid \in Nat
         /\ o.status \in SpotStatuses
BY DEF SpotRow, SpotSides

\* The price at which an order locks its room.
Rate(o) == IF o.side = "buy" /\ o.tif # "market" THEN o.price ELSE 1

LEMMA ResidualRoom ==
  ASSUME NEW o \in SpotRow
  PROVE  /\ Room(o) \in Int /\ Rate(o) \in Nat
         /\ Residual(o) = Rate(o) * Room(o) /\ Residual(o) \in Int
<1>1. /\ o.side \in {"buy", "sell"} /\ o.price \in Nat /\ o.qty \in Nat /\ o.filled \in Nat /\ o.paid \in Nat
  BY RowFields
<1>2. Room(o) \in Int /\ Rate(o) \in Nat
  BY <1>1 DEF Room, Rate
<1>3. CASE o.side = "sell"
  BY <1>1, <1>2, <1>3 DEF Residual, Room, Rate, InQuote
<1>4. CASE o.side = "buy" /\ o.tif = "market"
  BY <1>1, <1>2, <1>4 DEF Residual, Room, Rate, InQuote
<1>5. CASE o.side = "buy" /\ o.tif # "market"
  BY <1>1, <1>2, <1>5 DEF Residual, Room, Rate, InQuote
<1> QED BY <1>1, <1>2, <1>3, <1>4, <1>5

LEMMA TimesNat == ASSUME NEW a \in Nat, NEW b \in Nat PROVE a * b \in Nat
OBVIOUS

LEMMA ResidualNat ==
  ASSUME NEW o \in SpotRow, Room(o) >= 0
  PROVE  Residual(o) \in Nat /\ (Room(o) = 0 => Residual(o) = 0)
<1>1. Room(o) \in Nat /\ Rate(o) \in Nat /\ Residual(o) = Rate(o) * Room(o)
  BY ResidualRoom
<1> QED BY <1>1, TimesNat

LEMMA NewLock ==
  ASSUME NEW o \in SpotRow, NewRow(o)
  PROVE  LockOf(o) = Residual(o) /\ LockOf(o) \in Nat
<1>1. o.filled = 0 /\ o.paid = 0 /\ Room(o) >= 0 /\ o.qty \in Nat /\ o.price \in Nat /\ o.side \in {"buy", "sell"}
  BY RowFields DEF NewRow, RowSound
<1>2. LockOf(o) = Residual(o)
  BY <1>1 DEF LockOf, Residual
<1> QED BY <1>1, <1>2, ResidualNat

\* What is fixed when an order is placed.
SameOrder(o, r) ==
    r.user = o.user /\ r.side = o.side /\ r.tif = o.tif /\ r.price = o.price /\ r.qty = o.qty

LEMMA SameOrderFacts ==
  ASSUME NEW o, NEW r, SameOrder(o, r)
  PROVE  /\ InQuote(r) = InQuote(o) /\ LockToken(r) = LockToken(o) /\ Rate(r) = Rate(o)
         /\ Restable(r) = Restable(o) /\ RestsWith(r) = RestsWith(o)
         /\ \A p : Reaches(r, p) = Reaches(o, p)
         /\ \A h : SpentOf(r, h) = SpentOf(o, h)
BY DEF SameOrder, InQuote, LockToken, Rate, Restable, RestsWith, Reaches, SpentOf

LEMMA SameRoom ==
  ASSUME NEW o \in SpotRow, NEW r \in SpotRow, SameOrder(o, r), r.filled = o.filled, r.paid = o.paid
  PROVE  Room(r) = Room(o) /\ Residual(r) = Residual(o)
<1>1. Room(r) = Room(o)
  BY DEF SameOrder, Room, InQuote
<1> QED BY <1>1, ResidualRoom, SameOrderFacts

\* One row of a sequence is replaced.
LEMMA SeqUpdate ==
  ASSUME NEW S, NEW s \in Seq(S), NEW i \in 1 .. Len(s), NEW x \in S, NEW t, t = [s EXCEPT ![i] = x]
  PROVE  /\ t \in Seq(S) /\ Len(t) = Len(s) /\ t[i] = x
         /\ \A k \in 1 .. Len(s) : k # i => t[k] = s[k]
<1>1. DOMAIN s = 1 .. Len(s) /\ Len(s) \in Nat /\ \A k \in 1 .. Len(s) : s[k] \in S
  OBVIOUS
<1>2. t = [k \in 1 .. Len(s) |-> IF k = i THEN x ELSE s[k]]
  BY <1>1
<1>3. \A k \in 1 .. Len(s) : (IF k = i THEN x ELSE s[k]) \in S
  BY <1>1
<1>4. t \in Seq(S) /\ Len(t) = Len(s)
  BY <1>1, <1>2, <1>3
<1> QED BY <1>1, <1>2, <1>4

\* The status of row i becomes st, and nothing else of any row changes.
StatusBecomes(i, st) ==
    /\ Ids' = Ids /\ spotOrders' \in Seq(SpotRow)
    /\ SameOrder(spotOrders[i], spotOrders'[i]) /\ spotOrders'[i].status = st
    /\ spotOrders'[i].filled = spotOrders[i].filled /\ spotOrders'[i].paid = spotOrders[i].paid
    /\ \A k \in Ids : k # i => spotOrders'[k] = spotOrders[k]

LEMMA StatusStep ==
  ASSUME SpotTypes, NEW i \in Ids, NEW st \in SpotStatuses,
         spotOrders' = [spotOrders EXCEPT ![i].status = st]
  PROVE  StatusBecomes(i, st)
<1> DEFINE o == spotOrders[i]
           r == [o EXCEPT !.status = st]
<1>1. o \in SpotRow
  BY RowOf
<1>2. r \in SpotRow /\ SameOrder(o, r) /\ r.status = st /\ r.filled = o.filled /\ r.paid = o.paid
  BY <1>1 DEF SpotRow, SameOrder
<1>3. spotOrders' = [spotOrders EXCEPT ![i] = r]
  OBVIOUS
<1> HIDE DEF r
<1>4. /\ spotOrders' \in Seq(SpotRow) /\ Len(spotOrders') = Len(spotOrders) /\ spotOrders'[i] = r
      /\ \A k \in 1 .. Len(spotOrders) : k # i => spotOrders'[k] = spotOrders[k]
  <2>1. spotOrders \in Seq(SpotRow) /\ i \in 1 .. Len(spotOrders) /\ r \in SpotRow
    BY <1>2 DEF SpotTypes, Ids
  <2> QED BY <1>3, <2>1, SeqUpdate
<1> QED BY <1>2, <1>4 DEF StatusBecomes, Ids

\* Nothing of any row changes.
LEMMA RowsSame ==
  ASSUME spotOrders' = spotOrders
  PROVE  Ids' = Ids
BY DEF Ids

-----------------------------------------------------------------------------
(* The hits of the command in hand. *)

LEMMA UnpaidIs ==
  ASSUME NEW hits, NEW i
  PROVE  /\ (\A n \in DOMAIN hits : hits[n].maker # i) => UnpaidIn(hits, i) = 0
         /\ \A n \in DOMAIN hits :
              hits[n].maker = i /\ (\A m \in DOMAIN hits : hits[m].maker = i => m = n)
                 => UnpaidIn(hits, i) = hits[n].qty
<1>1. ASSUME \A n \in DOMAIN hits : hits[n].maker # i PROVE UnpaidIn(hits, i) = 0
  BY <1>1 DEF UnpaidIn, HitsOn
<1>2. ASSUME NEW n \in DOMAIN hits, hits[n].maker = i, \A m \in DOMAIN hits : hits[m].maker = i => m = n
      PROVE  UnpaidIn(hits, i) = hits[n].qty
  <2>1. HitsOn(hits, i) = {n}
    BY <1>2 DEF HitsOn
  <2>2. (CHOOSE m \in {n} : TRUE) = n
    OBVIOUS
  <2> QED BY <2>1, <2>2 DEF UnpaidIn
<1> QED BY <1>1, <1>2

LEMMA HitAt ==
  ASSUME NEW hits \in Seq(SpotHit), NEW n \in DOMAIN hits
  PROVE  /\ hits[n] \in SpotHit /\ hits[n].maker \in Nat /\ hits[n].qty \in Nat /\ hits[n].after \in Nat
         /\ n \in 1 .. Len(hits) /\ Len(hits) \in Nat
<1>1. hits[n] \in SpotHit
  OBVIOUS
<1> QED BY <1>1 DEF SpotHit

LEMMA UnpaidNat ==
  ASSUME NEW hits \in Seq(SpotHit), NEW i
  PROVE  UnpaidIn(hits, i) \in Nat
<1>1. CASE HitsOn(hits, i) = {}
  BY <1>1 DEF UnpaidIn
<1>2. CASE HitsOn(hits, i) # {}
  <2>1. (CHOOSE n \in HitsOn(hits, i) : TRUE) \in DOMAIN hits
    BY <1>2 DEF HitsOn
  <2> QED BY <1>2, <2>1, HitAt DEF UnpaidIn
<1> QED BY <1>1, <1>2

\* The first hit of a sequence and the others.
LEMMA HeadTail ==
  ASSUME NEW hits \in Seq(SpotHit), hits # << >>
  PROVE  /\ 1 \in DOMAIN hits /\ Head(hits) = hits[1] /\ Head(hits) \in SpotHit
         /\ Tail(hits) \in Seq(SpotHit)
         /\ \A n \in DOMAIN Tail(hits) : n + 1 \in DOMAIN hits /\ Tail(hits)[n] = hits[n + 1] /\ n + 1 # 1
         /\ \A n \in DOMAIN hits : n # 1 => n - 1 \in DOMAIN Tail(hits) /\ Tail(hits)[n - 1] = hits[n]
         /\ \A n \in DOMAIN hits : n \in Nat
         /\ \A n \in DOMAIN Tail(hits) : n \in Nat
<1>1. /\ Len(hits) \in Nat \ {0} /\ DOMAIN hits = 1 .. Len(hits)
      /\ Tail(hits) \in Seq(SpotHit) /\ DOMAIN Tail(hits) = 1 .. (Len(hits) - 1)
      /\ \A n \in 1 .. (Len(hits) - 1) : Tail(hits)[n] = hits[n + 1]
      /\ Head(hits) = hits[1] /\ \A n \in 1 .. Len(hits) : hits[n] \in SpotHit
  OBVIOUS
<1>2. \A n \in 1 .. (Len(hits) - 1) : n \in Nat /\ n + 1 \in 1 .. Len(hits) /\ n + 1 # 1
  BY <1>1
<1>3. \A n \in 1 .. Len(hits) : n # 1 => n - 1 \in 1 .. (Len(hits) - 1) /\ (n - 1) + 1 = n
  BY <1>1
<1>4. 1 \in 1 .. Len(hits) /\ \A n \in 1 .. Len(hits) : n \in Nat
  BY <1>1
<1> QED BY <1>1, <1>2, <1>3, <1>4

LEMMA TailIs ==
  ASSUME NEW S, NEW s \in Seq(S), s # << >>
  PROVE  Tail(s) = [n \in 1 .. (Len(s) - 1) |-> s[n + 1]]
<1> DEFINE t == Tail(s)
<1>1. t \in Seq(S) /\ Len(t) = Len(s) - 1 /\ \A n \in 1 .. (Len(s) - 1) : t[n] = s[n + 1]
  OBVIOUS
<1> HIDE DEF t
<1>2. t = [n \in 1 .. (Len(s) - 1) |-> t[n]]
  BY <1>1
<1>3. [n \in 1 .. (Len(s) - 1) |-> t[n]] = [n \in 1 .. (Len(s) - 1) |-> s[n + 1]]
  BY <1>1
<1> QED BY <1>2, <1>3 DEF t

LEMMA SpentTail ==
  ASSUME SpotTypes, NEW o, NEW hits \in Seq(SpotHit), hits # << >>,
         \A n \in DOMAIN hits : hits[n].maker \in Ids
  PROVE  /\ SpentBy(o, hits) = SpentOf(o, Head(hits)) + SpentBy(o, Tail(hits))
         /\ SpentOf(o, Head(hits)) \in Nat /\ SpentBy(o, Tail(hits)) \in Nat
<1> DEFINE s == Spents(o, hits)
<1>1. /\ Len(hits) \in Nat \ {0} /\ DOMAIN hits = 1 .. Len(hits) /\ \A n \in DOMAIN hits : hits[n] \in SpotHit
      /\ DOMAIN Tail(hits) = 1 .. (Len(hits) - 1)
      /\ \A n \in 1 .. (Len(hits) - 1) : Tail(hits)[n] = hits[n + 1]
      /\ Head(hits) = hits[1]
  OBVIOUS
<1>2. \A n \in DOMAIN hits : SpentOf(o, hits[n]) \in Nat
  BY <1>1, SpentNat
<1>3. s = [n \in 1 .. Len(hits) |-> SpentOf(o, hits[n])]
  BY <1>1 DEF Spents
<1>4. s \in Seq(Int) /\ Len(s) = Len(hits) /\ s # << >> /\ \A n \in 1 .. Len(hits) : s[n] = SpentOf(o, hits[n])
  BY <1>1, <1>2, <1>3
<1> HIDE DEF s
<1>5. Head(s) = SpentOf(o, Head(hits))
  BY <1>1, <1>4
<1>6. Tail(s) = Spents(o, Tail(hits))
  <2>1. Tail(s) = [n \in 1 .. (Len(hits) - 1) |-> s[n + 1]]
    BY <1>4, TailIs
  <2>2. \A n \in 1 .. (Len(hits) - 1) : s[n + 1] = SpentOf(o, Tail(hits)[n])
    BY <1>1, <1>4
  <2> QED BY <1>1, <2>1, <2>2 DEF Spents
<1>7. SumOfSeq(s) = Head(s) + SumOfSeq(Tail(s))
  BY <1>4, SumOfTail
<1>8. SumOfSeq(Tail(s)) \in Nat
  <2>1. DOMAIN Tail(s) = 1 .. (Len(hits) - 1) /\ IsFiniteSet(1 .. (Len(hits) - 1))
    BY <1>1, <1>4, FS_Interval
  <2>2. \A n \in 1 .. (Len(hits) - 1) : Tail(s)[n] \in Nat
    BY <1>1, <1>2, <1>4
  <2> QED BY <2>1, <2>2, SumNat DEF SumOfSeq
<1>9. SpentOf(o, Head(hits)) \in Nat
  BY <1>1, <1>2
<1> QED BY <1>5, <1>6, <1>7, <1>8, <1>9 DEF SpentBy, s

-----------------------------------------------------------------------------
(* Balances and claims. *)

\* The frozen balances after an amount of token t of u is taken out.
FrozenLess(u, t, amount) ==
    \A v \in Traders, s \in Tokens :
        frozen'[v][s] = IF v = u /\ s = t THEN frozen[v][s] - amount ELSE frozen[v][s]

LEMMA UnfreezeStep ==
  ASSUME SpotTypes, NEW u \in Traders, NEW t \in Tokens, NEW amount \in Int,
         avail[u][t] + amount >= 0, Unfreeze(u, t, amount)
  PROVE  /\ avail' \in [Traders -> [Tokens -> Nat]] /\ frozen' \in [Traders -> [Tokens -> Int]]
         /\ FrozenLess(u, t, amount)
<1>1. avail \in [Traders -> [Tokens -> Nat]] /\ frozen \in [Traders -> [Tokens -> Int]]
  BY DEF SpotTypes
<1>2. avail' = [avail EXCEPT ![u][t] = @ + amount] /\ frozen' = [frozen EXCEPT ![u][t] = @ - amount]
  BY DEF Unfreeze
<1>3. avail[u][t] + amount \in Nat /\ frozen[u][t] - amount \in Int
  BY <1>1
<1>4. avail' = [avail EXCEPT ![u] = [avail[u] EXCEPT ![t] = avail[u][t] + amount]]
  BY <1>1, <1>2
<1>5. [avail[u] EXCEPT ![t] = avail[u][t] + amount] \in [Tokens -> Nat]
  BY <1>1, <1>3
<1>6. avail' \in [Traders -> [Tokens -> Nat]]
  BY <1>1, <1>4, <1>5
<1>7. frozen' = [frozen EXCEPT ![u] = [frozen[u] EXCEPT ![t] = frozen[u][t] - amount]]
  BY <1>1, <1>2
<1>8. [frozen[u] EXCEPT ![t] = frozen[u][t] - amount] \in [Tokens -> Int]
  BY <1>1, <1>3
<1>9. frozen' \in [Traders -> [Tokens -> Int]]
  BY <1>1, <1>7, <1>8
<1>10. FrozenLess(u, t, amount)
  BY <1>1, <1>7 DEF FrozenLess
<1> QED BY <1>6, <1>9, <1>10

LEMMA LockTokens ==
  ASSUME NEW o
  PROVE  LockToken(o) \in Tokens
BY DEF LockToken, Tokens

LEMMA ClaimNat ==
  ASSUME SpotTypes, RowsSound, NEW i \in Ids, NEW u, NEW t
  PROVE  Claim(i, u, t) \in Nat
<1>1. spotOrders[i] \in SpotRow /\ Room(spotOrders[i]) >= 0
  BY RowOf DEF RowsSound, RowSound
<1>2. Residual(spotOrders[i]) \in Nat
  BY <1>1, ResidualNat
<1> QED BY <1>2 DEF Claim

LEMMA ClaimNatNext ==
  ASSUME SpotTypes', RowsSound', NEW i \in Ids', NEW u, NEW t
  PROVE  Claim(i, u, t)' \in Nat
<1>1. spotOrders'[i] \in SpotRow
  BY DEF SpotTypes, Ids
<1>2. Room(spotOrders'[i]) >= 0
  BY DEF RowsSound, RowSound, Room, InQuote
<1>3. Residual(spotOrders'[i]) \in Nat
  BY <1>1, <1>2, ResidualNat
<1> QED BY <1>3 DEF Claim, Residual

LEMMA IdsFinite ==
  ASSUME SpotTypes
  PROVE  IsFiniteSet(Ids) /\ Len(spotOrders) \in Nat /\ Ids = 1 .. Len(spotOrders)
<1>1. Len(spotOrders) \in Nat
  BY DEF SpotTypes
<1> QED BY <1>1, FS_Interval DEF Ids

\* The claim of one order changes.
LEMMA ClaimsStep ==
  ASSUME SpotTypes, RowsSound, SpotTypes', RowsSound', Ids' = Ids, NEW a \in Ids, NEW u, NEW t,
         \A i \in Ids : i # a => Claim(i, u, t)' = Claim(i, u, t)
  PROVE  /\ Claims(u, t)' = Claims(u, t) + Claim(a, u, t)' - Claim(a, u, t)
         /\ Claims(u, t)' \in Int /\ Claims(u, t) \in Int
         /\ Claim(a, u, t)' \in Nat /\ Claim(a, u, t) \in Nat
<1> DEFINE g == [i \in Ids |-> Claim(i, u, t)]
           h == [i \in Ids |-> Claim(i, u, t)']
<1>1. \A i \in Ids : g[i] \in Int /\ g[i] = Claim(i, u, t)
  BY ClaimNat
<1>2. \A i \in Ids : h[i] \in Int /\ h[i] = Claim(i, u, t)'
  BY ClaimNatNext
<1>3. \A i \in Ids \ {a} : h[i] = g[i]
  OBVIOUS
<1>4. IsFiniteSet(Ids)
  BY IdsFinite
<1>5. Claims(u, t) = SumFunctionOnSet(g, Ids)
  BY DEF Claims
<1>6. Claims(u, t)' = SumFunctionOnSet(h, Ids)
  BY DEF Claims
<1>7. Claim(a, u, t)' \in Nat /\ Claim(a, u, t) \in Nat
  BY ClaimNat, ClaimNatNext
<1> HIDE DEF g, h
<1>8. /\ SumFunctionOnSet(h, Ids) = SumFunctionOnSet(g, Ids) + h[a] - g[a]
      /\ SumFunctionOnSet(g, Ids) \in Int /\ SumFunctionOnSet(h, Ids) \in Int
  BY <1>1, <1>2, <1>3, <1>4, SumChange
<1> QED BY <1>1, <1>2, <1>5, <1>6, <1>7, <1>8

LEMMA ClaimsInt ==
  ASSUME SpotTypes, RowsSound, NEW u, NEW t
  PROVE  Claims(u, t) \in Nat
<1> DEFINE g == [i \in Ids |-> Claim(i, u, t)]
<1>1. \A i \in Ids : g[i] \in Nat
  BY ClaimNat
<1>2. Claims(u, t) = SumFunctionOnSet(g, Ids)
  BY DEF Claims
<1> HIDE DEF g
<1> QED BY <1>1, <1>2, IdsFinite, SumNat

LEMMA ClaimsSame ==
  ASSUME Ids' = Ids, NEW u, NEW t,
         \A i \in Ids : Claim(i, u, t)' = Claim(i, u, t)
  PROVE  Claims(u, t)' = Claims(u, t)
<1>1. [i \in Ids |-> Claim(i, u, t)'] = [i \in Ids |-> Claim(i, u, t)]
  OBVIOUS
<1> QED BY <1>1 DEF Claims

\* An order is added.
LEMMA ClaimsGrow ==
  ASSUME SpotTypes, RowsSound, SpotTypes', RowsSound', NEW a, a \notin Ids, Ids' = Ids \cup {a}, NEW u, NEW t,
         \A i \in Ids : Claim(i, u, t)' = Claim(i, u, t)
  PROVE  /\ Claims(u, t)' = Claims(u, t) + Claim(a, u, t)'
         /\ Claims(u, t)' \in Int /\ Claims(u, t) \in Nat /\ Claim(a, u, t)' \in Nat
<1> DEFINE g == [i \in Ids |-> Claim(i, u, t)]
           h == [i \in Ids' |-> Claim(i, u, t)']
<1>1. \A i \in Ids \cup {a} : h[i] \in Int /\ h[i] = Claim(i, u, t)'
  BY ClaimNatNext
<1>2. \A i \in Ids : g[i] = h[i]
  OBVIOUS
<1>3. Claims(u, t) = SumFunctionOnSet(g, Ids) /\ Claims(u, t) \in Nat
  BY ClaimsInt DEF Claims
<1>4. Claims(u, t)' = SumFunctionOnSet(h, Ids \cup {a})
  BY DEF Claims
<1>5. Claim(a, u, t)' \in Nat
  BY ClaimNatNext
<1> HIDE DEF g, h
<1>7. IsFiniteSet(Ids)
  BY IdsFinite
<1>8. (\A i \in Ids \cup {a} : h[i] \in Int) /\ (\A i \in Ids : g[i] = h[i])
  BY <1>1, <1>2
<1>6. SumFunctionOnSet(h, Ids \cup {a}) = SumFunctionOnSet(g, Ids) + h[a]
  BY <1>7, <1>8, SumGrow
<1> QED BY <1>1, <1>3, <1>4, <1>5, <1>6

\* What the live orders need is claimed.
LEMMA LockedClaimed ==
  ASSUME SpotTypes, RowsSound, NEW u, NEW t
  PROVE  /\ Locked(u, t) <= Claims(u, t) /\ Locked(u, t) \in Int /\ Claims(u, t) \in Int
         /\ job = Idle => Locked(u, t) = Claims(u, t)
<1> DEFINE g == [i \in Ids |-> Need(i, u, t)]
           h == [i \in Ids |-> Claim(i, u, t)]
<1>1. \A i \in Ids : h[i] = Claim(i, u, t) /\ h[i] \in Nat /\ g[i] = Need(i, u, t)
  BY ClaimNat
<1>2. \A i \in Ids : g[i] = h[i] \/ g[i] = 0
  BY DEF Need, Claim, Counted
<1>3. job = Idle => \A i \in Ids : g[i] = h[i]
  BY DEF Need, Claim, Counted, InHand, Idle
<1>4. Locked(u, t) = SumFunctionOnSet(g, Ids) /\ Claims(u, t) = SumFunctionOnSet(h, Ids)
  BY DEF Locked, Claims
<1>5. IsFiniteSet(Ids)
  BY IdsFinite
<1> HIDE DEF g, h
<1>6. \A i \in Ids : g[i] \in Int /\ h[i] \in Int /\ g[i] <= h[i]
  BY <1>1, <1>2
<1>7. SumFunctionOnSet(g, Ids) <= SumFunctionOnSet(h, Ids)
  BY <1>5, <1>6, SumMonotone
<1>8. SumFunctionOnSet(g, Ids) \in Int /\ SumFunctionOnSet(h, Ids) \in Int
  BY <1>5, <1>6, SumInt
<1>9. ASSUME job = Idle PROVE SumFunctionOnSet(g, Ids) = SumFunctionOnSet(h, Ids)
  BY <1>3, <1>5, <1>6, <1>9, SumSame
<1> QED BY <1>4, <1>7, <1>8, <1>9

-----------------------------------------------------------------------------
(* The properties follow from the invariant. *)

LEMMA InvImplies ==
  ASSUME SpotAssumption, SpotInv
  PROVE  BookAndRowsAgree /\ LocksCovered
<1> USE DEF SpotInv
<1>1. SpotTypeOK
  <2>1. \A i \in Ids : /\ spotOrders[i].status \in Live \cup {"filled", "canceled"}
                       /\ spotOrders[i].filled \in Nat /\ Residual(spotOrders[i]) >= 0
    <3> TAKE i \in Ids
    <3>1. spotOrders[i] \in SpotRow /\ Room(spotOrders[i]) >= 0
      BY RowOf DEF RowsSound, RowSound
    <3>2. Residual(spotOrders[i]) \in Nat
      BY <3>1, ResidualNat
    <3> QED BY <3>1, <3>2, RowFields DEF Live, SpotStatuses
  <2>2. job.pc \in {"idle", "insert", "commit", "status"}
    BY DEF SpotTypes, JobTypes, Idle
  <2>3. /\ DOMAIN resting \subseteq Ids /\ (up \/ job = Idle) /\ faults \in 0 .. MaxSpotFaults
        /\ \A u \in Traders, t \in Tokens : avail[u][t] \in Nat /\ frozen[u][t] \in Int
    BY DEF SpotTypes
  <2> QED BY <2>1, <2>2, <2>3 DEF SpotTypeOK
<1>2. BookIsTheRows
  <2>1. \A i \in DOMAIN resting :
          /\ IsLive(i) /\ ~InQuote(spotOrders[i]) /\ resting[i] <= Room(spotOrders[i]) /\ i \in Ids
          /\ job = Idle /\ cut = {} => resting[i] = Room(spotOrders[i])
    <3> SUFFICES ASSUME NEW i \in DOMAIN resting
                 PROVE  /\ IsLive(i) /\ ~InQuote(spotOrders[i]) /\ resting[i] <= Room(spotOrders[i]) /\ i \in Ids
                        /\ job = Idle /\ cut = {} => resting[i] = Room(spotOrders[i])
      OBVIOUS
    <3>1. /\ IsLive(i) /\ Restable(spotOrders[i]) /\ resting[i] + Unpaid(i) <= Room(spotOrders[i])
          /\ i \notin cut \cap lostFills => resting[i] + Unpaid(i) = Room(spotOrders[i])
      BY DEF BookWithin
    <3>2. i \in Ids /\ resting[i] \in Nat
      BY DEF SpotTypes
    <3>3. Unpaid(i) \in Nat /\ (job = Idle => Unpaid(i) = 0)
      BY UnpaidNat DEF SpotTypes, JobTypes, Unpaid, Idle
    <3>4. Room(spotOrders[i]) \in Int
      BY <3>2, RowOf, ResidualRoom
    <3>5. ~InQuote(spotOrders[i])
      BY <3>1 DEF Restable, InQuote
    <3> QED BY <3>1, <3>2, <3>3, <3>4, <3>5
  <2>2. \A i \in DOMAIN resting : Room(spotOrders[i]) = spotOrders[i].qty - spotOrders[i].filled
    BY <2>1 DEF Room
  <2>3. up /\ job = Idle /\ cut = {} => DOMAIN resting = {i \in Ids : IsLive(i)}
    <3> SUFFICES ASSUME up, job = Idle, cut = {} PROVE DOMAIN resting = {i \in Ids : IsLive(i)}
      OBVIOUS
    <3>1. InHand = {}
      BY DEF InHand, Idle
    <3>2. \A i \in Ids : IsLive(i) => i \in DOMAIN resting
      BY <3>1 DEF LiveInBook
    <3> QED BY <2>1, <3>2
  <2> QED BY <2>1, <2>2, <2>3 DEF BookIsTheRows
<1>3. SpotUncrossed
  <2> SUFFICES ASSUME job = Idle, lostFills = {},
                      NEW i \in {k \in DOMAIN resting : RestsWith(spotOrders[k])},
                      NEW j \in {k \in DOMAIN resting : RestsWith(spotOrders[k])},
                      spotOrders[i].side = "buy", spotOrders[j].side = "sell"
               PROVE  spotOrders[i].price < spotOrders[j].price
    BY DEF SpotUncrossed
  <2>1. \A k \in DOMAIN resting : k \in Ids /\ IsLive(k)
    BY DEF SpotTypes, BookWithin
  <2>2. InHand = {}
    BY DEF InHand, Idle
  <2> QED BY <2>1, <2>2 DEF RowsUncrossed
<1>4. FilledMeansFilled
  <2> SUFFICES ASSUME job = Idle, NEW i \in Ids \ lostFills, spotOrders[i].status = "filled"
               PROVE  Residual(spotOrders[i]) = 0
    BY DEF FilledMeansFilled
  <2>1. InHand = {}
    BY DEF InHand, Idle
  <2>2. Room(spotOrders[i]) = 0
    BY <2>1 DEF FilledSound
  <2> QED BY <2>2, RowOf, ResidualNat
<1>5. LocksCovered
  <2> SUFFICES ASSUME NEW u \in Traders, \A i \in halfRefunded : spotOrders[i].user # u
               PROVE  /\ \A t \in Tokens : Locked(u, t) <= frozen[u][t]
                      /\ job = Idle /\ lostFills = {} /\ u \notin strayLock =>
                            frozen[u].base = Locked(u, "base")
    BY DEF LocksCovered
  <2>1. /\ \A t \in Tokens : Claims(u, t) + Reserved(u, t) <= frozen[u][t]
        /\ lostFills = {} /\ u \notin strayLock => frozen[u]["base"] = Claims(u, "base") + Reserved(u, "base")
    BY DEF MoneySound, NotHalf
  <2>2. \A t : Reserved(u, t) \in Nat /\ (job = Idle => Reserved(u, t) = 0)
    <3> TAKE t
    <3>1. job.pc = "insert" => LockOf(job.order) \in Nat
      <4> HAVE job.pc = "insert"
      <4>1. job.order \in SpotRow /\ NewRow(job.order)
        BY DEF SpotTypes, JobTypes, Idle, JobSound
      <4> QED BY <4>1, NewLock
    <3> QED BY <3>1 DEF Reserved, Idle
  <2>3. \A t : /\ Locked(u, t) <= Claims(u, t) /\ Locked(u, t) \in Int /\ Claims(u, t) \in Int
               /\ job = Idle => Locked(u, t) = Claims(u, t)
    BY LockedClaimed
  <2>4. \A t \in Tokens : frozen[u][t] \in Int
    BY DEF SpotTypes
  <2>5. "base" \in Tokens /\ frozen[u].base = frozen[u]["base"]
    BY DEF Tokens
  <2>6. \A t \in Tokens : Locked(u, t) <= frozen[u][t]
    BY <2>1, <2>2, <2>3, <2>4
  <2>7. job = Idle /\ lostFills = {} /\ u \notin strayLock => frozen[u].base = Locked(u, "base")
    BY <2>1, <2>2, <2>3, <2>4, <2>5
  <2> QED BY <2>6, <2>7
<1> QED BY <1>1, <1>2, <1>3, <1>4, <1>5 DEF BookAndRowsAgree

-----------------------------------------------------------------------------
(* A step that leaves the rows and the book alone. *)

LEMMA RowsKept ==
  ASSUME SpotInv, spotOrders' = spotOrders, resting' = resting, cut' = cut, lostFills' = lostFills,
         up' = up, InHand' = InHand, \A i \in DOMAIN resting : Unpaid(i)' = Unpaid(i)
  PROVE  RowsSound' /\ BookWithin' /\ LiveInBook' /\ RowsUncrossed' /\ FilledSound'
<1>1. Ids' = Ids
  BY RowsSame
<1>2. RowsSound'
  BY <1>1 DEF SpotInv, RowsSound, RowSound, Room, InQuote
<1>3. BookWithin'
  <2> SUFFICES ASSUME NEW i \in DOMAIN resting
               PROVE  /\ i \notin InHand /\ IsLive(i) /\ Restable(spotOrders[i])
                      /\ resting[i] + Unpaid(i) <= Room(spotOrders[i])
                      /\ i \notin cut \cap lostFills => resting[i] + Unpaid(i) = Room(spotOrders[i])
    BY DEF BookWithin, IsLive, Restable, Room, InQuote
  <2> QED BY DEF SpotInv, BookWithin
<1>4. LiveInBook'
  BY <1>1 DEF SpotInv, LiveInBook, IsLive, RestsWith
<1>5. RowsUncrossed'
  BY <1>1 DEF SpotInv, RowsUncrossed, IsLive, RestsWith
<1>6. FilledSound'
  BY <1>1 DEF SpotInv, FilledSound, Room, InQuote
<1> QED BY <1>2, <1>3, <1>4, <1>5, <1>6

LEMMA IdleFacts ==
  ASSUME job = Idle
  PROVE  /\ InHand = {} /\ Closing = {} /\ \A i : Unpaid(i) = 0
         /\ \A u, t : Reserved(u, t) = 0
BY DEF Idle, InHand, Closing, Unpaid, Reserved

LEMMA NewOrderSound ==
  ASSUME SpotAssumption, NEW o \in LimitOrders \cup MarketOrders
  PROVE  o \in SpotRow /\ NewRow(o)
<1>1. CASE o \in LimitOrders
  <2>1. PICK u \in Traders, s \in {"buy", "sell"}, f \in SpotTifs \ {"market"}, p \in SpotPrices, q \in SpotSizes :
           o = NewOrder(u, s, f, p, q)
    BY <1>1 DEF LimitOrders
  <2>2. f \in {"gtc", "ioc", "post"} /\ p \in Nat \ {0} /\ q \in Nat \ {0}
    BY DEF SpotAssumption
  <2>3. o \in SpotRow
    BY <2>1, <2>2 DEF NewOrder, SpotRow, SpotSides, SpotStatuses
  <2>4. NewRow(o)
    BY <2>1, <2>2 DEF NewOrder, NewRow, RowSound, Room, InQuote
  <2> QED BY <2>3, <2>4
<1>2. CASE o \in MarketOrders
  <2>1. \E u \in Traders, s \in {"buy", "sell"}, q \in Nat \ {0} : o = NewOrder(u, s, "market", 0, q)
    BY <1>2 DEF MarketOrders, SpotAssumption
  <2>2. PICK u \in Traders, s \in {"buy", "sell"}, q \in Nat \ {0} : o = NewOrder(u, s, "market", 0, q)
    BY <2>1
  <2>3. o \in SpotRow
    BY <2>2 DEF NewOrder, SpotRow, SpotSides, SpotStatuses
  <2>4. NewRow(o)
    BY <2>2 DEF NewOrder, NewRow, RowSound, Room, InQuote
  <2> QED BY <2>3, <2>4
<1> QED BY <1>1, <1>2

-----------------------------------------------------------------------------
(* The steps. *)

LEMMA PlaceInv ==
  ASSUME SpotAssumption, SpotInv, NEW o \in LimitOrders \cup MarketOrders, Place(o)
  PROVE  SpotInv'
<1> DEFINE k == LockToken(o)
           x == LockOf(o)
<1>1. o \in SpotRow /\ NewRow(o) /\ k \in Tokens /\ o.user \in Traders /\ x \in Nat
  BY NewOrderSound, LockTokens, NewLock, RowFields
<1>2. /\ up /\ job = Idle /\ avail[o.user][k] >= x /\ Unfreeze(o.user, k, -x)
      /\ job' = [pc |-> "insert", order |-> o]
      /\ UNCHANGED <<spotOrders, resting, up, faults, wallets, histories>>
  BY DEF Place
<1>3. SpotTypes
  BY DEF SpotInv
<1> HIDE DEF x, k
<1>4. /\ avail' \in [Traders -> [Tokens -> Nat]] /\ frozen' \in [Traders -> [Tokens -> Int]]
      /\ FrozenLess(o.user, k, -x)
  <2>1. avail[o.user][k] \in Nat
    BY <1>1, <1>3 DEF SpotTypes
  <2>2. -x \in Int /\ avail[o.user][k] + (-x) >= 0
    BY <1>1, <1>2, <2>1
  <2> QED BY <1>1, <1>2, <1>3, <2>2, UnfreezeStep
<1>5. UNCHANGED <<cut, lostFills, halfRefunded, strayLock>>
  BY <1>2 DEF histories
<1>6. Ids' = Ids
  BY <1>2, RowsSame
<1>7. SpotTypes'
  <2>1. JobTypes'
    BY <1>1, <1>2 DEF JobTypes
  <2> QED BY <1>2, <1>3, <1>4, <1>5, <1>6, <2>1 DEF SpotTypes
<1>8. InHand' = InHand /\ (\A i : Unpaid(i)' = Unpaid(i)) /\ Closing' = Closing
  BY <1>2, IdleFacts DEF InHand, Unpaid, Closing
<1>9. RowsSound' /\ BookWithin' /\ LiveInBook' /\ RowsUncrossed' /\ FilledSound'
  BY <1>2, <1>5, <1>8, RowsKept
<1>10. JobSound'
  BY <1>1, <1>2 DEF JobSound, NewRow, RowSound, Room, InQuote
<1>11. MoneySound'
  <2> SUFFICES ASSUME NEW u \in Traders, NotHalf(u)'
               PROVE  /\ \A t \in Tokens : (Claims(u, t) + Reserved(u, t) <= frozen[u][t])'
                      /\ lostFills' = {} /\ u \notin strayLock' =>
                            frozen'[u]["base"] = Claims(u, "base")' + Reserved(u, "base")'
    BY DEF MoneySound
  <2>1. NotHalf(u)
    BY <1>2, <1>5 DEF NotHalf
  <2>2. \A t \in Tokens : Claims(u, t)' = Claims(u, t) /\ Claims(u, t) \in Nat
    <3> TAKE t \in Tokens
    <3>1. \A i \in Ids : Claim(i, u, t)' = Claim(i, u, t)
      BY <1>2, <1>8 DEF Claim, Counted, IsLive, LockToken, Residual
    <3> QED BY <1>3, <1>6, <3>1, ClaimsSame, ClaimsInt DEF SpotInv
  <2>3. \A t \in Tokens : Reserved(u, t) = 0 /\ Reserved(u, t)' = IF u = o.user /\ t = k THEN x ELSE 0
    BY <1>2, IdleFacts DEF Reserved, LockToken, LockOf, x, k
  <2>4. \A t \in Tokens : frozen'[u][t] = (IF u = o.user /\ t = k THEN frozen[u][t] - (-x) ELSE frozen[u][t])
    BY <1>4 DEF FrozenLess
  <2>5. \A t \in Tokens : frozen[u][t] \in Int /\ frozen'[u][t] = frozen[u][t] + Reserved(u, t)'
    <3> SUFFICES ASSUME NEW t \in Tokens PROVE frozen[u][t] \in Int /\ frozen'[u][t] = frozen[u][t] + Reserved(u, t)'
      OBVIOUS
    <3>1. frozen[u][t] \in Int
      BY <1>3 DEF SpotTypes
    <3>2. CASE u = o.user /\ t = k
      BY <1>1, <2>3, <2>4, <3>1, <3>2
    <3>3. CASE ~(u = o.user /\ t = k)
      BY <2>3, <2>4, <3>1, <3>3
    <3> QED BY <3>2, <3>3
  <2>6. /\ \A t \in Tokens : Claims(u, t) + Reserved(u, t) <= frozen[u][t]
        /\ lostFills = {} /\ u \notin strayLock => frozen[u]["base"] = Claims(u, "base") + Reserved(u, "base")
    BY <2>1 DEF SpotInv, MoneySound
  <2>7. \A t \in Tokens : Reserved(u, t)' \in Nat
    BY <1>1, <2>3
  <2>8. "base" \in Tokens
    BY DEF Tokens
  <2>9. \A t \in Tokens : Claims(u, t)' + Reserved(u, t)' <= frozen'[u][t]
    BY <2>2, <2>3, <2>5, <2>6, <2>7
  <2>10. lostFills = {} /\ u \notin strayLock => frozen'[u]["base"] = Claims(u, "base")' + Reserved(u, "base")'
    BY <2>2, <2>3, <2>5, <2>6, <2>7, <2>8
  <2> QED BY <1>5, <2>9, <2>10
<1> QED BY <1>7, <1>9, <1>10, <1>11 DEF SpotInv

\* The command in hand in its second half.
LEMMA CommitState ==
  ASSUME SpotInv, job.pc = "commit"
  PROVE  /\ job \in [pc : {"commit"}, id : Ids, hits : Seq(SpotHit), left : Nat]
         /\ up /\ job.id \in Ids /\ job.hits \in Seq(SpotHit) /\ job.left \in Nat /\ job.id \notin DOMAIN resting
         /\ InHand = {job.id} /\ Closing = {} /\ (\A i : Unpaid(i) = UnpaidIn(job.hits, i))
         /\ \A u, t : Reserved(u, t) = 0
         /\ spotOrders[job.id] \in SpotRow /\ job.id \notin cut /\ job.id \notin lostFills
         /\ Room(spotOrders[job.id]) = job.left + SpentBy(spotOrders[job.id], job.hits)
         /\ HitsSound(spotOrders[job.id], job.hits)
         /\ SweptAll(spotOrders[job.id], job.hits, job.left)
         /\ spotOrders[job.id].status # "canceled"
         /\ spotOrders[job.id].status = "filled" => job.left = 0
<1>1. SpotTypes
  BY DEF SpotInv
<1>2. job # Idle /\ job.pc # "insert" /\ job.pc # "status"
  BY DEF Idle
<1>3. job \in [pc : {"commit"}, id : Ids, hits : Seq(SpotHit), left : Nat]
  BY <1>1, <1>2 DEF SpotTypes, JobTypes
<1>4. InHand = {job.id} /\ Closing = {} /\ (\A i : Unpaid(i) = UnpaidIn(job.hits, i)) /\ \A u, t : Reserved(u, t) = 0
  BY DEF InHand, Closing, Unpaid, Reserved
<1>5. up
  BY <1>1, <1>2 DEF SpotTypes
<1>6. job.id \notin DOMAIN resting
  BY <1>4 DEF SpotInv, BookWithin
<1>7. spotOrders[job.id] \in SpotRow
  BY <1>1, <1>3, RowOf
<1>8. /\ job.id \notin cut /\ job.id \notin lostFills
      /\ Room(spotOrders[job.id]) = job.left + SpentBy(spotOrders[job.id], job.hits)
      /\ HitsSound(spotOrders[job.id], job.hits)
      /\ SweptAll(spotOrders[job.id], job.hits, job.left)
      /\ spotOrders[job.id].status # "canceled"
      /\ spotOrders[job.id].status = "filled" => job.left = 0
  BY DEF SpotInv, JobSound
<1> QED BY <1>3, <1>4, <1>5, <1>6, <1>7, <1>8

\* All hits are committed.
LEMMA FinishedState ==
  ASSUME SpotInv, Finished
  PROVE  /\ Room(spotOrders[job.id]) = job.left
         /\ \A i : Unpaid(i) = 0
         /\ spotOrders[job.id].tif # "market" /\ job.left > 0 => Takeable(spotOrders[job.id]) = {}
<1>1. job.pc = "commit" /\ job.hits = << >>
  BY DEF Finished
<1>2. SpentBy(spotOrders[job.id], << >>) = 0 /\ DOMAIN << >> = {}
  BY SpentEmpty
<1>3. Room(spotOrders[job.id]) = job.left
  BY <1>1, <1>2, CommitState
<1>4. \A i : Unpaid(i) = 0
  <2> TAKE i
  <2>1. UnpaidIn(<< >>, i) = 0
    BY <1>2, UnpaidIs
  <2> QED BY <1>1, <2>1 DEF Unpaid
<1>5. spotOrders[job.id].tif # "market" /\ job.left > 0 => Takeable(spotOrders[job.id]) = {}
  BY <1>1, <1>2, CommitState DEF SweptAll
<1> QED BY <1>3, <1>4, <1>5

LEMMA RefundRestInv ==
  ASSUME SpotAssumption, SpotInv, RefundRest
  PROVE  SpotInv'
<1>0. PICK j \in Ids : job.id = j
  BY CommitState DEF RefundRest, Finished
<1> DEFINE o == spotOrders[j]
           k == LockToken(o)
           x == RefundOf(o)
<1>1. Finished /\ job.pc = "commit" /\ ~RestsWith(o) /\ Unfreeze(o.user, k, x)
      /\ job' = [pc |-> "status", id |-> j, left |-> job.left]
      /\ UNCHANGED <<spotOrders, resting, up, faults, wallets, histories>>
  BY <1>0 DEF RefundRest, Finished
<1>2. SpotTypes
  BY DEF SpotInv
<1>3. j \in Ids /\ o \in SpotRow /\ job.left \in Nat /\ up /\ InHand = {j} /\ Closing = {}
      /\ (\A u, t : Reserved(u, t) = 0) /\ j \notin cut /\ j \notin lostFills /\ o.status # "canceled"
      /\ (o.status = "filled" => job.left = 0) /\ Room(o) = job.left /\ \A i : Unpaid(i) = 0
  BY <1>0, <1>1, CommitState, FinishedState
<1>4. k \in Tokens /\ o.user \in Traders
  BY <1>3, LockTokens, RowFields
<1>5. x = Residual(o) /\ x \in Nat
  <2>1. Residual(o) = Rate(o) * job.left /\ Rate(o) \in Nat /\ Residual(o) \in Nat /\ o.price \in Nat
    BY <1>3, ResidualRoom, ResidualNat, RowFields
  <2>2. x = job.left * Rate(o)
    BY <1>3, <2>1 DEF RefundOf, Rate
  <2> HIDE DEF x, o
  <2> QED BY <1>3, <2>1, <2>2
<1>6. UNCHANGED <<cut, lostFills, halfRefunded, strayLock>>
  BY <1>1 DEF histories
<1>7. Ids' = Ids
  BY <1>1, RowsSame
<1> HIDE DEF x, k
<1>8. /\ avail' \in [Traders -> [Tokens -> Nat]] /\ frozen' \in [Traders -> [Tokens -> Int]]
      /\ FrozenLess(o.user, k, x)
  <2>1. avail[o.user][k] \in Nat
    BY <1>2, <1>4 DEF SpotTypes
  <2>2. x \in Int /\ avail[o.user][k] + x >= 0
    BY <1>5, <2>1
  <2> HIDE DEF o
  <2> QED BY <1>1, <1>2, <1>4, <2>2, UnfreezeStep
<1>9. SpotTypes'
  <2>1. JobTypes'
    BY <1>1, <1>3, <1>7 DEF JobTypes
  <2> QED BY <1>1, <1>2, <1>3, <1>6, <1>7, <1>8, <2>1 DEF SpotTypes
<1>10. InHand' = InHand /\ (\A i : Unpaid(i)' = Unpaid(i)) /\ Closing' = {j} /\ \A u, t : Reserved(u, t)' = 0
  BY <1>1, <1>3 DEF InHand, Unpaid, Closing, Reserved
<1>11. RowsSound' /\ BookWithin' /\ LiveInBook' /\ RowsUncrossed' /\ FilledSound'
  BY <1>1, <1>6, <1>10, RowsKept
<1>12. JobSound'
  BY <1>1, <1>3, <1>6 DEF JobSound, Room, InQuote, RestsWith
<1>13. MoneySound'
  <2> SUFFICES ASSUME NEW u \in Traders, NotHalf(u)'
               PROVE  /\ \A t \in Tokens : (Claims(u, t) + Reserved(u, t) <= frozen[u][t])'
                      /\ lostFills' = {} /\ u \notin strayLock' =>
                            frozen'[u]["base"] = Claims(u, "base")' + Reserved(u, "base")'
    BY DEF MoneySound
  <2>1. NotHalf(u)
    BY <1>1, <1>6 DEF NotHalf
  <2>2. \A t \in Tokens : /\ Claims(u, t)' = Claims(u, t) - (IF u = o.user /\ t = k THEN x ELSE 0)
                          /\ Claims(u, t) \in Int
    <3> TAKE t \in Tokens
    <3>1. \A i \in Ids : i # j => Claim(i, u, t)' = Claim(i, u, t)
      BY <1>1, <1>3, <1>10 DEF Claim, Counted, IsLive, LockToken, Residual
    <3>2. Claim(j, u, t)' = 0
      BY <1>10 DEF Claim, Counted
    <3>3. Claim(j, u, t) = IF u = o.user /\ t = k THEN x ELSE 0
      BY <1>3, <1>5 DEF Claim, Counted, k
    <3>4. /\ Claims(u, t)' = Claims(u, t) + Claim(j, u, t)' - Claim(j, u, t)
          /\ Claims(u, t) \in Int /\ Claim(j, u, t) \in Nat
      BY <1>2, <1>3, <1>7, <1>9, <1>11, <3>1, ClaimsStep DEF SpotInv
    <3> QED BY <3>2, <3>3, <3>4
  <2>3. \A t \in Tokens : frozen'[u][t] = (IF u = o.user /\ t = k THEN frozen[u][t] - x ELSE frozen[u][t])
                          /\ frozen[u][t] \in Int
    BY <1>2, <1>8 DEF FrozenLess, SpotTypes
  <2>4. /\ \A t \in Tokens : Claims(u, t) + Reserved(u, t) <= frozen[u][t]
        /\ lostFills = {} /\ u \notin strayLock => frozen[u]["base"] = Claims(u, "base") + Reserved(u, "base")
    BY <2>1 DEF SpotInv, MoneySound
  <2>5. "base" \in Tokens
    BY DEF Tokens
  <2> HIDE DEF o
  <2>6. \A t \in Tokens : Claims(u, t)' + Reserved(u, t)' <= frozen'[u][t]
    BY <1>3, <1>5, <1>10, <2>2, <2>3, <2>4
  <2>7. lostFills = {} /\ u \notin strayLock => frozen'[u]["base"] = Claims(u, "base")' + Reserved(u, "base")'
    BY <1>3, <1>5, <1>10, <2>2, <2>3, <2>4, <2>5
  <2> QED BY <1>6, <2>6, <2>7
<1> QED BY <1>9, <1>11, <1>12, <1>13 DEF SpotInv

-----------------------------------------------------------------------------
(* Steps that close a row. *)

LEMMA StatusFacts ==
  ASSUME SpotTypes, NEW i \in Ids, NEW st, StatusBecomes(i, st)
  PROVE  /\ \A k \in Ids : SameOrder(spotOrders[k], spotOrders'[k]) /\ Room(spotOrders'[k]) = Room(spotOrders[k])
                           /\ Residual(spotOrders'[k]) = Residual(spotOrders[k])
                           /\ (k # i => spotOrders'[k].status = spotOrders[k].status)
         /\ spotOrders'[i].status = st
<1>1. \A k \in Ids : spotOrders[k] \in SpotRow /\ spotOrders'[k] \in SpotRow
  BY RowOf DEF StatusBecomes, Ids
<1>2. SameOrder(spotOrders[i], spotOrders'[i]) /\ spotOrders'[i].filled = spotOrders[i].filled
      /\ spotOrders'[i].paid = spotOrders[i].paid /\ spotOrders'[i].status = st
      /\ \A k \in Ids : k # i => spotOrders'[k] = spotOrders[k]
  BY DEF StatusBecomes
<1>3. \A k \in Ids : SameOrder(spotOrders[k], spotOrders'[k]) /\ spotOrders'[k].filled = spotOrders[k].filled
                     /\ spotOrders'[k].paid = spotOrders[k].paid
  BY <1>2 DEF SameOrder
<1>4. \A k \in Ids : Room(spotOrders'[k]) = Room(spotOrders[k]) /\ Residual(spotOrders'[k]) = Residual(spotOrders[k])
  BY <1>1, <1>3, SameRoom
<1> QED BY <1>2, <1>3, <1>4

\* What the order of row i claims.
ClaimOf(i) == IF Counted(i) THEN Residual(spotOrders[i]) ELSE 0

LEMMA RowClosedInv ==
  ASSUME SpotInv, SpotTypes', NEW i \in Ids, NEW st \in {"filled", "canceled"}, StatusBecomes(i, st),
         job' = Idle, InHand \subseteq {i}, Closing \subseteq {i},
         \A k : Unpaid(k) = 0, \A u, t : Reserved(u, t) = 0,
         UNCHANGED <<cut, lostFills, halfRefunded, strayLock>>,
         DOMAIN resting' \subseteq DOMAIN resting \ {i},
         \A k \in DOMAIN resting' : resting'[k] = resting[k],
         up' => up /\ DOMAIN resting' = DOMAIN resting \ {i},
         st = "filled" => Room(spotOrders[i]) = 0,
         NEW y \in Int, FrozenLess(spotOrders[i].user, LockToken(spotOrders[i]), y),
         y <= ClaimOf(i), LockToken(spotOrders[i]) = "base" => y = ClaimOf(i)
  PROVE  SpotInv'
<1>1. SpotTypes
  BY DEF SpotInv
<1>2. /\ \A k \in Ids : SameOrder(spotOrders[k], spotOrders'[k]) /\ Room(spotOrders'[k]) = Room(spotOrders[k])
                        /\ Residual(spotOrders'[k]) = Residual(spotOrders[k])
                        /\ (k # i => spotOrders'[k].status = spotOrders[k].status)
      /\ spotOrders'[i].status = st
  BY <1>1, StatusFacts
<1>3. Ids' = Ids
  BY DEF StatusBecomes
<1>4. \A k \in Ids : InQuote(spotOrders'[k]) = InQuote(spotOrders[k]) /\ LockToken(spotOrders'[k]) = LockToken(spotOrders[k])
                     /\ Restable(spotOrders'[k]) = Restable(spotOrders[k])
                     /\ RestsWith(spotOrders'[k]) = RestsWith(spotOrders[k])
                     /\ spotOrders'[k].user = spotOrders[k].user /\ spotOrders'[k].side = spotOrders[k].side
                     /\ spotOrders'[k].price = spotOrders[k].price /\ spotOrders'[k].tif = spotOrders[k].tif
  BY <1>2, SameOrderFacts DEF SameOrder
<1>5. InHand' = {} /\ Closing' = {} /\ (\A k : Unpaid(k)' = 0) /\ \A u, t : Reserved(u, t)' = 0
  BY DEF Idle, InHand, Closing, Unpaid, Reserved
<1>6. \A k \in Ids : IsLive(k)' <=> k # i /\ IsLive(k)
  BY <1>2 DEF IsLive, Live
<1>7. RowsSound'
  <2> SUFFICES ASSUME NEW k \in Ids PROVE RowSound(spotOrders[k])'
    BY <1>3 DEF RowsSound
  <2>1. RowSound(spotOrders[k])
    BY DEF SpotInv, RowsSound
  <2>2. RowSound(spotOrders'[k])
    BY <1>2, <1>4, <2>1 DEF RowSound, Live
  <2> QED BY <2>2 DEF RowSound, Room, InQuote
<1>8. BookWithin'
  <2> SUFFICES ASSUME NEW k \in DOMAIN resting'
               PROVE  /\ k \notin InHand' /\ IsLive(k)' /\ Restable(spotOrders'[k])
                      /\ resting'[k] + Unpaid(k)' <= Room(spotOrders'[k])
                      /\ k \notin cut' \cap lostFills' => resting'[k] + Unpaid(k)' = Room(spotOrders'[k])
    BY DEF BookWithin, Restable, Room, InQuote
  <2>1. k \in DOMAIN resting /\ k # i /\ k \in Ids /\ resting'[k] = resting[k]
    BY <1>1 DEF SpotTypes
  <2>2. /\ IsLive(k) /\ Restable(spotOrders[k]) /\ resting[k] + Unpaid(k) <= Room(spotOrders[k])
        /\ k \notin cut \cap lostFills => resting[k] + Unpaid(k) = Room(spotOrders[k])
    BY <2>1 DEF SpotInv, BookWithin
  <2> QED BY <1>2, <1>4, <1>5, <1>6, <2>1, <2>2
<1>9. LiveInBook'
  <2> SUFFICES ASSUME up', NEW k \in Ids, IsLive(k)'
               PROVE  /\ k \notin cut' => k \in DOMAIN resting'
                      /\ RestsWith(spotOrders'[k]) /\ lostFills' = {} => k \in DOMAIN resting'
    BY <1>3 DEF LiveInBook, RestsWith
  <2>1. k # i /\ IsLive(k) /\ up /\ k \notin InHand
    BY <1>6
  <2> QED BY <1>4, <2>1 DEF SpotInv, LiveInBook
<1>10. RowsUncrossed'
  <2> SUFFICES ASSUME lostFills' = {}, NEW a \in Ids, NEW b \in Ids, IsLive(a)', IsLive(b)',
                      RestsWith(spotOrders'[a]), RestsWith(spotOrders'[b]),
                      spotOrders'[a].side = "buy", spotOrders'[b].side = "sell"
               PROVE  spotOrders'[a].price < spotOrders'[b].price
    BY <1>3, <1>5 DEF RowsUncrossed, RestsWith
  <2>1. a \notin InHand /\ b \notin InHand /\ IsLive(a) /\ IsLive(b)
    BY <1>6
  <2> QED BY <1>4, <2>1 DEF SpotInv, RowsUncrossed
<1>11. FilledSound'
  <2> SUFFICES ASSUME NEW k \in Ids \ lostFills', spotOrders'[k].status = "filled" PROVE Room(spotOrders'[k]) = 0
    BY <1>3, <1>5 DEF FilledSound, Room, InQuote
  <2>1. CASE k = i
    BY <1>2, <2>1
  <2>2. CASE k # i
    BY <1>2, <2>2 DEF SpotInv, FilledSound
  <2> QED BY <2>1, <2>2
<1>12. JobSound'
  BY DEF JobSound, Idle
<1>13. MoneySound'
  <2> DEFINE o == spotOrders[i]
             c == ClaimOf(i)
  <2> SUFFICES ASSUME NEW u \in Traders, NotHalf(u)'
               PROVE  /\ \A t \in Tokens : (Claims(u, t) + Reserved(u, t) <= frozen[u][t])'
                      /\ lostFills' = {} /\ u \notin strayLock' =>
                            frozen'[u]["base"] = Claims(u, "base")' + Reserved(u, "base")'
    BY DEF MoneySound
  <2>1. NotHalf(u)
    <3>1. halfRefunded \subseteq Ids
      BY <1>1 DEF SpotTypes
    <3> QED BY <1>4, <3>1 DEF NotHalf
  <2>0. c \in Int
    BY <1>1, RowOf, ResidualRoom DEF ClaimOf
  <2>2. \A t \in Tokens : /\ Claims(u, t)' = Claims(u, t) - (IF u = o.user /\ t = LockToken(o) THEN c ELSE 0)
                          /\ Claims(u, t) \in Int
    <3> TAKE t \in Tokens
    <3>1. \A k \in Ids : k # i => Claim(k, u, t)' = Claim(k, u, t)
      <4> SUFFICES ASSUME NEW k \in Ids, k # i PROVE Claim(k, u, t)' = Claim(k, u, t)
        OBVIOUS
      <4>1. (Counted(k)' <=> IsLive(k)) /\ (Counted(k) <=> IsLive(k))
        BY <1>5, <1>6 DEF Counted
      <4>2. Claim(k, u, t)' = IF Counted(k)' /\ spotOrders'[k].user = u /\ LockToken(spotOrders'[k]) = t
                              THEN Residual(spotOrders'[k]) ELSE 0
        BY DEF Claim, LockToken, Residual
      <4> QED BY <1>2, <1>4, <4>1, <4>2 DEF Claim
    <3>2. Claim(i, u, t)' = 0
      BY <1>5, <1>6 DEF Claim, Counted
    <3>3. Claim(i, u, t) = IF u = o.user /\ t = LockToken(o) THEN c ELSE 0
      BY DEF Claim, ClaimOf
    <3>4. /\ Claims(u, t)' = Claims(u, t) + Claim(i, u, t)' - Claim(i, u, t)
          /\ Claims(u, t) \in Int /\ Claim(i, u, t) \in Nat
      BY <1>1, <1>3, <1>7, <3>1, ClaimsStep DEF SpotInv
    <3> QED BY <3>2, <3>3, <3>4
  <2>3. \A t \in Tokens : frozen'[u][t] = (IF u = o.user /\ t = LockToken(o) THEN frozen[u][t] - y ELSE frozen[u][t])
                          /\ frozen[u][t] \in Int
    BY <1>1 DEF FrozenLess, SpotTypes
  <2>4. /\ \A t \in Tokens : Claims(u, t) + Reserved(u, t) <= frozen[u][t]
        /\ lostFills = {} /\ u \notin strayLock => frozen[u]["base"] = Claims(u, "base") + Reserved(u, "base")
    BY <2>1 DEF SpotInv, MoneySound
  <2>5. "base" \in Tokens /\ y <= c /\ (LockToken(o) = "base" => y = c)
    BY DEF Tokens
  <2>9. \A t : Reserved(u, t) = 0 /\ Reserved(u, t)' = 0
    BY <1>5
  <2> HIDE DEF o, c
  <2>6. \A t \in Tokens : Claims(u, t)' + Reserved(u, t)' <= frozen'[u][t]
    BY <2>0, <2>9, <2>2, <2>3, <2>4, <2>5
  <2>7. lostFills = {} /\ u \notin strayLock => frozen'[u]["base"] = Claims(u, "base")' + Reserved(u, "base")'
    BY <2>0, <2>9, <2>2, <2>3, <2>4, <2>5
  <2> QED BY <2>6, <2>7
<1> QED BY <1>7, <1>8, <1>9, <1>10, <1>11, <1>12, <1>13 DEF SpotInv

LEMMA FrozenSame ==
  ASSUME SpotTypes, frozen' = frozen, NEW u, NEW t
  PROVE  FrozenLess(u, t, 0)
BY DEF FrozenLess, SpotTypes

LEMMA FillInv ==
  ASSUME SpotAssumption, SpotInv, Fill
  PROVE  SpotInv'
<1>0. PICK i \in Ids : job.id = i
  BY CommitState DEF Fill, Finished
<1>1. /\ Finished /\ job.pc = "commit" /\ job.left = 0 /\ job' = Idle
      /\ spotOrders' = [spotOrders EXCEPT ![i].status = "filled"]
      /\ UNCHANGED <<avail, frozen, resting, up, faults, wallets, histories>>
  BY <1>0 DEF Fill, Finished
<1>2. SpotTypes
  BY DEF SpotInv
<1>3. /\ InHand = {i} /\ Closing = {} /\ (\A k : Unpaid(k) = 0) /\ (\A u, t : Reserved(u, t) = 0)
      /\ Room(spotOrders[i]) = 0 /\ i \notin DOMAIN resting /\ up
  BY <1>0, <1>1, CommitState, FinishedState
<1>4. StatusBecomes(i, "filled")
  BY <1>1, <1>2, StatusStep DEF SpotStatuses
<1>5. UNCHANGED <<cut, lostFills, halfRefunded, strayLock>>
  BY <1>1 DEF histories
<1>6. SpotTypes'
  <2>1. JobTypes' /\ Ids' = Ids /\ spotOrders' \in Seq(SpotRow)
    BY <1>1, <1>4 DEF JobTypes, StatusBecomes, Idle
  <2> QED BY <1>1, <1>2, <1>3, <1>5, <2>1 DEF SpotTypes
<1>7. ClaimOf(i) = 0 /\ FrozenLess(spotOrders[i].user, LockToken(spotOrders[i]), 0)
  BY <1>1, <1>2, <1>3, RowOf, ResidualNat, FrozenSame DEF ClaimOf
<1> QED BY <1>1, <1>3, <1>4, <1>5, <1>6, <1>7, RowClosedInv

\* The refund is done, and the row is to be closed.
LEMMA StatusState ==
  ASSUME SpotInv, job.pc = "status"
  PROVE  /\ job \in [pc : {"status"}, id : Ids, left : Nat]
         /\ up /\ job.id \in Ids /\ job.left \in Nat /\ job.id \notin DOMAIN resting
         /\ InHand = {job.id} /\ Closing = {job.id} /\ (\A i : Unpaid(i) = 0)
         /\ \A u, t : Reserved(u, t) = 0
         /\ job.id \notin cut /\ job.id \notin lostFills
         /\ Room(spotOrders[job.id]) = job.left /\ ~RestsWith(spotOrders[job.id])
         /\ spotOrders[job.id].status = "filled" => job.left = 0
<1>1. SpotTypes
  BY DEF SpotInv
<1>2. job # Idle /\ job.pc # "insert" /\ job.pc # "commit"
  BY DEF Idle
<1>3. job \in [pc : {"status"}, id : Ids, left : Nat]
  BY <1>1, <1>2 DEF SpotTypes, JobTypes
<1>4. InHand = {job.id} /\ Closing = {job.id} /\ (\A i : Unpaid(i) = 0) /\ \A u, t : Reserved(u, t) = 0
  BY DEF InHand, Closing, Unpaid, Reserved
<1>5. up
  BY <1>1, <1>2 DEF SpotTypes
<1>6. job.id \notin DOMAIN resting
  BY <1>4 DEF SpotInv, BookWithin
<1>8. /\ job.id \notin cut /\ job.id \notin lostFills
      /\ Room(spotOrders[job.id]) = job.left /\ ~RestsWith(spotOrders[job.id])
      /\ spotOrders[job.id].status = "filled" => job.left = 0
  BY DEF SpotInv, JobSound
<1> QED BY <1>3, <1>4, <1>5, <1>6, <1>8

LEMMA CloseRowInv ==
  ASSUME SpotAssumption, SpotInv, CloseRow
  PROVE  SpotInv'
<1>0. PICK i \in Ids : job.id = i
  BY StatusState DEF CloseRow
<1> DEFINE st == IF spotOrders[i].status # "open" /\ job.left = 0 THEN "filled" ELSE "canceled"
<1>1. /\ job.pc = "status" /\ job' = Idle
      /\ spotOrders' = [spotOrders EXCEPT ![i].status = IF @ # "open" /\ job.left = 0 THEN "filled" ELSE "canceled"]
      /\ UNCHANGED <<avail, frozen, resting, up, faults, wallets, histories>>
  BY <1>0 DEF CloseRow
<1>9. PICK s \in {"filled", "canceled"} : s = st
  OBVIOUS
<1>10. spotOrders' = [spotOrders EXCEPT ![i].status = s]
  BY <1>1, <1>9
<1>2. SpotTypes
  BY DEF SpotInv
<1>3. /\ InHand = {i} /\ Closing = {i} /\ (\A k : Unpaid(k) = 0) /\ (\A u, t : Reserved(u, t) = 0)
      /\ Room(spotOrders[i]) = job.left /\ i \notin DOMAIN resting /\ up
  BY <1>0, <1>1, StatusState
<1>4. StatusBecomes(i, s)
  BY <1>2, <1>10, StatusStep DEF SpotStatuses
<1>5. UNCHANGED <<cut, lostFills, halfRefunded, strayLock>>
  BY <1>1 DEF histories
<1>6. SpotTypes'
  <2>1. JobTypes' /\ Ids' = Ids /\ spotOrders' \in Seq(SpotRow)
    BY <1>1, <1>4 DEF JobTypes, StatusBecomes, Idle
  <2> QED BY <1>1, <1>2, <1>3, <1>5, <2>1 DEF SpotTypes
<1>7. ClaimOf(i) = 0 /\ FrozenLess(spotOrders[i].user, LockToken(spotOrders[i]), 0)
  BY <1>1, <1>2, <1>3, FrozenSame DEF ClaimOf, Counted
<1>8. s = "filled" => Room(spotOrders[i]) = 0
  BY <1>3, <1>9
<1> QED BY <1>1, <1>3, <1>4, <1>5, <1>6, <1>7, <1>8, RowClosedInv

LEMMA CancelOrderInv ==
  ASSUME SpotAssumption, SpotInv, NEW i \in Ids, CancelOrder(i)
  PROVE  SpotInv'
<1> DEFINE o == spotOrders[i]
           y == CancelRefund(o)
<1>1. /\ up /\ job = Idle /\ IsLive(i) /\ Unfreeze(o.user, LockToken(o), y)
      /\ spotOrders' = [spotOrders EXCEPT ![i].status = "canceled"]
      /\ resting' = (IF o.tif = "market" THEN << >> ELSE Without(resting, i))
      /\ up' = (o.tif # "market") /\ UNCHANGED <<job, faults, wallets, histories>>
  BY DEF CancelOrder, Removed
<1>2. SpotTypes
  BY DEF SpotInv
<1>3. o \in SpotRow /\ Room(o) >= 0 /\ o.user \in Traders /\ LockToken(o) \in Tokens
  BY <1>2, RowOf, RowFields, LockTokens DEF SpotInv, RowsSound, RowSound
<1>4. Residual(o) \in Nat /\ y \in Nat /\ y <= Residual(o) /\ (LockToken(o) = "base" => y = Residual(o))
  <2>1. Residual(o) \in Nat
    BY <1>3, ResidualNat
  <2> QED BY <2>1 DEF CancelRefund, LockToken
<1>5. ClaimOf(i) = Residual(o) /\ InHand = {} /\ Closing = {} /\ (\A k : Unpaid(k) = 0) /\ \A u, t : Reserved(u, t) = 0
  BY <1>1, IdleFacts DEF ClaimOf, Counted
<1> HIDE DEF y
<1>6. /\ avail' \in [Traders -> [Tokens -> Nat]] /\ frozen' \in [Traders -> [Tokens -> Int]]
      /\ FrozenLess(o.user, LockToken(o), y)
  <2>1. avail[o.user][LockToken(o)] \in Nat
    BY <1>2, <1>3 DEF SpotTypes
  <2>2. y \in Int /\ avail[o.user][LockToken(o)] + y >= 0
    BY <1>4, <2>1
  <2> HIDE DEF o
  <2> QED BY <1>1, <1>2, <1>3, <2>2, UnfreezeStep
<1>7. StatusBecomes(i, "canceled")
  BY <1>1, <1>2, StatusStep DEF SpotStatuses
<1>8. UNCHANGED <<cut, lostFills, halfRefunded, strayLock>>
  BY <1>1 DEF histories
<1>9. /\ DOMAIN resting' \subseteq DOMAIN resting \ {i} /\ \A k \in DOMAIN resting' : resting'[k] = resting[k]
      /\ up' => DOMAIN resting' = DOMAIN resting \ {i}
      /\ ~up' => DOMAIN resting' = {}
      /\ resting' \in [DOMAIN resting' -> Nat]
  <2>1. resting \in [DOMAIN resting -> Nat]
    BY <1>2 DEF SpotTypes
  <2>2. CASE o.tif = "market"
    <3>1. resting' = << >> /\ ~up'
      BY <1>1, <2>2
    <3>2. DOMAIN << >> = {} /\ << >> \in [{} -> Nat]
      OBVIOUS
    <3> QED BY <3>1, <3>2
  <2>3. CASE o.tif # "market"
    <3>1. resting' = [k \in DOMAIN resting \ {i} |-> resting[k]] /\ up'
      BY <1>1, <2>3 DEF Without
    <3>2. DOMAIN resting' = DOMAIN resting \ {i} /\ \A k \in DOMAIN resting' : resting'[k] = resting[k] /\ resting[k] \in Nat
      BY <2>1, <3>1
    <3>3. resting' \in [DOMAIN resting \ {i} -> Nat]
      BY <2>1, <3>1
    <3> QED BY <3>1, <3>2, <3>3
  <2> QED BY <2>2, <2>3
<1>10. SpotTypes'
  <2>1. JobTypes' /\ Ids' = Ids /\ spotOrders' \in Seq(SpotRow) /\ job' = Idle
    BY <1>1, <1>7 DEF JobTypes, StatusBecomes, Idle
  <2>2. DOMAIN resting' \subseteq Ids' /\ up' \in BOOLEAN
    BY <1>1, <1>2, <1>9, <2>1 DEF SpotTypes
  <2> QED BY <1>1, <1>2, <1>6, <1>8, <1>9, <2>1, <2>2 DEF SpotTypes
<1> QED BY <1>1, <1>4, <1>5, <1>6, <1>7, <1>8, <1>9, <1>10, RowClosedInv

LEMMA RecoverRowInv ==
  ASSUME SpotAssumption, SpotInv, NEW i \in Ids, RecoverRow(i)
  PROVE  SpotInv'
<1> DEFINE o == spotOrders[i]
           y == Residual(o)
<1>1. /\ ~up /\ i \in Stale /\ Unfreeze(o.user, LockToken(o), y)
      /\ spotOrders' = [spotOrders EXCEPT ![i].status = "canceled"]
      /\ UNCHANGED <<resting, job, up, faults, wallets, histories>>
  BY DEF RecoverRow
<1>2. SpotTypes
  BY DEF SpotInv
<1>3. o \in SpotRow /\ Room(o) >= 0 /\ o.user \in Traders /\ LockToken(o) \in Tokens /\ IsLive(i)
      /\ job = Idle /\ DOMAIN resting = {}
  BY <1>1, <1>2, RowOf, RowFields, LockTokens DEF SpotInv, RowsSound, RowSound, Stale, SpotTypes
<1>4. y \in Nat
  BY <1>3, ResidualNat
<1>5. ClaimOf(i) = y /\ InHand = {} /\ Closing = {} /\ (\A k : Unpaid(k) = 0) /\ \A u, t : Reserved(u, t) = 0
  BY <1>3, IdleFacts DEF ClaimOf, Counted
<1> HIDE DEF y
<1>6. /\ avail' \in [Traders -> [Tokens -> Nat]] /\ frozen' \in [Traders -> [Tokens -> Int]]
      /\ FrozenLess(o.user, LockToken(o), y)
  <2>1. avail[o.user][LockToken(o)] \in Nat
    BY <1>2, <1>3 DEF SpotTypes
  <2>2. y \in Int /\ avail[o.user][LockToken(o)] + y >= 0
    BY <1>4, <2>1
  <2> HIDE DEF o
  <2> QED BY <1>1, <1>2, <1>3, <2>2, UnfreezeStep
<1>7. StatusBecomes(i, "canceled")
  BY <1>1, <1>2, StatusStep DEF SpotStatuses
<1>8. UNCHANGED <<cut, lostFills, halfRefunded, strayLock>>
  BY <1>1 DEF histories
<1>10. SpotTypes'
  <2>1. JobTypes' /\ Ids' = Ids /\ spotOrders' \in Seq(SpotRow) /\ job' = Idle
    BY <1>1, <1>3, <1>7 DEF JobTypes, StatusBecomes, Idle
  <2> QED BY <1>1, <1>2, <1>3, <1>6, <1>8, <2>1 DEF SpotTypes
<1>11. job' = Idle /\ ~up' /\ resting' = resting
  BY <1>1, <1>3
<1> QED BY <1>3, <1>4, <1>5, <1>6, <1>7, <1>8, <1>10, <1>11, RowClosedInv

-----------------------------------------------------------------------------
(* The book gets the order of the command, a restart or nothing. *)

LEMMA MoneyKept ==
  ASSUME SpotInv, spotOrders' = spotOrders, frozen' = frozen,
         UNCHANGED <<lostFills, halfRefunded, strayLock>>,
         \A i \in Ids : Counted(i)' <=> Counted(i), \A u, t : Reserved(u, t)' = Reserved(u, t)
  PROVE  MoneySound'
<1> SUFFICES ASSUME NEW u \in Traders, NotHalf(u)'
             PROVE  /\ \A t \in Tokens : (Claims(u, t) + Reserved(u, t) <= frozen[u][t])'
                    /\ lostFills' = {} /\ u \notin strayLock' =>
                          frozen'[u]["base"] = Claims(u, "base")' + Reserved(u, "base")'
  BY DEF MoneySound
<1>1. NotHalf(u)
  BY DEF NotHalf
<1>2. \A t : Claims(u, t)' = Claims(u, t)
  <2> TAKE t
  <2>1. \A i \in Ids : Claim(i, u, t)' = Claim(i, u, t)
    BY DEF Claim, LockToken, Residual
  <2> QED BY <2>1, RowsSame, ClaimsSame
<1>3. /\ \A t \in Tokens : Claims(u, t) + Reserved(u, t) <= frozen[u][t]
      /\ lostFills = {} /\ u \notin strayLock => frozen[u]["base"] = Claims(u, "base") + Reserved(u, "base")
  BY <1>1 DEF SpotInv, MoneySound
<1> QED BY <1>2, <1>3

\* With every hit committed, no live order reaches another, the one in hand neither.
LEMMA AllUncrossed ==
  ASSUME SpotInv, lostFills = {}, job.pc = "commit" => job.hits = << >>,
         NEW i \in Ids, NEW j \in Ids, IsLive(i), IsLive(j), RestsWith(spotOrders[i]), RestsWith(spotOrders[j]),
         spotOrders[i].side = "buy", spotOrders[j].side = "sell"
  PROVE  spotOrders[i].price < spotOrders[j].price
<1>1. SpotTypes
  BY DEF SpotInv
<1>2. \A k \in Ids : RestsWith(spotOrders[k]) => spotOrders[k].tif # "market" /\ ~InQuote(spotOrders[k])
  BY DEF RestsWith, InQuote
<1>3. CASE InHand = {}
  BY <1>3 DEF SpotInv, RowsUncrossed
<1>4. CASE job.pc = "status"
  BY <1>4, StatusState DEF SpotInv, RowsUncrossed
<1>5. CASE job.pc = "commit"
  <2>1. PICK a \in Ids : job.id = a
    BY <1>5, CommitState
  <2>2. Finished
    BY <1>5 DEF Finished
  <2>3. InHand = {a} /\ job.left \in Nat /\ Room(spotOrders[a]) = job.left /\ up
        /\ (spotOrders[a].tif # "market" /\ job.left > 0 => Takeable(spotOrders[a]) = {})
    BY <1>5, <2>1, <2>2, CommitState, FinishedState
  <2>4. IsLive(a) /\ RestsWith(spotOrders[a]) => Takeable(spotOrders[a]) = {}
    <3>1. IsLive(a) /\ RestsWith(spotOrders[a]) => Room(spotOrders[a]) > 0
      BY <1>2 DEF SpotInv, RowsSound, RowSound, IsLive
    <3> QED BY <1>2, <2>3, <3>1
  <2>5. \A k \in Ids : k # a /\ IsLive(k) /\ RestsWith(spotOrders[k]) => k \in DOMAIN resting
    BY <2>3 DEF SpotInv, LiveInBook
  <2>6. \A k \in Ids : spotOrders[k].price \in Nat
    BY <1>1, RowOf, RowFields
  <2>7. CASE i = a
    <3>1. j # a /\ j \in DOMAIN resting /\ j \notin Takeable(spotOrders[i])
      BY <2>4, <2>5, <2>7
    <3>2. ~(spotOrders[j].price <= spotOrders[i].price)
      BY <3>1 DEF Takeable, Reaches
    <3> QED BY <2>6, <3>2
  <2>8. CASE j = a
    <3>1. i # a /\ i \in DOMAIN resting /\ i \notin Takeable(spotOrders[j])
      BY <2>4, <2>5, <2>8
    <3>2. ~(spotOrders[i].price >= spotOrders[j].price)
      BY <3>1 DEF Takeable, Reaches
    <3> QED BY <2>6, <3>2
  <2>9. CASE i # a /\ j # a
    BY <2>3, <2>9 DEF SpotInv, RowsUncrossed
  <2> QED BY <2>7, <2>8, <2>9
<1> QED BY <1>3, <1>4, <1>5 DEF InHand

LEMMA RestInv ==
  ASSUME SpotAssumption, SpotInv, Rest
  PROVE  SpotInv'
<1>0. PICK j \in Ids : job.id = j
  BY CommitState DEF Rest, ToRest, Finished
<1> DEFINE o == spotOrders[j]
<1>1. /\ Finished /\ job.pc = "commit" /\ job.hits = << >> /\ RestsWith(o) /\ job.left > 0
      /\ resting' = [i \in DOMAIN resting \cup {j} |-> IF i = j THEN job.left ELSE resting[i]]
      /\ job' = Idle /\ UNCHANGED <<spotOrders, avail, frozen, up, faults, wallets, histories>>
  BY <1>0 DEF Rest, ToRest, Finished
<1>2. SpotTypes
  BY DEF SpotInv
<1>3. /\ InHand = {j} /\ Closing = {} /\ (\A k : Unpaid(k) = 0) /\ (\A u, t : Reserved(u, t) = 0)
      /\ o \in SpotRow /\ Room(o) = job.left /\ j \notin DOMAIN resting /\ up /\ job.left \in Nat
      /\ o.status # "canceled" /\ (o.status = "filled" => job.left = 0)
  BY <1>0, <1>1, CommitState, FinishedState
<1>4. IsLive(j) /\ Restable(o)
  <2>1. o.status \in SpotStatuses /\ o.status # "filled"
    BY <1>1, <1>3, RowFields
  <2> QED BY <1>1, <1>3, <2>1 DEF IsLive, Live, SpotStatuses, Restable, RestsWith
<1>5. UNCHANGED <<cut, lostFills, halfRefunded, strayLock>>
  BY <1>1 DEF histories
<1>6. Ids' = Ids
  BY <1>1, RowsSame
<1>7. /\ DOMAIN resting' = DOMAIN resting \cup {j} /\ resting'[j] = job.left
      /\ \A i \in DOMAIN resting : resting'[i] = resting[i]
      /\ resting' \in [DOMAIN resting' -> Nat]
  <2>1. resting \in [DOMAIN resting -> Nat]
    BY <1>2 DEF SpotTypes
  <2> HIDE DEF o
  <2> QED BY <1>1, <1>3, <2>1
<1>8. SpotTypes'
  <2>1. JobTypes'
    BY <1>1 DEF JobTypes, Idle
  <2>2. DOMAIN resting' \subseteq Ids'
    BY <1>2, <1>6, <1>7 DEF SpotTypes
  <2> QED BY <1>1, <1>2, <1>3, <1>5, <1>6, <1>7, <2>1, <2>2 DEF SpotTypes
<1>9. InHand' = {} /\ Closing' = {} /\ (\A k : Unpaid(k)' = 0) /\ \A u, t : Reserved(u, t)' = 0
  BY <1>1 DEF Idle, InHand, Closing, Unpaid, Reserved
<1>10. RowsSound'
  BY <1>1, <1>6 DEF SpotInv, RowsSound, RowSound, Room, InQuote
<1>11. BookWithin'
  <2> SUFFICES ASSUME NEW k \in DOMAIN resting'
               PROVE  /\ IsLive(k) /\ Restable(spotOrders[k])
                      /\ resting'[k] + 0 <= Room(spotOrders[k])
                      /\ k \notin cut \cap lostFills => resting'[k] + 0 = Room(spotOrders[k])
    BY <1>1, <1>5, <1>9 DEF BookWithin, IsLive, Restable, Room, InQuote
  <2>1. CASE k = j
    BY <1>3, <1>4, <1>7, <2>1
  <2>2. CASE k # j
    <3>1. k \in DOMAIN resting /\ resting'[k] = resting[k]
      BY <1>7, <2>2
    <3> QED BY <1>3, <3>1 DEF SpotInv, BookWithin
  <2> QED BY <2>1, <2>2
<1>12. LiveInBook'
  <2> SUFFICES ASSUME NEW k \in Ids, IsLive(k)
               PROVE  /\ k \notin cut => k \in DOMAIN resting'
                      /\ RestsWith(spotOrders[k]) /\ lostFills = {} => k \in DOMAIN resting'
    BY <1>1, <1>5, <1>6 DEF LiveInBook, IsLive, RestsWith
  <2> QED BY <1>3, <1>7 DEF SpotInv, LiveInBook
<1>13. RowsUncrossed'
  <2> SUFFICES ASSUME lostFills = {}, NEW a \in Ids, NEW b \in Ids, IsLive(a), IsLive(b),
                      RestsWith(spotOrders[a]), RestsWith(spotOrders[b]),
                      spotOrders[a].side = "buy", spotOrders[b].side = "sell"
               PROVE  spotOrders[a].price < spotOrders[b].price
    BY <1>1, <1>5, <1>6 DEF RowsUncrossed, IsLive, RestsWith
  <2> QED BY <1>1, AllUncrossed
<1>14. FilledSound'
  <2> SUFFICES ASSUME NEW k \in Ids \ lostFills, spotOrders[k].status = "filled" PROVE Room(spotOrders[k]) = 0
    BY <1>1, <1>5, <1>6 DEF FilledSound, Room, InQuote
  <2>1. k # j
    BY <1>1, <1>3
  <2> QED BY <1>3, <2>1 DEF SpotInv, FilledSound
<1>15. JobSound'
  BY <1>1 DEF JobSound, Idle
<1>16. MoneySound'
  <2>1. \A i \in Ids : Counted(i)' <=> Counted(i)
    BY <1>1, <1>3, <1>4, <1>9 DEF Counted, IsLive
  <2> QED BY <1>1, <1>3, <1>5, <1>9, <2>1, MoneyKept
<1> QED BY <1>8, <1>10, <1>11, <1>12, <1>13, <1>14, <1>15, <1>16 DEF SpotInv

LEMMA StartInv ==
  ASSUME SpotAssumption, SpotInv, Start
  PROVE  SpotInv'
<1> DEFINE D == {j \in Ids : IsLive(j) /\ spotOrders[j].filled < spotOrders[j].qty}
<1>1. /\ ~up /\ Stale = {} /\ resting' = [i \in D |-> Restored(spotOrders[i])]
      /\ up' = TRUE /\ cut' = {}
      /\ UNCHANGED <<spotOrders, avail, frozen, job, wallets, faults, lostFills, halfRefunded, strayLock>>
  BY DEF Start
<1>2. SpotTypes
  BY DEF SpotInv
<1>3. job = Idle /\ InHand = {} /\ Closing = {} /\ (\A k : Unpaid(k) = 0) /\ \A u, t : Reserved(u, t) = 0
  BY <1>1, <1>2, IdleFacts DEF SpotTypes
<1>4. Ids' = Ids
  BY <1>1, RowsSame
<1>5. \A i \in Ids : IsLive(i) =>
         /\ Restable(spotOrders[i]) /\ ~InQuote(spotOrders[i]) /\ spotOrders[i].tif # "market"
         /\ Room(spotOrders[i]) = spotOrders[i].qty - spotOrders[i].filled /\ i \in D
         /\ Room(spotOrders[i]) \in Nat
  <2> SUFFICES ASSUME NEW i \in Ids, IsLive(i)
               PROVE  /\ Restable(spotOrders[i]) /\ ~InQuote(spotOrders[i]) /\ spotOrders[i].tif # "market"
                      /\ Room(spotOrders[i]) = spotOrders[i].qty - spotOrders[i].filled /\ i \in D
                      /\ Room(spotOrders[i]) \in Nat
    OBVIOUS
  <2>1. Restable(spotOrders[i])
    BY <1>1 DEF Stale
  <2>2. spotOrders[i].tif # "market" /\ ~InQuote(spotOrders[i])
    BY <2>1 DEF Restable, InQuote
  <2>3. Room(spotOrders[i]) = spotOrders[i].qty - spotOrders[i].filled /\ Room(spotOrders[i]) > 0
    BY <2>2 DEF Room, SpotInv, RowsSound, RowSound, IsLive
  <2>4. spotOrders[i].qty \in Nat /\ spotOrders[i].filled \in Nat
    BY <1>2, RowOf, RowFields
  <2> QED BY <2>1, <2>2, <2>3, <2>4
<1>6. /\ DOMAIN resting' = D /\ D \subseteq Ids /\ (\A i \in D : IsLive(i) /\ resting'[i] = Room(spotOrders[i]))
      /\ resting' \in [DOMAIN resting' -> Nat]
  <2>1. \A i \in D : i \in Ids /\ IsLive(i) /\ Restored(spotOrders[i]) = Room(spotOrders[i]) /\ Room(spotOrders[i]) \in Nat
    BY <1>5 DEF Restored
  <2> HIDE DEF D
  <2>2. DOMAIN resting' = D
    BY <1>1
  <2> QED BY <1>1, <2>1, <2>2
<1> HIDE DEF D
<1>7. SpotTypes'
  <2>1. JobTypes'
    BY <1>1, <1>3 DEF JobTypes
  <2> QED BY <1>1, <1>2, <1>4, <1>6, <2>1 DEF SpotTypes
<1>8. InHand' = {} /\ Closing' = {} /\ (\A k : Unpaid(k)' = 0) /\ \A u, t : Reserved(u, t)' = 0
  BY <1>1, <1>3 DEF Idle, InHand, Closing, Unpaid, Reserved
<1>9. RowsSound'
  BY <1>1, <1>4 DEF SpotInv, RowsSound, RowSound, Room, InQuote
<1>10. BookWithin'
  <2> SUFFICES ASSUME NEW k \in D
               PROVE  /\ IsLive(k) /\ Restable(spotOrders[k])
                      /\ resting'[k] + 0 = Room(spotOrders[k]) /\ Room(spotOrders[k]) \in Int
    BY <1>1, <1>6, <1>8 DEF BookWithin, IsLive, Restable, Room, InQuote
  <2> QED BY <1>5, <1>6
<1>11. LiveInBook'
  BY <1>1, <1>4, <1>5, <1>6 DEF LiveInBook, IsLive
<1>12. RowsUncrossed'
  <2>1. InHand' = InHand
    BY <1>3, <1>8
  <2> QED BY <1>1, <1>4, <2>1 DEF SpotInv, RowsUncrossed, IsLive, RestsWith
<1>13. FilledSound'
  <2>1. InHand' = InHand
    BY <1>3, <1>8
  <2> QED BY <1>1, <1>4, <2>1 DEF SpotInv, FilledSound, Room, InQuote
<1>14. JobSound'
  BY <1>1, <1>3 DEF JobSound, Idle
<1>15. MoneySound'
  <2>1. \A i \in Ids : Counted(i)' <=> Counted(i)
    BY <1>1, <1>3, <1>8 DEF Counted, IsLive
  <2> QED BY <1>1, <1>3, <1>8, <2>1, MoneyKept
<1> QED BY <1>7, <1>9, <1>10, <1>11, <1>12, <1>13, <1>14, <1>15 DEF SpotInv

-----------------------------------------------------------------------------
(* A command is cut short, a crash. *)

LEMMA PendingFacts ==
  ASSUME SpotInv
  PROVE  /\ Pending \subseteq Ids
         /\ \A k : Unpaid(k) \in Nat /\ (k \notin Pending => Unpaid(k) = 0)
         /\ Pending = {} /\ job.pc = "commit" => job.hits = << >>
<1>1. CASE job.pc # "commit"
  BY <1>1 DEF Pending, Unpaid
<1>2. CASE job.pc = "commit"
  <2>1. job.hits \in Seq(SpotHit) /\ HitsSound(spotOrders[job.id], job.hits) /\ SpotTypes
    BY <1>2, CommitState DEF SpotInv
  <2>2. Pending = {job.hits[n].maker : n \in DOMAIN job.hits}
    BY <1>2 DEF Pending, Range
  <2>3. \A n \in DOMAIN job.hits : job.hits[n].maker \in Ids
    BY <2>1, TakeableIds DEF HitsSound
  <2>4. \A k : Unpaid(k) \in Nat /\ (k \notin Pending => Unpaid(k) = 0)
    <3> TAKE k
    <3>1. UnpaidIn(job.hits, k) \in Nat
      BY <2>1, UnpaidNat
    <3>2. k \notin Pending => UnpaidIn(job.hits, k) = 0
      BY <2>2, UnpaidIs
    <3> QED BY <1>2, <3>1, <3>2 DEF Unpaid
  <2>5. Pending = {} => job.hits = << >>
    <3>1. job.hits # << >> => 1 \in DOMAIN job.hits
      BY <2>1, HeadTail
    <3> QED BY <2>2, <3>1
  <2> QED BY <2>2, <2>3, <2>4, <2>5
<1> QED BY <1>1, <1>2

\* No claim grows.
LEMMA ClaimsLess ==
  ASSUME SpotTypes, RowsSound, SpotTypes', RowsSound', Ids' = Ids, NEW u, NEW t,
         \A i \in Ids : Claim(i, u, t)' <= Claim(i, u, t)
  PROVE  Claims(u, t)' <= Claims(u, t) /\ Claims(u, t)' \in Int /\ Claims(u, t) \in Int
<1> DEFINE g == [i \in Ids |-> Claim(i, u, t)]
           h == [i \in Ids |-> Claim(i, u, t)']
<1>1. \A i \in Ids : g[i] \in Int /\ g[i] = Claim(i, u, t)
  BY ClaimNat
<1>2. \A i \in Ids : h[i] \in Int /\ h[i] = Claim(i, u, t)'
  BY ClaimNatNext
<1>3. IsFiniteSet(Ids)
  BY IdsFinite
<1>4. Claims(u, t) = SumFunctionOnSet(g, Ids) /\ Claims(u, t)' = SumFunctionOnSet(h, Ids)
  BY DEF Claims
<1> HIDE DEF g, h
<1>5. \A i \in Ids : h[i] \in Int /\ g[i] \in Int /\ h[i] <= g[i]
  BY <1>1, <1>2
<1>6. SumFunctionOnSet(h, Ids) <= SumFunctionOnSet(g, Ids)
  BY <1>3, <1>5, SumMonotone
<1>7. SumFunctionOnSet(h, Ids) \in Int /\ SumFunctionOnSet(g, Ids) \in Int
  BY <1>3, <1>5, SumInt
<1> QED BY <1>4, <1>6, <1>7

LEMMA InterruptInv ==
  ASSUME SpotAssumption, SpotInv, Interrupted, faults' \in 0 .. MaxSpotFaults,
         UNCHANGED <<spotOrders, avail, frozen, wallets>>,
         \/ resting' = resting /\ up' = up /\ ~ToRest
         \/ resting' = << >> /\ up' = FALSE
  PROVE  SpotInv'
<1> DEFINE owner == IF job.pc = "insert" THEN {job.order.user} ELSE {}
<1>1. /\ job # Idle /\ job' = Idle
      /\ cut' = cut \cup Pending \cup (IF job.pc = "insert" THEN {} ELSE {job.id})
      /\ strayLock' = strayLock \cup owner
      /\ lostFills' = lostFills \cup Pending \cup (IF Pending # {} THEN {job.id} ELSE {})
      /\ halfRefunded' = halfRefunded \cup (IF job.pc = "status" THEN {job.id} ELSE {})
  BY DEF Interrupted
<1>2. SpotTypes
  BY DEF SpotInv
<1>3. Ids' = Ids
  BY RowsSame
<1>4. /\ Pending \subseteq Ids /\ \A k : Unpaid(k) \in Nat /\ (k \notin Pending => Unpaid(k) = 0)
      /\ Pending = {} /\ job.pc = "commit" => job.hits = << >>
  BY PendingFacts
<1>5. /\ job.pc \in {"insert", "commit", "status"}
      /\ job.pc = "insert" => job.order \in SpotRow /\ NewRow(job.order)
      /\ job.pc # "insert" => job.id \in Ids /\ InHand = {job.id}
      /\ job.pc = "insert" => InHand = {} /\ Pending = {}
      /\ owner \subseteq Traders
  <2>1. job.pc \in {"insert", "commit", "status"}
    BY <1>1, <1>2 DEF SpotTypes, JobTypes
  <2>2. job.pc = "insert" => job.order \in SpotRow
    BY <1>1, <1>2 DEF SpotTypes, JobTypes
  <2>3. job.pc = "insert" => NewRow(job.order)
    BY DEF SpotInv, JobSound
  <2>4. job.pc # "insert" => job.id \in Ids /\ InHand = {job.id}
    BY <2>1, CommitState, StatusState
  <2>5. job.pc = "insert" => InHand = {} /\ Pending = {}
    BY DEF InHand, Pending
  <2>6. owner \subseteq Traders
    BY <2>2, RowFields
  <2> QED BY <2>1, <2>2, <2>3, <2>4, <2>5, <2>6
<1> HIDE DEF owner
<1>6. /\ cut \subseteq cut' /\ lostFills \subseteq lostFills' /\ Pending \subseteq cut' \cap lostFills'
      /\ InHand \subseteq cut' /\ halfRefunded \subseteq halfRefunded'
      /\ cut' \subseteq Ids /\ lostFills' \subseteq Ids /\ halfRefunded' \subseteq Ids /\ strayLock' \subseteq Traders
      /\ Pending # {} => job.id \in lostFills'
      /\ job.pc = "status" => job.id \in halfRefunded'
  <2>1. cut \subseteq Ids /\ lostFills \subseteq Ids /\ halfRefunded \subseteq Ids /\ strayLock \subseteq Traders
    BY <1>2 DEF SpotTypes
  <2> QED BY <1>1, <1>4, <1>5, <2>1
<1>7. SpotTypes'
  <2>1. JobTypes'
    BY <1>1 DEF JobTypes, Idle
  <2>2. DOMAIN resting' \subseteq Ids' /\ resting' \in [DOMAIN resting' -> Nat] /\ up' \in BOOLEAN
        /\ (up' \/ (job' = Idle /\ DOMAIN resting' = {}))
    <3>1. DOMAIN << >> = {} /\ << >> \in [{} -> Nat]
      OBVIOUS
    <3>2. CASE resting' = resting /\ up' = up
      BY <1>1, <1>2, <1>3, <3>2 DEF SpotTypes
    <3>3. CASE resting' = << >> /\ up' = FALSE
      BY <1>1, <3>1, <3>3
    <3> QED BY <3>2, <3>3
  <2> QED BY <1>2, <1>3, <1>6, <2>1, <2>2 DEF SpotTypes
<1>8. InHand' = {} /\ Closing' = {} /\ (\A k : Unpaid(k)' = 0) /\ \A u, t : Reserved(u, t)' = 0
  BY <1>1 DEF Idle, InHand, Closing, Unpaid, Reserved
<1>9. RowsSound'
  BY <1>3 DEF SpotInv, RowsSound, RowSound, Room, InQuote
<1>10. BookWithin'
  <2> SUFFICES ASSUME NEW k \in DOMAIN resting'
               PROVE  /\ IsLive(k) /\ Restable(spotOrders[k])
                      /\ resting'[k] + 0 <= Room(spotOrders[k])
                      /\ k \notin cut' \cap lostFills' => resting'[k] + 0 = Room(spotOrders[k])
    BY <1>8 DEF BookWithin, IsLive, Restable, Room, InQuote
  <2>1. resting' = resting
    <3>1. DOMAIN << >> = {}
      OBVIOUS
    <3> QED BY <3>1
  <2>2. /\ IsLive(k) /\ Restable(spotOrders[k])
        /\ resting[k] + Unpaid(k) <= Room(spotOrders[k])
        /\ k \notin cut \cap lostFills => resting[k] + Unpaid(k) = Room(spotOrders[k])
    BY <2>1 DEF SpotInv, BookWithin
  <2>3. resting[k] \in Nat /\ Unpaid(k) \in Nat /\ Room(spotOrders[k]) \in Int
    BY <1>2, <1>4, <2>1, RowOf, ResidualRoom DEF SpotTypes
  <2>4. k \notin cut' \cap lostFills' => k \notin Pending /\ k \notin cut \cap lostFills
    BY <1>6
  <2> QED BY <1>4, <2>1, <2>2, <2>3, <2>4
<1>11. LiveInBook'
  <2> SUFFICES ASSUME up', NEW k \in Ids, IsLive(k)
               PROVE  /\ k \notin cut' => k \in DOMAIN resting'
                      /\ RestsWith(spotOrders[k]) /\ lostFills' = {} => k \in DOMAIN resting'
    BY <1>3 DEF LiveInBook, IsLive, RestsWith
  <2>1. up /\ resting' = resting /\ ~ToRest
    OBVIOUS
  <2>2. k \notin cut' => k \in DOMAIN resting'
    BY <1>6, <2>1 DEF SpotInv, LiveInBook
  <2>3. ASSUME RestsWith(spotOrders[k]), lostFills' = {}
        PROVE  k \in DOMAIN resting'
    <3>1. lostFills = {} /\ Pending = {}
      BY <1>6, <2>3
    <3>2. k \notin InHand
      <4> SUFFICES ASSUME k \in InHand PROVE FALSE
        OBVIOUS
      <4>1. k = job.id /\ job.pc # "status" /\ job.pc = "commit"
        BY <1>5, <2>3, StatusState
      <4>2. Finished
        BY <1>4, <3>1, <4>1 DEF Finished
      <4>3. Room(spotOrders[k]) = job.left
        BY <4>1, <4>2, FinishedState
      <4>4. Room(spotOrders[k]) > 0
        BY <2>3 DEF SpotInv, RowsSound, RowSound, IsLive, RestsWith
      <4> QED BY <2>1, <2>3, <4>1, <4>2, <4>3, <4>4 DEF ToRest
    <3> QED BY <2>1, <2>3, <3>1, <3>2 DEF SpotInv, LiveInBook
  <2> QED BY <2>2, <2>3
<1>12. RowsUncrossed'
  <2> SUFFICES ASSUME lostFills' = {}, NEW a \in Ids, NEW b \in Ids, IsLive(a), IsLive(b),
                      RestsWith(spotOrders[a]), RestsWith(spotOrders[b]),
                      spotOrders[a].side = "buy", spotOrders[b].side = "sell"
               PROVE  spotOrders[a].price < spotOrders[b].price
    BY <1>3 DEF RowsUncrossed, IsLive, RestsWith
  <2>1. lostFills = {} /\ (job.pc = "commit" => job.hits = << >>)
    BY <1>4, <1>6
  <2> QED BY <2>1, AllUncrossed
<1>13. \A k \in InHand \ lostFills' : spotOrders[k].status = "filled" => Room(spotOrders[k]) = 0
  <2> SUFFICES ASSUME NEW k \in InHand \ lostFills', spotOrders[k].status = "filled" PROVE Room(spotOrders[k]) = 0
    OBVIOUS
  <2>1. k = job.id /\ job.pc # "insert" /\ Pending = {}
    BY <1>5, <1>6
  <2>2. CASE job.pc = "status"
    BY <2>1, <2>2, StatusState
  <2>3. CASE job.pc = "commit"
    <3>1. Finished
      BY <1>4, <2>1, <2>3 DEF Finished
    <3> QED BY <2>1, <2>3, <3>1, CommitState, FinishedState
  <2> QED BY <1>5, <2>1, <2>2, <2>3
<1>14. FilledSound'
  <2> SUFFICES ASSUME NEW k \in Ids \ lostFills', spotOrders[k].status = "filled" PROVE Room(spotOrders[k]) = 0
    BY <1>3, <1>8 DEF FilledSound, Room, InQuote
  <2> QED BY <1>6, <1>13 DEF SpotInv, FilledSound
<1>15. JobSound'
  BY <1>1 DEF JobSound, Idle
<1>16. MoneySound'
  <2> SUFFICES ASSUME NEW u \in Traders, NotHalf(u)'
               PROVE  /\ \A t \in Tokens : (Claims(u, t) + Reserved(u, t) <= frozen[u][t])'
                      /\ lostFills' = {} /\ u \notin strayLock' =>
                            frozen'[u]["base"] = Claims(u, "base")' + Reserved(u, "base")'
    BY DEF MoneySound
  <2>1. NotHalf(u) /\ (job.pc = "status" => spotOrders[job.id].user # u)
    BY <1>6 DEF NotHalf
  <2>2. \A t, k : Claim(k, u, t)' = IF IsLive(k) /\ spotOrders[k].user = u /\ LockToken(spotOrders[k]) = t
                                    THEN Residual(spotOrders[k]) ELSE 0
    BY <1>8 DEF Claim, Counted, IsLive, LockToken, Residual
  <2>3. \A t, k : k \notin InHand => Claim(k, u, t)' = Claim(k, u, t)
    <3>1. \A k : k \notin InHand => k \notin Closing
      BY DEF InHand, Closing
    <3> QED BY <2>2, <3>1 DEF Claim, Counted
  <2>4. \A k \in InHand : IsLive(k) \/ Room(spotOrders[k]) = 0 \/ k \in lostFills' \/ job.pc = "status"
    <3> TAKE k \in InHand
    <3>1. spotOrders[k] \in SpotRow /\ k = job.id
      BY <1>2, <1>5, RowOf
    <3>2. job.pc = "commit" => spotOrders[k].status # "canceled"
      BY <3>1, CommitState
    <3>3. spotOrders[k].status \in SpotStatuses
      BY <3>1, RowFields
    <3> QED BY <1>5, <1>13, <3>2, <3>3 DEF IsLive, Live, SpotStatuses
  <2>5. \A t : \A k \in InHand : /\ Claim(k, u, t)' <= Claim(k, u, t)
                                 /\ lostFills' = {} => Claim(k, u, t)' = Claim(k, u, t)
    <3> TAKE t
    <3> SUFFICES ASSUME NEW k \in InHand
                 PROVE  /\ Claim(k, u, t)' <= Claim(k, u, t)
                        /\ lostFills' = {} => Claim(k, u, t)' = Claim(k, u, t)
      OBVIOUS
    <3>1. k = job.id /\ k \in Ids /\ job.pc # "insert"
      BY <1>5
    <3>2. Residual(spotOrders[k]) \in Nat /\ (Room(spotOrders[k]) = 0 => Residual(spotOrders[k]) = 0)
      BY <1>2, <3>1, RowOf, ResidualNat DEF SpotInv, RowsSound, RowSound
    <3>3. CASE job.pc = "status"
      <4>1. Claim(k, u, t)' = 0 /\ Claim(k, u, t) = 0
        BY <2>1, <2>2, <3>1, <3>3 DEF Claim
      <4> QED BY <4>1
    <3>4. CASE job.pc = "commit"
      <4>1. Counted(k)
        BY <3>1, <3>4, CommitState DEF Counted
      <4>2. Claim(k, u, t) = IF spotOrders[k].user = u /\ LockToken(spotOrders[k]) = t
                             THEN Residual(spotOrders[k]) ELSE 0
        BY <4>1 DEF Claim
      <4>3. lostFills' = {} => IsLive(k) \/ Residual(spotOrders[k]) = 0
        BY <2>4, <3>2, <3>4
      <4> QED BY <2>2, <3>2, <4>2, <4>3
    <3> QED BY <1>5, <3>1, <3>3, <3>4
  <2>6. \A t : \A k \in Ids : Claim(k, u, t) \in Nat
    BY <1>2, ClaimNat DEF SpotInv
  <2>7. \A t : Claims(u, t)' <= Claims(u, t) /\ Claims(u, t)' \in Int /\ Claims(u, t) \in Int
    <3> TAKE t
    <3>1. \A k \in Ids : Claim(k, u, t)' <= Claim(k, u, t)
      BY <2>3, <2>5, <2>6
    <3> QED BY <1>2, <1>3, <1>7, <1>9, <3>1, ClaimsLess DEF SpotInv
  <2>8. lostFills' = {} => \A t : Claims(u, t)' = Claims(u, t)
    <3> SUFFICES ASSUME lostFills' = {}, NEW t PROVE Claims(u, t)' = Claims(u, t)
      OBVIOUS
    <3>1. \A k \in Ids : Claim(k, u, t)' = Claim(k, u, t)
      BY <2>3, <2>5
    <3> QED BY <1>3, <3>1, ClaimsSame
  <2>9. \A t : Reserved(u, t) \in Nat /\ (u \notin strayLock' => Reserved(u, t) = 0)
    <3>1. job.pc = "insert" => LockOf(job.order) \in Nat /\ job.order.user \in strayLock'
      BY <1>1, <1>5, NewLock DEF owner
    <3> QED BY <3>1 DEF Reserved
  <2>10. /\ \A t \in Tokens : Claims(u, t) + Reserved(u, t) <= frozen[u][t]
         /\ lostFills = {} /\ u \notin strayLock => frozen[u]["base"] = Claims(u, "base") + Reserved(u, "base")
    BY <2>1 DEF SpotInv, MoneySound
  <2>11. \A t \in Tokens : frozen[u][t] \in Int
    BY <1>2 DEF SpotTypes
  <2>12. \A t \in Tokens : Claims(u, t)' + Reserved(u, t)' <= frozen[u][t]
    BY <1>8, <2>7, <2>9, <2>10, <2>11
  <2>13. lostFills' = {} /\ u \notin strayLock' => frozen[u]["base"] = Claims(u, "base")' + Reserved(u, "base")'
    <3> SUFFICES ASSUME lostFills' = {}, u \notin strayLock'
                 PROVE  frozen[u]["base"] = Claims(u, "base")' + Reserved(u, "base")'
      OBVIOUS
    <3>1. lostFills = {} /\ u \notin strayLock
      BY <1>1, <1>6
    <3>2. Reserved(u, "base") = 0 /\ Reserved(u, "base")' = 0 /\ Claims(u, "base")' = Claims(u, "base")
      BY <1>8, <2>8, <2>9
    <3> QED BY <2>10, <3>1, <3>2
  <2> QED BY <2>12, <2>13
<1> QED BY <1>7, <1>9, <1>10, <1>11, <1>12, <1>14, <1>15, <1>16 DEF SpotInv

LEMMA StatementFailsInv ==
  ASSUME SpotAssumption, SpotInv, StatementFails
  PROVE  SpotInv'
<1>1. /\ Interrupted /\ ~ToRest /\ UNCHANGED <<spotOrders, avail, frozen, resting, up, wallets>>
      /\ (faults' = faults \/ (faults < MaxSpotFaults /\ faults' = faults + 1))
  BY DEF StatementFails
<1>2. faults \in 0 .. MaxSpotFaults /\ MaxSpotFaults \in Nat
  BY DEF SpotInv, SpotTypes, SpotAssumption
<1>3. faults' \in 0 .. MaxSpotFaults
  BY <1>1, <1>2
<1> QED BY <1>1, <1>3, InterruptInv

LEMMA SpotCrashInv ==
  ASSUME SpotAssumption, SpotInv, SpotCrash
  PROVE  SpotInv'
<1>1. /\ up /\ faults < MaxSpotFaults /\ faults' = faults + 1 /\ up' = FALSE /\ resting' = << >>
      /\ UNCHANGED <<spotOrders, avail, frozen, wallets>>
      /\ (job = Idle /\ UNCHANGED <<job, histories>>) \/ Interrupted
  BY DEF SpotCrash
<1>2. faults' \in 0 .. MaxSpotFaults
  <2>1. faults \in 0 .. MaxSpotFaults /\ MaxSpotFaults \in Nat
    BY DEF SpotInv, SpotTypes, SpotAssumption
  <2> QED BY <1>1, <2>1
<1>3. CASE Interrupted
  BY <1>1, <1>2, <1>3, InterruptInv
<1>4. CASE job = Idle /\ UNCHANGED <<job, histories>>
  <2>1. job' = Idle /\ UNCHANGED <<cut, lostFills, halfRefunded, strayLock>>
    BY <1>4 DEF histories
  <2>2. SpotTypes
    BY DEF SpotInv
  <2>3. InHand = {} /\ InHand' = {} /\ Closing' = Closing /\ \A u, t : Reserved(u, t)' = Reserved(u, t)
    BY <1>4 DEF InHand, Closing, Reserved, Idle
  <2>4. Ids' = Ids
    BY <1>1, RowsSame
  <2>5. DOMAIN resting' = {} /\ resting' \in [{} -> Nat]
    <3>1. DOMAIN << >> = {} /\ << >> \in [{} -> Nat]
      OBVIOUS
    <3> QED BY <1>1, <3>1
  <2>6. SpotTypes'
    <3>1. JobTypes'
      BY <2>1 DEF JobTypes
    <3> QED BY <1>1, <1>2, <2>1, <2>2, <2>4, <2>5, <3>1 DEF SpotTypes
  <2>7. RowsSound'
    BY <1>1, <2>4 DEF SpotInv, RowsSound, RowSound, Room, InQuote
  <2>8. BookWithin' /\ LiveInBook'
    BY <1>1, <2>5 DEF BookWithin, LiveInBook
  <2>9. RowsUncrossed'
    BY <1>1, <2>1, <2>3, <2>4 DEF SpotInv, RowsUncrossed, IsLive, RestsWith
  <2>10. FilledSound'
    BY <1>1, <2>1, <2>3, <2>4 DEF SpotInv, FilledSound, Room, InQuote
  <2>11. JobSound'
    BY <2>1 DEF JobSound, Idle
  <2>12. MoneySound'
    <3>1. \A i \in Ids : Counted(i)' <=> Counted(i)
      BY <1>1, <2>3 DEF Counted, IsLive
    <3> QED BY <1>1, <2>1, <2>3, <3>1, MoneyKept
  <2> QED BY <2>6, <2>7, <2>8, <2>9, <2>10, <2>11, <2>12 DEF SpotInv
<1> QED BY <1>1, <1>3, <1>4

-----------------------------------------------------------------------------
(* A new row, and the sweep over the book. *)

\* What a sequence of hits spends, and whom it may hit, hang on fixed fields only.
LEMMA SpentSame ==
  ASSUME NEW o, NEW r, SameOrder(o, r), NEW hits,
         \A n \in DOMAIN hits : spotOrders'[hits[n].maker].price = spotOrders[hits[n].maker].price
  PROVE  SpentBy(r, hits)' = SpentBy(o, hits)
<1>1. InQuote(r) <=> InQuote(o)
  BY SameOrderFacts
<1>2. \A n \in DOMAIN hits : SpentOf(r, hits[n])' = SpentOf(o, hits[n])
  BY <1>1 DEF SpentOf, InQuote
<1>3. [n \in DOMAIN hits |-> SpentOf(r, hits[n])'] = [n \in DOMAIN hits |-> SpentOf(o, hits[n])]
  BY <1>2
<1> QED BY <1>3 DEF SpentBy, Spents

LEMMA TakeableSame ==
  ASSUME NEW o, NEW r, SameOrder(o, r), DOMAIN resting' \subseteq DOMAIN resting,
         \A k \in DOMAIN resting : /\ spotOrders'[k].side = spotOrders[k].side
                                   /\ spotOrders'[k].price = spotOrders[k].price
  PROVE  Takeable(r)' = Takeable(o) \cap DOMAIN resting'
<1>1. r.side = o.side /\ \A p : Reaches(r, p) <=> Reaches(o, p)
  BY SameOrderFacts DEF SameOrder
<1>2. Takeable(r)' = {k \in DOMAIN resting' : spotOrders'[k].side # r.side /\ Reaches(r, spotOrders'[k].price)}
  BY DEF Takeable, Reaches
<1> QED BY <1>1, <1>2 DEF Takeable

LEMMA JobSoundNext ==
  ASSUME NEW n, NEW o, NEW hits, NEW spare,
         job' = [pc |-> "commit", id |-> n, hits |-> hits, left |-> spare], spotOrders'[n] = o,
         n \notin cut', n \notin lostFills', o.status # "canceled", o.status = "filled" => spare = 0,
         Room(o) = spare + SpentBy(o, hits)', HitsSound(o, hits)', SweptAll(o, hits, spare)'
  PROVE  JobSound'
<1>1. job'.pc = "commit" /\ job'.id = n /\ job'.hits = hits /\ job'.left = spare
  OBVIOUS
<1>3. HitsSound(spotOrders[job.id], job.hits)'
  BY <1>1 DEF HitsSound, Takeable, Reaches
<1>4. SweptAll(spotOrders[job.id], job.hits, job.left)'
  BY <1>1 DEF SweptAll, Takeable, Reaches
<1>5. Room(spotOrders[job.id])' = job'.left + SpentBy(spotOrders[job.id], job.hits)'
  <2>1. SpentBy(spotOrders[job.id], job.hits)' = SpentBy(o, hits)'
    BY <1>1 DEF SpentBy, Spents, SpentOf, InQuote
  <2> QED BY <1>1, <2>1 DEF Room, InQuote
<1> QED BY <1>1, <1>3, <1>4, <1>5 DEF JobSound
\* The sweep over the book: every maker keeps what is not taken of it.
AfterSweep(hits) == [i \in DOMAIN resting |->
                  IF \E h \in Range(hits) : h.maker = i
                  THEN (CHOOSE h \in Range(hits) : h.maker = i).after ELSE resting[i]]

LEMMA BookSwept ==
  ASSUME SpotTypes, NEW o, NEW w, SweptOver(o, w, Takeable(o)),
         resting' = AfterSweep(w.hits)
  PROVE  /\ DOMAIN resting' = DOMAIN resting /\ resting' \in [DOMAIN resting -> Nat]
         /\ \A n \in DOMAIN w.hits : resting'[w.hits[n].maker] = w.hits[n].after
         /\ \A i \in DOMAIN resting : resting'[i] + UnpaidIn(w.hits, i) = resting[i]
<1> USE DEF AfterSweep
<1>1. w.hits \in Seq(SpotHit) /\ \A n \in DOMAIN w.hits : OneHit(w.hits, Takeable(o), n)
  BY DEF SweptOver
<1>2. \A n \in DOMAIN w.hits : /\ w.hits[n].maker \in DOMAIN resting
                               /\ w.hits[n].qty + w.hits[n].after = resting[w.hits[n].maker]
                               /\ \A m \in DOMAIN w.hits : w.hits[m].maker = w.hits[n].maker => m = n
                               /\ w.hits[n].qty \in Nat /\ w.hits[n].after \in Nat
  BY <1>1, TakeableIds, HitAt DEF OneHit
<1>3. \A i \in DOMAIN resting : resting[i] \in Nat
  BY DEF SpotTypes
<1>4. Range(w.hits) = {w.hits[n] : n \in DOMAIN w.hits}
  BY DEF Range
<1>5. \A n \in DOMAIN w.hits : resting'[w.hits[n].maker] = w.hits[n].after
  <2> TAKE n \in DOMAIN w.hits
  <2> DEFINE i == w.hits[n].maker
             h == CHOOSE x \in Range(w.hits) : x.maker = i
  <2>1. w.hits[n] \in Range(w.hits) /\ i \in DOMAIN resting
    BY <1>2, <1>4
  <2>2. h \in Range(w.hits) /\ h.maker = i
    <3>1. \E x \in Range(w.hits) : x.maker = i
      BY <2>1
    <3> QED BY <3>1
  <2>3. PICK m \in DOMAIN w.hits : h = w.hits[m]
    BY <1>4, <2>2
  <2>4. h = w.hits[n]
    BY <1>2, <2>2, <2>3
  <2>5. resting'[i] = h.after
    BY <2>1
  <2> QED BY <2>4, <2>5
<1>6. \A i \in DOMAIN resting : (\A n \in DOMAIN w.hits : w.hits[n].maker # i) => resting'[i] = resting[i]
  BY <1>4
<1>7. \A i \in DOMAIN resting : resting'[i] + UnpaidIn(w.hits, i) = resting[i] /\ resting'[i] \in Nat
  <2> TAKE i \in DOMAIN resting
  <2>1. CASE \A n \in DOMAIN w.hits : w.hits[n].maker # i
    BY <1>3, <1>6, <2>1, UnpaidIs
  <2>2. CASE \E n \in DOMAIN w.hits : w.hits[n].maker = i
    <3>1. PICK n \in DOMAIN w.hits : w.hits[n].maker = i
      BY <2>2
    <3>2. UnpaidIn(w.hits, i) = w.hits[n].qty
      BY <1>2, <3>1, UnpaidIs
    <3>3. resting'[i] = w.hits[n].after
      BY <1>5, <3>1
    <3> QED BY <1>2, <3>1, <3>2, <3>3
  <2> QED BY <2>1, <2>2
<1>8. DOMAIN resting' = DOMAIN resting
  OBVIOUS
<1>9. resting' \in [DOMAIN resting -> Nat]
  <2>1. resting' = [i \in DOMAIN resting |-> resting'[i]]
    OBVIOUS
  <2> QED BY <1>7, <2>1
<1> QED BY <1>5, <1>7, <1>8, <1>9

LEMMA InsertAndMatchInv ==
  ASSUME SpotAssumption, SpotInv, InsertAndMatch
  PROVE  SpotInv'
<1>2. SpotTypes
  BY DEF SpotInv
<1>3. job.pc = "insert"
  BY DEF InsertAndMatch
<1>4. job.order \in SpotRow /\ NewRow(job.order) /\ up
  <2>1. job # Idle /\ job.pc # "commit" /\ job.pc # "status"
    BY <1>3 DEF Idle
  <2>2. job \in [pc : {"insert"}, order : SpotRow]
    BY <1>2, <2>1, <1>3 DEF SpotTypes, JobTypes
  <2> QED BY <1>2, <1>3, <2>1, <2>2 DEF SpotInv, JobSound, SpotTypes
<1>0. PICK o \in SpotRow : job.order = o
  BY <1>4
<1>00. PICK w \in {Matched(o)} : TRUE
  OBVIOUS
<1>5. Len(spotOrders) \in Nat
  BY <1>2, IdsFinite
<1>000. PICK n \in Nat : n = Len(spotOrders) + 1
  BY <1>5
<1>1. /\ spotOrders' = Append(spotOrders, o)
      /\ job' = [pc |-> "commit", id |-> n, hits |-> w.hits, left |-> w.left]
      /\ resting' = AfterSweep(w.hits)
      /\ UNCHANGED <<avail, frozen, up, faults, wallets, histories>>
  BY <1>0, <1>00, <1>000 DEF InsertAndMatch, AfterSweep
<1>6. /\ spotOrders' \in Seq(SpotRow) /\ Ids' = Ids \cup {n} /\ n \notin Ids /\ spotOrders'[n] = o
      /\ \A k \in Ids : spotOrders'[k] = spotOrders[k]
  <2>1. spotOrders \in Seq(SpotRow)
    BY <1>2 DEF SpotTypes
  <2>2. /\ Append(spotOrders, o) \in Seq(SpotRow) /\ Len(Append(spotOrders, o)) = n
        /\ Append(spotOrders, o)[n] = o /\ \A k \in 1 .. Len(spotOrders) : Append(spotOrders, o)[k] = spotOrders[k]
    BY <1>000, <2>1
  <2> QED BY <1>1, <1>5, <1>000, <2>2 DEF Ids
<1>7. UNCHANGED <<cut, lostFills, halfRefunded, strayLock>>
  BY <1>1 DEF histories
<1>8. InHand = {} /\ Closing = {} /\ (\A k : Unpaid(k) = 0)
      /\ \A u, t : Reserved(u, t) = IF o.user = u /\ LockToken(o) = t THEN LockOf(o) ELSE 0
  BY <1>0, <1>3 DEF InHand, Closing, Unpaid, Reserved
<1>9. \A i \in DOMAIN resting : i \in Ids /\ spotOrders[i].price > 0 /\ IsLive(i) /\ Restable(spotOrders[i])
  <2> TAKE i \in DOMAIN resting
  <2>1. i \in Ids /\ IsLive(i) /\ Restable(spotOrders[i])
    BY <1>2 DEF SpotInv, BookWithin, SpotTypes
  <2> QED BY <2>1 DEF SpotInv, RowsSound, RowSound, Restable
<1>10. SweptOver(o, w, Takeable(o))
  <2>1. \A i \in Takeable(o) : spotOrders[i].price > 0
    BY <1>2, <1>9, TakeableIds
  <2> QED BY <1>2, <1>00, <2>1, MatchedOver
<1>11. /\ w.hits \in Seq(SpotHit) /\ w.left \in Nat /\ o.qty = w.left + SpentBy(o, w.hits)
       /\ o.tif # "market" /\ w.left > 0 => \A i \in Takeable(o) : UsedUp(w.hits, i)
       /\ \A m \in DOMAIN w.hits : OneHit(w.hits, Takeable(o), m)
  BY <1>10 DEF SweptOver
<1>12. /\ DOMAIN resting' = DOMAIN resting /\ resting' \in [DOMAIN resting -> Nat]
       /\ \A m \in DOMAIN w.hits : resting'[w.hits[m].maker] = w.hits[m].after
       /\ \A i \in DOMAIN resting : resting'[i] + UnpaidIn(w.hits, i) = resting[i]
  BY <1>1, <1>2, <1>10, BookSwept
<1>13. InHand' = {n} /\ Closing' = {} /\ (\A k : Unpaid(k)' = UnpaidIn(w.hits, k)) /\ \A u, t : Reserved(u, t)' = 0
  BY <1>1 DEF InHand, Closing, Unpaid, Reserved, UnpaidIn, HitsOn
<1>14. SpotTypes'
  <2>1. JobTypes'
    <3>1. job' \in [pc : {"commit"}, id : Ids', hits : Seq(SpotHit), left : Nat]
      BY <1>1, <1>6, <1>11
    <3> QED BY <3>1 DEF JobTypes
  <2>2. DOMAIN resting' \subseteq Ids' /\ Ids \subseteq Ids'
    BY <1>6, <1>9, <1>12
  <2> QED BY <1>1, <1>2, <1>4, <1>6, <1>7, <1>12, <2>1, <2>2 DEF SpotTypes
<1>15. RowsSound'
  <2> SUFFICES ASSUME NEW k \in Ids' PROVE RowSound(spotOrders[k])'
    BY DEF RowsSound
  <2>1. CASE k = n
    <3>1. RowSound(o)
      BY <1>0, <1>4 DEF NewRow
    <3> QED BY <1>6, <2>1, <3>1 DEF RowSound, Room, InQuote
  <2>2. CASE k # n
    BY <1>6, <2>2 DEF SpotInv, RowsSound, RowSound, Room, InQuote
  <2> QED BY <2>1, <2>2
<1>16. BookWithin'
  <2> SUFFICES ASSUME NEW k \in DOMAIN resting
               PROVE  /\ k # n /\ IsLive(k) /\ Restable(spotOrders[k])
                      /\ resting'[k] + UnpaidIn(w.hits, k) <= Room(spotOrders[k])
                      /\ k \notin cut \cap lostFills => resting'[k] + UnpaidIn(w.hits, k) = Room(spotOrders[k])
    <3>1. \A k \in DOMAIN resting : spotOrders'[k] = spotOrders[k]
      BY <1>6, <1>9
    <3> QED BY <1>7, <1>12, <1>13, <3>1 DEF BookWithin, IsLive, Restable, Room, InQuote
  <2>1. /\ resting[k] + 0 <= Room(spotOrders[k])
        /\ k \notin cut \cap lostFills => resting[k] + 0 = Room(spotOrders[k])
    BY <1>8 DEF SpotInv, BookWithin
  <2>2. resting[k] \in Nat /\ resting'[k] + UnpaidIn(w.hits, k) = resting[k]
    BY <1>2, <1>12 DEF SpotTypes
  <2> QED BY <1>6, <1>9, <2>1, <2>2
<1>17. \A k \in Ids' \ InHand' : k \in Ids \ InHand /\ spotOrders'[k] = spotOrders[k]
  BY <1>6, <1>8, <1>13
<1>18. LiveInBook'
  BY <1>1, <1>7, <1>12, <1>17 DEF SpotInv, LiveInBook, IsLive, RestsWith
<1>19. RowsUncrossed'
  BY <1>7, <1>17 DEF SpotInv, RowsUncrossed, IsLive, RestsWith
<1>20. FilledSound'
  BY <1>7, <1>17 DEF SpotInv, FilledSound, Room, InQuote
<1>21. Takeable(o)' = Takeable(o)
  <2>1. SameOrder(o, o)
    BY DEF SameOrder
  <2>2. Takeable(o)' = Takeable(o) \cap DOMAIN resting'
    BY <1>6, <1>9, <1>12, <2>1, TakeableSame
  <2> QED BY <1>2, <1>12, <2>2, TakeableIds
<1>22. JobSound'
  <2>1. n \notin cut' /\ n \notin lostFills'
    BY <1>2, <1>6, <1>7 DEF SpotTypes
  <2>2. o.status # "canceled" /\ o.status # "filled"
    BY <1>0, <1>4 DEF NewRow
  <2>3. SpentBy(o, w.hits)' = SpentBy(o, w.hits)
    <3>1. SameOrder(o, o)
      BY DEF SameOrder
    <3>2. \A m \in DOMAIN w.hits : w.hits[m].maker \in Ids
      BY <1>2, <1>11, TakeableIds DEF OneHit
    <3> QED BY <1>6, <3>1, <3>2, SpentSame
  <2>4. Room(o) = w.left + SpentBy(o, w.hits)'
    <3>1. Room(o) = o.qty
      BY <1>0, <1>4, RowFields DEF NewRow, Room
    <3> QED BY <1>11, <2>3, <3>1
  <2>5. HitsSound(o, w.hits)'
    <3> SUFFICES ASSUME NEW m \in DOMAIN w.hits
                 PROVE  /\ w.hits[m].maker \in Takeable(o)' /\ resting'[w.hits[m].maker] = w.hits[m].after
                        /\ \A k \in DOMAIN w.hits : w.hits[k].maker = w.hits[m].maker => k = m
      BY DEF HitsSound
    <3> QED BY <1>11, <1>12, <1>21 DEF OneHit
  <2>6. SweptAll(o, w.hits, w.left)'
    <3> SUFFICES ASSUME o.tif # "market", w.left > 0, NEW i \in Takeable(o)'
                 PROVE  \E m \in DOMAIN w.hits : w.hits[m].maker = i /\ w.hits[m].after = 0
      BY DEF SweptAll
    <3> QED BY <1>11, <1>21 DEF UsedUp
  <2> QED BY <1>1, <1>6, <2>1, <2>2, <2>4, <2>5, <2>6, JobSoundNext
<1>23. MoneySound'
  <2> SUFFICES ASSUME NEW u \in Traders, NotHalf(u)'
               PROVE  /\ \A t \in Tokens : (Claims(u, t) + Reserved(u, t) <= frozen[u][t])'
                      /\ lostFills' = {} /\ u \notin strayLock' =>
                            frozen'[u]["base"] = Claims(u, "base")' + Reserved(u, "base")'
    BY DEF MoneySound
  <2>1. NotHalf(u)
    <3>1. halfRefunded \subseteq Ids
      BY <1>2 DEF SpotTypes
    <3> QED BY <1>6, <1>7, <3>1 DEF NotHalf
  <2>2. \A t \in Tokens : Claims(u, t)' = Claims(u, t) + Reserved(u, t)
    <3> TAKE t \in Tokens
    <3>1. \A i \in Ids : Claim(i, u, t)' = Claim(i, u, t)
      <4> TAKE i \in Ids
      <4>1. spotOrders'[i] = spotOrders[i] /\ i # n
        BY <1>6
      <4> QED BY <1>8, <1>13, <4>1 DEF Claim, Counted, IsLive, LockToken, Residual
    <3>2. Claim(n, u, t)' = IF o.user = u /\ LockToken(o) = t THEN Residual(o) ELSE 0
      BY <1>6, <1>13 DEF Claim, Counted, LockToken, Residual
    <3>3. Residual(o) = LockOf(o)
      BY <1>0, <1>4, NewLock
    <3>4. Claims(u, t)' = Claims(u, t) + Claim(n, u, t)'
      BY <1>2, <1>6, <1>14, <1>15, <3>1, ClaimsGrow DEF SpotInv
    <3> QED BY <1>8, <3>2, <3>3, <3>4
  <2>3. \A t \in Tokens : Claims(u, t) \in Nat /\ Reserved(u, t) \in Nat
    <3>1. LockOf(o) \in Nat
      BY <1>0, <1>4, NewLock
    <3>2. \A t : Claims(u, t) \in Nat
      BY <1>2, ClaimsInt DEF SpotInv
    <3> QED BY <1>8, <3>1, <3>2
  <2>4. /\ \A t \in Tokens : Claims(u, t) + Reserved(u, t) <= frozen[u][t]
        /\ lostFills = {} /\ u \notin strayLock => frozen[u]["base"] = Claims(u, "base") + Reserved(u, "base")
    BY <2>1 DEF SpotInv, MoneySound
  <2>5. "base" \in Tokens
    BY DEF Tokens
  <2>6. \A t \in Tokens : Claims(u, t)' + Reserved(u, t)' = Claims(u, t) + Reserved(u, t)
    BY <1>13, <2>2, <2>3
  <2> QED BY <1>1, <1>7, <2>4, <2>5, <2>6
<1> QED BY <1>14, <1>15, <1>16, <1>18, <1>19, <1>20, <1>22, <1>23 DEF SpotInv

-----------------------------------------------------------------------------
(* A hit is committed. *)

\* What a fill of hit h at a price takes out of the lock of an order.
DueFor(o, h, price) == IF o.side = "buy" THEN h.qty * price ELSE h.qty

\* The row of an order after a fill, with its status.
Traded(o, h, price, st) == [o EXCEPT !.filled = @ + h.qty, !.paid = @ + h.qty * price, !.status = st]

LEMMA FilledFacts ==
  ASSUME NEW o \in SpotRow, NEW h \in SpotHit, NEW price \in Nat, NEW st \in SpotStatuses,
         NEW r, r = Traded(o, h, price, st)
  PROVE  /\ r \in SpotRow /\ SameOrder(o, r) /\ r.status = st
         /\ Room(r) = Room(o) - (IF InQuote(o) THEN h.qty * price ELSE h.qty)
<1>1. h.qty \in Nat /\ h.qty * price \in Nat
  BY TimesNat DEF SpotHit
<1>2. o.filled \in Nat /\ o.paid \in Nat /\ o.qty \in Nat
  BY RowFields
<1>3. PICK f \in Nat, p \in Nat, x \in Nat : f = o.filled + h.qty /\ p = o.paid + h.qty * price /\ x = h.qty * price
  BY <1>1, <1>2
<1>5. r = [o EXCEPT !.filled = f, !.paid = p, !.status = st]
  BY <1>3 DEF Traded
<1>6. r \in SpotRow /\ SameOrder(o, r) /\ r.status = st /\ r.filled = f /\ r.paid = p
  BY <1>3, <1>5 DEF SpotRow, SameOrder
<1>7. Room(r) = Room(o) - (IF InQuote(o) THEN x ELSE h.qty)
  <2>1. InQuote(r) <=> InQuote(o)
    BY <1>6, SameOrderFacts
  <2>2. r.qty = o.qty
    BY <1>6 DEF SameOrder
  <2>3. p = o.paid + x
    BY <1>3
  <2> QED BY <1>1, <1>2, <1>3, <1>6, <2>1, <2>2, <2>3 DEF Room
<1> QED BY <1>3, <1>6, <1>7

\* What the order still claims is less by at least what it paid.
LEMMA FilledClaim ==
  ASSUME NEW o \in SpotRow, NEW h \in SpotHit, NEW price \in Nat,
         NEW r \in SpotRow, SameOrder(o, r), Room(r) = Room(o) - (IF InQuote(o) THEN h.qty * price ELSE h.qty),
         o.side = "buy" /\ o.tif # "market" => price <= o.price
  PROVE  /\ DueFor(o, h, price) \in Nat
         /\ Residual(r) <= Residual(o) - DueFor(o, h, price)
         /\ o.side = "sell" => Residual(r) = Residual(o) - DueFor(o, h, price)
<1>1. h.qty \in Nat /\ h.qty * price \in Nat /\ o.price \in Nat /\ o.side \in {"buy", "sell"}
  BY TimesNat, RowFields DEF SpotHit
<1>2. /\ Residual(o) = Rate(o) * Room(o) /\ Residual(r) = Rate(o) * Room(r) /\ Rate(o) \in Nat
      /\ Room(o) \in Int /\ Room(r) \in Int
  BY ResidualRoom, SameOrderFacts
<1>3. PICK d \in Nat : d = DueFor(o, h, price)
  BY <1>1 DEF DueFor
<1>4. PICK q \in Nat, a \in Int, b \in Int, p \in Nat :
         q = h.qty /\ a = Room(o) /\ b = Room(r) /\ p = o.price
  BY <1>1, <1>2
<1>5. CASE o.side = "sell"
  <2>1. Rate(o) = 1 /\ b = a - q /\ d = q
    BY <1>3, <1>4, <1>5 DEF Rate, DueFor, InQuote
  <2> QED BY <1>2, <1>3, <1>4, <2>1
<1>6. CASE o.side = "buy" /\ o.tif = "market"
  <2>1. Rate(o) = 1 /\ b = a - d
    BY <1>3, <1>4, <1>6 DEF Rate, DueFor, InQuote
  <2> QED BY <1>2, <1>3, <1>4, <1>6, <2>1
<1>7. CASE o.side = "buy" /\ o.tif # "market"
  <2>1. Rate(o) = p /\ b = a - q /\ d = q * price /\ price <= p
    BY <1>3, <1>4, <1>7 DEF Rate, DueFor, InQuote
  <2>2. p * b = p * a - p * q
    BY <2>1
  <2>3. price * q <= p * q /\ price * q = q * price /\ p * q \in Nat /\ p * a \in Int
    BY <2>1, TimesLess
  <2>4. p * b <= p * a - d
    BY <2>1, <2>2, <2>3
  <2> QED BY <1>2, <1>3, <1>4, <1>7, <2>1, <2>4
<1> QED BY <1>1, <1>5, <1>6, <1>7

\* Amounts move in the accounts of two traders, who may be the same.
PaidOut(f, s, b, x, y) == [[f EXCEPT ![s].base = @ - x] EXCEPT ![b].quote = @ - y]
PaidIn(f, s, b, x, y) == [[f EXCEPT ![s].quote = @ + y] EXCEPT ![b].base = @ + x]

LEMMA MovedOut ==
  ASSUME NEW f \in [Traders -> [Tokens -> Int]], NEW s \in Traders, NEW b \in Traders,
         NEW x \in Int, NEW y \in Int, NEW g,
         g = PaidOut(f, s, b, x, y)
  PROVE  /\ g \in [Traders -> [Tokens -> Int]]
         /\ \A v \in Traders : g[v]["base"] = f[v]["base"] - (IF v = s THEN x ELSE 0)
                               /\ g[v]["quote"] = f[v]["quote"] - (IF v = b THEN y ELSE 0)
<1> DEFINE e == [f EXCEPT ![s].base = @ - x]
<1>1. "base" \in Tokens /\ "quote" \in Tokens /\ "base" # "quote"
  BY DEF Tokens
<1>2. PICK w : w = [f[s] EXCEPT !["base"] = f[s]["base"] - x]
  OBVIOUS
<1>3. w \in [Tokens -> Int] /\ w["base"] = f[s]["base"] - x /\ w["quote"] = f[s]["quote"]
  BY <1>1, <1>2
<1>4. e = [f EXCEPT ![s] = w]
  BY <1>2
<1>5. e \in [Traders -> [Tokens -> Int]] /\ \A v \in Traders : e[v] = IF v = s THEN w ELSE f[v]
  BY <1>3, <1>4
<1>6. PICK k \in [Traders -> [Tokens -> Int]] : k = e
  BY <1>5
<1>12. PICK z : z = [k[b] EXCEPT !["quote"] = k[b]["quote"] - y]
  OBVIOUS
<1>7. z \in [Tokens -> Int] /\ z["quote"] = k[b]["quote"] - y /\ z["base"] = k[b]["base"]
  BY <1>1, <1>6, <1>12
<1>8. g = [k EXCEPT ![b] = z]
  BY <1>6, <1>12 DEF PaidOut
<1> HIDE DEF e
<1>9. g \in [Traders -> [Tokens -> Int]] /\ \A v \in Traders : g[v] = IF v = b THEN z ELSE k[v]
  <2>1. z \in [Tokens -> Int] /\ k \in [Traders -> [Tokens -> Int]]
    BY <1>6, <1>7
  <2>2. g \in [Traders -> [Tokens -> Int]]
    BY <1>8, <2>1
  <2>3. ASSUME NEW v \in Traders PROVE g[v] = IF v = b THEN z ELSE k[v]
    BY <1>8, <2>1
  <2> QED BY <2>2, <2>3
<1>10. \A v \in Traders : f[v]["base"] \in Int /\ f[v]["quote"] \in Int
  BY <1>1
<1>11. ASSUME NEW v \in Traders
       PROVE  g[v]["base"] = f[v]["base"] - (IF v = s THEN x ELSE 0)
              /\ g[v]["quote"] = f[v]["quote"] - (IF v = b THEN y ELSE 0)
  <2>1. e[v]["base"] = f[v]["base"] - (IF v = s THEN x ELSE 0) /\ e[v]["quote"] = f[v]["quote"]
    BY <1>3, <1>5, <1>10
  <2>2. g[v]["base"] = e[v]["base"] /\ g[v]["quote"] = e[v]["quote"] - (IF v = b THEN y ELSE 0)
    <3>1. k[v]["base"] = f[v]["base"] - (IF v = s THEN x ELSE 0) /\ k[v]["quote"] = f[v]["quote"]
      BY <1>6, <2>1
    <3>2. k[v]["base"] \in Int /\ k[v]["quote"] \in Int
      BY <1>10, <3>1
    <3>3. CASE v = b
      <4>1. g[v] = z
        BY <1>9, <3>3
      <4> QED BY <1>6, <1>7, <3>3, <4>1
    <3>4. CASE v # b
      <4>1. g[v] = k[v]
        BY <1>9, <3>4
      <4> QED BY <1>6, <3>2, <3>4, <4>1
    <3> QED BY <3>3, <3>4
  <2> QED BY <2>1, <2>2
<1> QED BY <1>9, <1>11

LEMMA MovedIn ==
  ASSUME NEW f \in [Traders -> [Tokens -> Nat]], NEW s \in Traders, NEW b \in Traders,
         NEW x \in Nat, NEW y \in Nat, NEW g,
         g = PaidIn(f, s, b, x, y)
  PROVE  g \in [Traders -> [Tokens -> Nat]]
<1> DEFINE e == [f EXCEPT ![s].quote = @ + y]
<1>1. "base" \in Tokens /\ "quote" \in Tokens
  BY DEF Tokens
<1>2. PICK w : w = [f[s] EXCEPT !["quote"] = f[s]["quote"] + y]
  OBVIOUS
<1>3. w \in [Tokens -> Nat]
  BY <1>1, <1>2
<1>4. e = [f EXCEPT ![s] = w]
  BY <1>2
<1>5. e \in [Traders -> [Tokens -> Nat]]
  BY <1>3, <1>4
<1>6. PICK k \in [Traders -> [Tokens -> Nat]] : k = e
  BY <1>5
<1>9. PICK z : z = [k[b] EXCEPT !["base"] = k[b]["base"] + x]
  OBVIOUS
<1>7. z \in [Tokens -> Nat]
  BY <1>1, <1>6, <1>9
<1>8. g = [k EXCEPT ![b] = z]
  BY <1>6, <1>9 DEF PaidIn
<1> HIDE DEF e
<1> QED BY <1>7, <1>8

\* The hits after the first one.
LEMMA UnpaidTail ==
  ASSUME NEW hits \in Seq(SpotHit), hits # << >>,
         \A n \in DOMAIN hits : \A m \in DOMAIN hits : hits[m].maker = hits[n].maker => m = n
  PROVE  /\ UnpaidIn(hits, Head(hits).maker) = Head(hits).qty
         /\ UnpaidIn(Tail(hits), Head(hits).maker) = 0
         /\ \A i : i # Head(hits).maker => UnpaidIn(Tail(hits), i) = UnpaidIn(hits, i)
<1> DEFINE t == Tail(hits)
           h == Head(hits)
<1>1. /\ 1 \in DOMAIN hits /\ h = hits[1]
      /\ \A n \in DOMAIN t : n + 1 \in DOMAIN hits /\ t[n] = hits[n + 1] /\ n + 1 # 1 /\ n \in Nat
      /\ \A n \in DOMAIN hits : n \in Nat /\ (n # 1 => n - 1 \in DOMAIN t /\ t[n - 1] = hits[n])
  BY HeadTail
<1> HIDE DEF t, h
<1>2. UnpaidIn(hits, h.maker) = h.qty
  BY <1>1, UnpaidIs
<1>3. UnpaidIn(t, h.maker) = 0
  <2>1. \A n \in DOMAIN t : t[n].maker # h.maker
    BY SMTT(30), <1>1
  <2> QED BY <2>1, UnpaidIs
<1>4. ASSUME NEW i, i # h.maker PROVE UnpaidIn(t, i) = UnpaidIn(hits, i)
  <2>1. CASE \A n \in DOMAIN hits : hits[n].maker # i
    <3>1. \A n \in DOMAIN t : t[n].maker # i
      BY SMTT(30), <1>1, <2>1
    <3>2. UnpaidIn(t, i) = 0 /\ UnpaidIn(hits, i) = 0
      BY <2>1, <3>1, UnpaidIs
    <3> QED BY <3>2
  <2>2. CASE \E n \in DOMAIN hits : hits[n].maker = i
    <3>1. PICK n \in DOMAIN hits : hits[n].maker = i
      BY <2>2
    <3>2. n # 1
      BY <1>1, <1>4, <3>1
    <3>3. PICK k \in DOMAIN t : k = n - 1 /\ t[k] = hits[n]
      BY <1>1, <3>2
    <3>4. \A m \in DOMAIN t : t[m].maker = i => m = k
      <4> SUFFICES ASSUME NEW m \in DOMAIN t, t[m].maker = i PROVE m = k
        OBVIOUS
      <4>1. m + 1 \in DOMAIN hits /\ hits[m + 1].maker = i /\ m \in Nat /\ n \in Nat
        BY <1>1
      <4>2. m + 1 = n
        BY <3>1, <4>1
      <4> QED BY <3>3, <4>1, <4>2
    <3>5. UnpaidIn(t, i) = t[k].qty
      BY <3>1, <3>3, <3>4, UnpaidIs
    <3>6. UnpaidIn(hits, i) = hits[n].qty
      BY <3>1, UnpaidIs
    <3> QED BY <3>3, <3>5, <3>6
  <2> QED BY <2>1, <2>2
<1> QED BY <1>2, <1>3, <1>4 DEF t, h

\* The order of the command and the maker of its first hit.
LEMMA HitState ==
  ASSUME SpotInv, job.pc = "commit", job.hits # << >>,
         NEW h, h = Head(job.hits), NEW j, j = job.id
  PROVE  /\ h \in SpotHit /\ h.maker \in Ids /\ h.maker # j /\ j \in Ids
         /\ h.maker \in Takeable(spotOrders[j]) /\ h.maker \in DOMAIN resting
         /\ resting[h.maker] = h.after /\ IsLive(h.maker) /\ spotOrders[h.maker].tif # "market"
         /\ h.after + h.qty <= Room(spotOrders[h.maker])
         /\ h.maker \notin cut \cap lostFills => h.after + h.qty = Room(spotOrders[h.maker])
         /\ Room(spotOrders[j]) = job.left + SpentOf(spotOrders[j], h) + SpentBy(spotOrders[j], Tail(job.hits))
         /\ SpentOf(spotOrders[j], h) \in Nat /\ SpentBy(spotOrders[j], Tail(job.hits)) \in Nat
         /\ \A k : k # h.maker => UnpaidIn(Tail(job.hits), k) = Unpaid(k)
         /\ UnpaidIn(Tail(job.hits), h.maker) = 0
<1>1. SpotTypes
  BY DEF SpotInv
<1>2. /\ j \in Ids /\ job.hits \in Seq(SpotHit) /\ j \notin DOMAIN resting /\ job.left \in Nat
      /\ (\A i : Unpaid(i) = UnpaidIn(job.hits, i))
      /\ Room(spotOrders[j]) = job.left + SpentBy(spotOrders[j], job.hits)
      /\ HitsSound(spotOrders[j], job.hits)
  BY CommitState
<1>3. 1 \in DOMAIN job.hits /\ h = job.hits[1] /\ h \in SpotHit
  BY <1>2, HeadTail
<1>4. h.maker \in Takeable(spotOrders[j]) /\ resting[h.maker] = h.after
  BY <1>2, <1>3 DEF HitsSound
<1>5. h.maker \in DOMAIN resting /\ h.maker \in Ids /\ h.maker # j
  BY <1>1, <1>2, <1>4, TakeableIds
<1>6. /\ UnpaidIn(job.hits, h.maker) = h.qty /\ UnpaidIn(Tail(job.hits), h.maker) = 0
      /\ \A k : k # h.maker => UnpaidIn(Tail(job.hits), k) = UnpaidIn(job.hits, k)
  BY <1>2, UnpaidTail DEF HitsSound
<1>7. /\ IsLive(h.maker) /\ Restable(spotOrders[h.maker])
      /\ resting[h.maker] + Unpaid(h.maker) <= Room(spotOrders[h.maker])
      /\ h.maker \notin cut \cap lostFills => resting[h.maker] + Unpaid(h.maker) = Room(spotOrders[h.maker])
  BY <1>5 DEF SpotInv, BookWithin
<1>8. spotOrders[h.maker].tif # "market"
  BY <1>7 DEF Restable
<1>9. /\ SpentBy(spotOrders[j], job.hits) = SpentOf(spotOrders[j], h) + SpentBy(spotOrders[j], Tail(job.hits))
      /\ SpentOf(spotOrders[j], h) \in Nat /\ SpentBy(spotOrders[j], Tail(job.hits)) \in Nat
  <2>1. \A n \in DOMAIN job.hits : job.hits[n].maker \in Ids
    BY <1>1, <1>2, TakeableIds DEF HitsSound
  <2> QED BY <1>1, <1>2, <2>1, SpentTail
<1>10. Room(spotOrders[j]) = job.left + SpentOf(spotOrders[j], h) + SpentBy(spotOrders[j], Tail(job.hits))
  BY <1>2, <1>9
<1> QED BY <1>2, <1>3, <1>4, <1>5, <1>6, <1>7, <1>8, <1>9, <1>10

\* The row of the maker, and what it still claims.
LEMMA MakerFilled ==
  ASSUME NEW o \in SpotRow, RowSound(o), o.tif # "market", NEW h \in SpotHit, NEW price \in Nat, price = o.price,
         h.after + h.qty <= Room(o),
         NEW st \in {"filled", "partially_filled"}, st = "filled" <=> h.after = 0,
         NEW r, r = Traded(o, h, price, st)
  PROVE  /\ r \in SpotRow /\ SameOrder(o, r) /\ r.status = st /\ RowSound(r)
         /\ Room(r) = Room(o) - h.qty
         /\ DueFor(o, h, price) \in Nat /\ Residual(r) <= Residual(o) - DueFor(o, h, price)
         /\ o.side = "sell" => Residual(r) = Residual(o) - DueFor(o, h, price)
<1>1. PICK q \in Nat, a \in Nat : q = h.qty /\ a = h.after
  BY DEF SpotHit
<1>2. PICK x \in Int : x = Room(o)
  BY ResidualRoom
<1>3. ~InQuote(o) /\ o.price > 0
  BY DEF InQuote, RowSound
<1>4. /\ r \in SpotRow /\ SameOrder(o, r) /\ r.status = st
      /\ Room(r) = Room(o) - (IF InQuote(o) THEN h.qty * price ELSE h.qty)
  <2>1. st \in SpotStatuses
    BY DEF SpotStatuses
  <2> QED BY <2>1, FilledFacts
<1>5. Room(r) = x - q /\ Room(r) = Room(o) - h.qty
  BY <1>1, <1>2, <1>3, <1>4
<1>6. a + q <= x /\ (st = "partially_filled" => a > 0)
  BY <1>1, <1>2
<1>7. RowSound(r)
  <2>1. r.tif # "market" => r.price > 0
    BY <1>3, <1>4 DEF SameOrder
  <2>2. r.status \in Live => a > 0
    BY <1>4, <1>6 DEF Live
  <2>3. Room(r) >= 0 /\ (a > 0 => Room(r) > 0)
    BY <1>1, <1>2, <1>5, <1>6
  <2> QED BY <2>1, <2>2, <2>3 DEF RowSound
<1>8. o.side = "buy" /\ o.tif # "market" => price <= o.price
  OBVIOUS
<1>9. /\ DueFor(o, h, price) \in Nat /\ Residual(r) <= Residual(o) - DueFor(o, h, price)
      /\ o.side = "sell" => Residual(r) = Residual(o) - DueFor(o, h, price)
  BY <1>4, <1>8, FilledClaim
<1> QED BY <1>4, <1>5, <1>7, <1>9

\* The row of the order of the command.
LEMMA TakerFilled ==
  ASSUME NEW o \in SpotRow, RowSound(o), NEW h \in SpotHit, NEW price \in Nat,
         o.side = "buy" /\ o.tif # "market" => price <= o.price,
         NEW spare \in Nat, NEW rest \in Nat,
         Room(o) = spare + (IF InQuote(o) THEN h.qty * price ELSE h.qty) + rest,
         NEW st \in {"filled", "partially_filled"},
         st = "filled" <=> (IF InQuote(o) THEN spare = 0 ELSE o.qty - o.filled = h.qty),
         NEW r, r = Traded(o, h, price, st)
  PROVE  /\ r \in SpotRow /\ SameOrder(o, r) /\ r.status = st /\ RowSound(r)
         /\ Room(r) = spare + rest /\ (st = "filled" => spare = 0)
         /\ DueFor(o, h, price) \in Nat /\ Residual(r) <= Residual(o) - DueFor(o, h, price)
         /\ o.side = "sell" => Residual(r) = Residual(o) - DueFor(o, h, price)
<1>1. PICK q \in Nat, y \in Nat : q = h.qty /\ y = h.qty * price
  BY TimesNat DEF SpotHit
<1>2. PICK x \in Int : x = Room(o)
  BY ResidualRoom
<1>4. /\ r \in SpotRow /\ SameOrder(o, r) /\ r.status = st
      /\ Room(r) = Room(o) - (IF InQuote(o) THEN h.qty * price ELSE h.qty)
  <2>1. st \in SpotStatuses
    BY DEF SpotStatuses
  <2> QED BY <2>1, FilledFacts
<1>5. Room(r) = spare + rest
  <2>1. x = spare + (IF InQuote(o) THEN y ELSE q) + rest /\ Room(r) = x - (IF InQuote(o) THEN y ELSE q)
    BY <1>1, <1>2, <1>4
  <2> QED BY <1>1, <1>2, <2>1
<1>6. (st = "filled" => spare = 0) /\ (st # "filled" /\ o.tif # "market" => spare + rest # 0)
  <2>1. CASE InQuote(o)
    BY <2>1 DEF InQuote
  <2>2. CASE ~InQuote(o)
    <3>1. x = o.qty - o.filled /\ x = spare + q + rest
      BY <1>1, <1>2, <2>2 DEF Room
    <3>2. st = "filled" <=> x = q
      BY <1>1, <2>2, <3>1
    <3> QED BY <1>1, <3>1, <3>2
  <2> QED BY <2>1, <2>2
<1>7. RowSound(r)
  <2>1. r.tif # "market" => r.price > 0
    BY <1>4 DEF SameOrder, RowSound
  <2>2. r.status \in Live /\ r.tif # "market" => spare + rest # 0
    BY <1>4, <1>6 DEF Live, SameOrder
  <2>3. Room(r) >= 0 /\ (spare + rest # 0 => Room(r) > 0)
    BY <1>5
  <2> QED BY <2>1, <2>2, <2>3 DEF RowSound
<1>9. /\ DueFor(o, h, price) \in Nat /\ Residual(r) <= Residual(o) - DueFor(o, h, price)
      /\ o.side = "sell" => Residual(r) = Residual(o) - DueFor(o, h, price)
  BY <1>4, FilledClaim
<1> QED BY <1>4, <1>5, <1>6, <1>7, <1>9

\* What a commit writes.
LEMMA CommitWrites ==
  ASSUME CommitFill, NEW h, h = Head(job.hits), NEW price, price = spotOrders[h.maker].price
  PROVE  /\ job.pc = "commit" /\ job.hits # << >>
         /\ spotOrders' = [spotOrders EXCEPT
               ![h.maker] = Traded(@, h, price, IF h.after = 0 THEN "filled" ELSE "partially_filled"),
               ![job.id] = Traded(@, h, price, IF TakerDone(h) THEN "filled" ELSE "partially_filled")]
         /\ resting' = IF h.after = 0 THEN Without(resting, h.maker) ELSE resting
         /\ job' = [job EXCEPT !.hits = Tail(@)]
         /\ UNCHANGED <<up, faults, wallets, histories>>
BY Zenon DEF CommitFill, FilledBy, Traded

LEMMA TwoRows ==
  ASSUME NEW S, NEW s \in Seq(S), NEW m \in 1 .. Len(s), NEW j \in 1 .. Len(s), m # j,
         NEW x \in S, NEW y \in S, NEW t, t = [s EXCEPT ![m] = x, ![j] = y]
  PROVE  /\ t \in Seq(S) /\ Len(t) = Len(s) /\ t[m] = x /\ t[j] = y
         /\ \A k \in 1 .. Len(s) : k # m /\ k # j => t[k] = s[k]
<1>1. PICK e : e = [s EXCEPT ![m] = x]
  OBVIOUS
<1>2. e \in Seq(S) /\ Len(e) = Len(s) /\ e[m] = x /\ \A k \in 1 .. Len(s) : k # m => e[k] = s[k]
  BY <1>1, SeqUpdate
<1>3. t = [e EXCEPT ![j] = y]
  BY <1>1
<1>4. /\ t \in Seq(S) /\ Len(t) = Len(e) /\ t[j] = y
      /\ \A k \in 1 .. Len(e) : k # j => t[k] = e[k]
  <2>1. j \in 1 .. Len(e)
    BY <1>2
  <2> QED BY SMTT(30), <1>2, <1>3, <2>1, SeqUpdate
<1> QED BY <1>2, <1>4

\* What a commit leaves: the rows rm and rj of the maker m and the taker j.
FillLeaves(h, m, j, rm, rj, price) ==
    /\ m \in Ids /\ j \in Ids /\ m # j /\ h \in SpotHit /\ price \in Nat
    /\ rm \in SpotRow /\ SameOrder(spotOrders[m], rm) /\ RowSound(rm)
    /\ rm.status = IF h.after = 0 THEN "filled" ELSE "partially_filled"
    /\ Room(rm) = Room(spotOrders[m]) - h.qty
    /\ rj \in SpotRow /\ SameOrder(spotOrders[j], rj) /\ RowSound(rj)
    /\ rj.status # "canceled" /\ (rj.status = "filled" => job.left = 0)
    /\ Room(rj) = job.left + SpentBy(spotOrders[j], Tail(job.hits))
    /\ DueFor(rm, h, price) \in Nat /\ DueFor(rj, h, price) \in Nat
    /\ Residual(rm) <= Residual(spotOrders[m]) - DueFor(rm, h, price)
    /\ Residual(rj) <= Residual(spotOrders[j]) - DueFor(rj, h, price)
    /\ rm.side = "sell" => Residual(rm) = Residual(spotOrders[m]) - DueFor(rm, h, price)
    /\ rj.side = "sell" => Residual(rj) = Residual(spotOrders[j]) - DueFor(rj, h, price)
    /\ Ids' = Ids /\ spotOrders' \in Seq(SpotRow) /\ spotOrders'[m] = rm /\ spotOrders'[j] = rj
    /\ \A k \in Ids : k # m /\ k # j => spotOrders'[k] = spotOrders[k]

LEMMA FilledRows ==
  ASSUME SpotAssumption, SpotInv, CommitFill, NEW h, h = Head(job.hits), NEW m, m = h.maker, NEW j, j = job.id,
         NEW price, price = spotOrders[m].price
  PROVE  \E rm, rj \in SpotRow : FillLeaves(h, m, j, rm, rj, price)
<1>1. SpotTypes
  BY DEF SpotInv
<1>2. job.pc = "commit" /\ job.hits # << >>
  BY Zenon DEF CommitFill
<1>3. /\ h \in SpotHit /\ m \in Ids /\ m # j /\ j \in Ids /\ m \in Takeable(spotOrders[j])
      /\ spotOrders[m].tif # "market" /\ h.after + h.qty <= Room(spotOrders[m])
      /\ Room(spotOrders[j]) = job.left + SpentOf(spotOrders[j], h) + SpentBy(spotOrders[j], Tail(job.hits))
      /\ SpentBy(spotOrders[j], Tail(job.hits)) \in Nat
  BY <1>2, HitState
<1>4. PICK om \in SpotRow, oj \in SpotRow : om = spotOrders[m] /\ oj = spotOrders[j]
  BY <1>1, <1>3, RowOf
<1>5. RowSound(om) /\ RowSound(oj)
  BY <1>3, <1>4 DEF SpotInv, RowsSound
<1>6. price \in Nat /\ price = om.price /\ oj.side # om.side /\ Reaches(oj, price) /\ job.left \in Nat
  BY <1>2, <1>3, <1>4, RowFields, CommitState DEF Takeable
<1>7. oj.side = "buy" /\ oj.tif # "market" => price <= oj.price
  BY <1>6 DEF Reaches
<1>8. PICK sm \in {"filled", "partially_filled"}, sj \in {"filled", "partially_filled"} :
         /\ sm = IF h.after = 0 THEN "filled" ELSE "partially_filled"
         /\ sj = IF TakerDone(h) THEN "filled" ELSE "partially_filled"
  OBVIOUS
<1>9. PICK rm, rj : rm = Traded(om, h, price, sm) /\ rj = Traded(oj, h, price, sj)
  OBVIOUS
<1>10. /\ rm \in SpotRow /\ SameOrder(om, rm) /\ rm.status = sm /\ RowSound(rm)
       /\ Room(rm) = Room(om) - h.qty
       /\ DueFor(om, h, price) \in Nat /\ Residual(rm) <= Residual(om) - DueFor(om, h, price)
       /\ om.side = "sell" => Residual(rm) = Residual(om) - DueFor(om, h, price)
  <2>1. om.tif # "market" /\ h.after + h.qty <= Room(om) /\ (sm = "filled" <=> h.after = 0)
    BY <1>3, <1>4, <1>8
  <2> QED BY <1>3, <1>5, <1>6, <1>9, <2>1, MakerFilled
<1>11. PICK rest \in Nat, spare \in Nat : rest = SpentBy(oj, Tail(job.hits)) /\ spare = job.left
  BY <1>3, <1>4, <1>6
<1>12. /\ rj \in SpotRow /\ SameOrder(oj, rj) /\ rj.status = sj /\ RowSound(rj)
       /\ Room(rj) = spare + rest /\ (sj = "filled" => spare = 0)
       /\ DueFor(oj, h, price) \in Nat /\ Residual(rj) <= Residual(oj) - DueFor(oj, h, price)
       /\ oj.side = "sell" => Residual(rj) = Residual(oj) - DueFor(oj, h, price)
  <2>1. Room(oj) = spare + (IF InQuote(oj) THEN h.qty * price ELSE h.qty) + rest
    <3>1. SpentOf(oj, h) = IF InQuote(oj) THEN h.qty * price ELSE h.qty
      BY <1>4 DEF SpentOf
    <3> QED BY <1>3, <1>4, <1>11, <3>1
  <2>2. sj = "filled" <=> (IF InQuote(oj) THEN spare = 0 ELSE oj.qty - oj.filled = h.qty)
    BY <1>4, <1>8, <1>11 DEF TakerDone, InQuote
  <2>3. h \in SpotHit /\ rj = Traded(oj, h, price, sj) /\ price \in Nat /\ RowSound(oj)
    BY <1>3, <1>5, <1>6, <1>9
  <2> QED BY ONLY <1>4, <1>7, <1>8, <1>11, <2>1, <2>2, <2>3, TakerFilled
<1>13. /\ Ids' = Ids /\ spotOrders' \in Seq(SpotRow) /\ spotOrders'[m] = rm /\ spotOrders'[j] = rj
       /\ \A k \in Ids : k # m /\ k # j => spotOrders'[k] = spotOrders[k]
  <2>1. spotOrders' = [spotOrders EXCEPT ![m] = Traded(@, h, price, sm), ![j] = Traded(@, h, price, sj)]
    BY <1>8, CommitWrites, Zenon
  <2>2. spotOrders \in Seq(SpotRow) /\ m \in 1 .. Len(spotOrders) /\ j \in 1 .. Len(spotOrders)
    BY <1>1, <1>3 DEF SpotTypes, Ids
  <2>3. spotOrders' = [spotOrders EXCEPT ![m] = rm, ![j] = rj]
    BY <1>3, <1>4, <1>9, <2>1, <2>2
  <2>4. /\ spotOrders' \in Seq(SpotRow) /\ Len(spotOrders') = Len(spotOrders)
        /\ spotOrders'[m] = rm /\ spotOrders'[j] = rj
        /\ \A k \in 1 .. Len(spotOrders) : k # m /\ k # j => spotOrders'[k] = spotOrders[k]
    <3>1. rm \in SpotRow /\ rj \in SpotRow /\ m # j
      BY <1>3, <1>10, <1>12
    <3> QED BY <2>2, <2>3, <3>1, TwoRows
  <2> QED BY <2>4 DEF Ids
<1>14. /\ rm.side = om.side /\ rj.side = oj.side
       /\ DueFor(rm, h, price) = DueFor(om, h, price) /\ DueFor(rj, h, price) = DueFor(oj, h, price)
  BY <1>10, <1>12 DEF SameOrder, DueFor
<1>15. FillLeaves(h, m, j, rm, rj, price)
  <2>1. rj.status # "canceled" /\ (rj.status = "filled" => job.left = 0)
        /\ Room(rj) = job.left + SpentBy(spotOrders[j], Tail(job.hits))
    BY <1>4, <1>11, <1>12
  <2> QED BY Zenon, <1>3, <1>4, <1>6, <1>8, <1>10, <1>12, <1>13, <1>14, <2>1 DEF FillLeaves
<1> QED BY <1>10, <1>12, <1>15

LEMMA CommitPays ==
  ASSUME CommitFill, NEW h, h = Head(job.hits), NEW price, price = spotOrders[h.maker].price,
         NEW b, b = spotOrders[Buyer(h)].user, NEW s, s = spotOrders[Seller(h)].user,
         NEW q, q = h.qty, NEW y, y = q * price
  PROVE  frozen' = PaidOut(frozen, s, b, q, y) /\ avail' = PaidIn(avail, s, b, q, y)
BY Zenon DEF CommitFill, PaidOut, PaidIn

\* The balances of a commit: each order pays what is due for it.
LEMMA FillPays ==
  ASSUME SpotTypes, CommitFill, NEW h \in SpotHit, h = Head(job.hits), NEW m \in Ids, m = h.maker,
         NEW j \in Ids, j = job.id, NEW price \in Nat, price = spotOrders[m].price,
         spotOrders[m].side # spotOrders[j].side
  PROVE  /\ avail' \in [Traders -> [Tokens -> Nat]] /\ frozen' \in [Traders -> [Tokens -> Int]]
         /\ \A v \in Traders :
               /\ frozen'[v][LockToken(spotOrders[m])] = frozen[v][LockToken(spotOrders[m])]
                     - (IF v = spotOrders[m].user THEN DueFor(spotOrders[m], h, price) ELSE 0)
               /\ frozen'[v][LockToken(spotOrders[j])] = frozen[v][LockToken(spotOrders[j])]
                     - (IF v = spotOrders[j].user THEN DueFor(spotOrders[j], h, price) ELSE 0)
<1>1. PICK om \in SpotRow, oj \in SpotRow : om = spotOrders[m] /\ oj = spotOrders[j]
  BY RowOf
<1>2. om.user \in Traders /\ oj.user \in Traders /\ om.side \in {"buy", "sell"} /\ oj.side \in {"buy", "sell"}
      /\ om.side # oj.side
  BY <1>1, RowFields
<1>3. PICK q \in Nat, y \in Nat : q = h.qty /\ y = h.qty * price
  BY TimesNat DEF SpotHit
<1>4. PICK b \in Traders, s \in Traders :
         /\ b = spotOrders[Buyer(h)].user /\ s = spotOrders[Seller(h)].user
         /\ oj.side = "buy" => b = oj.user /\ s = om.user
         /\ oj.side = "sell" => b = om.user /\ s = oj.user
  BY SMTT(30), <1>1, <1>2 DEF Buyer, Seller
<1>5. frozen' = PaidOut(frozen, s, b, q, y) /\ avail' = PaidIn(avail, s, b, q, y)
  <2>1. price = spotOrders[h.maker].price /\ y = q * price
    BY <1>3
  <2> QED BY <1>3, <1>4, <2>1, CommitPays
<1>6. avail \in [Traders -> [Tokens -> Nat]] /\ frozen \in [Traders -> [Tokens -> Int]]
  BY DEF SpotTypes
<1>7. avail' \in [Traders -> [Tokens -> Nat]]
  BY Zenon, <1>3, <1>4, <1>5, <1>6, MovedIn
<1>8. /\ frozen' \in [Traders -> [Tokens -> Int]]
      /\ \A v \in Traders : frozen'[v]["base"] = frozen[v]["base"] - (IF v = s THEN q ELSE 0)
                            /\ frozen'[v]["quote"] = frozen[v]["quote"] - (IF v = b THEN y ELSE 0)
  <2>1. q \in Int /\ y \in Int
    BY <1>3
  <2>2. frozen \in [Traders -> [Tokens -> Int]] /\ s \in Traders /\ b \in Traders
    BY <1>4, <1>6
  <2>3. frozen' = PaidOut(frozen, s, b, q, y)
    BY <1>5
  <2> QED BY ONLY <2>1, <2>2, <2>3, MovedOut
<1>9. ASSUME NEW v \in Traders
      PROVE  /\ frozen'[v][LockToken(om)] = frozen[v][LockToken(om)]
                   - (IF v = om.user THEN DueFor(om, h, price) ELSE 0)
             /\ frozen'[v][LockToken(oj)] = frozen[v][LockToken(oj)]
                   - (IF v = oj.user THEN DueFor(oj, h, price) ELSE 0)
  <2>1. CASE oj.side = "buy"
    <3>1. om.side = "sell"
      BY <1>2, <2>1
    <3>2. LockToken(oj) = "quote" /\ LockToken(om) = "base" /\ DueFor(oj, h, price) = y /\ DueFor(om, h, price) = q
      BY <1>3, <2>1, <3>1 DEF LockToken, DueFor
    <3> QED BY <1>4, <1>8, <2>1, <3>2
  <2>2. CASE oj.side = "sell"
    <3>1. om.side = "buy"
      BY <1>2, <2>2
    <3>2. LockToken(oj) = "base" /\ LockToken(om) = "quote" /\ DueFor(oj, h, price) = q /\ DueFor(om, h, price) = y
      BY <1>3, <2>2, <3>1 DEF LockToken, DueFor
    <3> QED BY <1>4, <1>8, <2>2, <3>2
  <2> QED BY <1>2, <2>1, <2>2
<1> QED BY <1>1, <1>7, <1>8, <1>9

\* A commit moves no more out of a lock than the order stops claiming.
LEMMA FillMoney ==
  ASSUME SpotAssumption, SpotInv, CommitFill, SpotTypes', RowsSound',
         NEW h \in SpotHit, h = Head(job.hits), NEW m \in Ids, m = h.maker,
         NEW j \in Ids, j = job.id, NEW price \in Nat, price = spotOrders[m].price,
         NEW rm \in SpotRow, NEW rj \in SpotRow, FillLeaves(h, m, j, rm, rj, price),
         job'.pc = "commit", job'.id = j,
         UNCHANGED <<cut, lostFills, halfRefunded, strayLock>>
  PROVE  MoneySound'
<1>1. SpotTypes /\ RowsSound
  BY DEF SpotInv
<1>2. job.pc = "commit" /\ job.hits # << >>
  BY Zenon DEF CommitFill
<1>3. PICK om \in SpotRow, oj \in SpotRow : om = spotOrders[m] /\ oj = spotOrders[j]
  BY SMTT(30), <1>1, RowOf
<1>4. PICK dm \in Nat, dj \in Nat : dm = DueFor(rm, h, price) /\ dj = DueFor(rj, h, price)
  BY DEF FillLeaves
<1>5. /\ SameOrder(om, rm) /\ rm.status = (IF h.after = 0 THEN "filled" ELSE "partially_filled")
      /\ Room(rm) = Room(om) - h.qty /\ Room(rm) >= 0 /\ Room(rj) >= 0
      /\ SameOrder(oj, rj) /\ m # j
      /\ Residual(rm) <= Residual(om) - dm /\ Residual(rj) <= Residual(oj) - dj
      /\ rm.side = "sell" => Residual(rm) = Residual(om) - dm
      /\ rj.side = "sell" => Residual(rj) = Residual(oj) - dj
      /\ Ids' = Ids /\ spotOrders'[m] = rm /\ spotOrders'[j] = rj
      /\ \A k \in Ids : k # m /\ k # j => spotOrders'[k] = spotOrders[k]
  BY Zenon, <1>3, <1>4 DEF FillLeaves, RowSound
<1>6. InHand = {j} /\ InHand' = {j} /\ Closing = {} /\ Closing' = {}
      /\ \A u, t : Reserved(u, t) = 0 /\ Reserved(u, t)' = 0
  BY <1>2, CommitState DEF InHand, Closing, Reserved
<1>7. /\ IsLive(m) /\ m \in Takeable(oj)
      /\ m \notin cut \cap lostFills => h.after + h.qty = Room(om)
  BY <1>2, <1>3, HitState
<1>8. /\ om.side # oj.side /\ om.side \in {"buy", "sell"} /\ oj.side \in {"buy", "sell"}
      /\ rm.side = om.side /\ rj.side = oj.side /\ rm.user = om.user /\ rj.user = oj.user
      /\ LockToken(rm) = LockToken(om) /\ LockToken(rj) = LockToken(oj)
      /\ DueFor(om, h, price) = dm /\ DueFor(oj, h, price) = dj
  <2>1. om.side # oj.side
    BY <1>3, <1>7 DEF Takeable
  <2>2. rm.side = om.side /\ rj.side = oj.side /\ rm.user = om.user /\ rj.user = oj.user
    BY <1>5 DEF SameOrder
  <2> QED BY <1>4, <2>1, <2>2, RowFields DEF LockToken, DueFor
<1>9. /\ Residual(om) \in Nat /\ Residual(oj) \in Nat /\ Residual(rm) \in Nat /\ Residual(rj) \in Nat
      /\ Room(rm) = 0 => Residual(rm) = 0
  <2>1. Room(om) >= 0 /\ Room(oj) >= 0
    BY SMTT(30), <1>1, <1>3 DEF RowsSound, RowSound
  <2> QED BY <1>5, <2>1, ResidualNat
<1>10. \A v \in Traders :
          /\ frozen'[v][LockToken(om)] = frozen[v][LockToken(om)] - (IF v = om.user THEN dm ELSE 0)
          /\ frozen'[v][LockToken(oj)] = frozen[v][LockToken(oj)] - (IF v = oj.user THEN dj ELSE 0)
  BY <1>1, <1>3, <1>8, FillPays
<1>11. h.after = 0 /\ lostFills = {} => Room(rm) = 0
  <2>1. PICK x \in Int : x = Room(om)
    BY ResidualRoom
  <2>2. h.qty \in Nat
    BY DEF SpotHit
  <2> QED BY <1>5, <1>7, <2>1, <2>2
<1>12. /\ Counted(m) /\ Counted(j) /\ Counted(j)' /\ (Counted(m)' <=> h.after # 0)
       /\ \A k \in Ids : k # m /\ k # j => (Counted(k)' <=> Counted(k))
  <2>1. IsLive(m)' <=> h.after # 0
    BY <1>5 DEF IsLive, Live
  <2>2. \A k \in Ids : k # m /\ k # j => (IsLive(k)' <=> IsLive(k))
    BY <1>5 DEF IsLive
  <2> QED BY <1>5, <1>6, <1>7, <2>1, <2>2 DEF Counted
<1> SUFFICES ASSUME NEW u \in Traders, NotHalf(u)'
             PROVE  /\ \A t \in Tokens : (Claims(u, t) + Reserved(u, t) <= frozen[u][t])'
                    /\ lostFills' = {} /\ u \notin strayLock' =>
                          frozen'[u]["base"] = Claims(u, "base")' + Reserved(u, "base")'
  BY DEF MoneySound
<1>13. NotHalf(u)
  <2>1. halfRefunded \subseteq Ids
    BY SMTT(30), <1>1 DEF SpotTypes
  <2>2. \A k \in Ids : spotOrders'[k].user = spotOrders[k].user
    BY <1>3, <1>5, <1>8
  <2> QED BY <2>1, <2>2 DEF NotHalf
<1>14. \A t, k : Claim(k, u, t)' = IF Counted(k)' /\ spotOrders'[k].user = u /\ LockToken(spotOrders'[k]) = t
                                  THEN Residual(spotOrders'[k]) ELSE 0
  BY DEF Claim, LockToken, Residual
<1>15. \A t, k : Claim(k, u, t) = IF Counted(k) /\ spotOrders[k].user = u /\ LockToken(spotOrders[k]) = t
                                 THEN Residual(spotOrders[k]) ELSE 0
  BY DEF Claim
<1>16. \A t : \A k \in Ids : k # m /\ k # j => Claim(k, u, t)' = Claim(k, u, t)
  BY SMTT(30), <1>5, <1>12, <1>14, <1>15
<1>17. /\ \A t : LockToken(om) # t => Claim(m, u, t)' = 0 /\ Claim(m, u, t) = 0
       /\ \A t : LockToken(oj) # t => Claim(j, u, t)' = 0 /\ Claim(j, u, t) = 0
  <2>1. /\ spotOrders'[m] = rm /\ LockToken(rm) = LockToken(om)
        /\ spotOrders'[j] = rj /\ LockToken(rj) = LockToken(oj)
    BY <1>5, <1>8
  <2>2. \A t : /\ LockToken(om) # t => Claim(m, u, t)' = 0
               /\ LockToken(oj) # t => Claim(j, u, t)' = 0
    BY ONLY <1>14, <2>1
  <2>3. \A t : /\ LockToken(om) # t => Claim(m, u, t) = 0
               /\ LockToken(oj) # t => Claim(j, u, t) = 0
    BY ONLY <1>3, <1>15
  <2> QED BY <2>2, <2>3
<1>18. /\ LockToken(om) = (IF om.side = "buy" THEN "quote" ELSE "base")
       /\ LockToken(oj) = (IF oj.side = "buy" THEN "quote" ELSE "base")
  BY DEF LockToken
<1>19. \A t \in Tokens : \/ (LockToken(om) = t /\ LockToken(oj) # t)
                          \/ (LockToken(oj) = t /\ LockToken(om) # t)
  <2>1. CASE LockToken(om) = "base" /\ LockToken(oj) = "quote"
    BY <2>1 DEF Tokens
  <2>2. CASE LockToken(om) = "quote" /\ LockToken(oj) = "base"
    BY <2>2 DEF Tokens
  <2> QED BY <1>8, <1>18, <2>1, <2>2
<1>20. \A t \in Tokens :
          /\ Claims(u, t)' - Claims(u, t) <= frozen'[u][t] - frozen[u][t]
          /\ lostFills = {} /\ t = "base" => Claims(u, t)' - Claims(u, t) = frozen'[u][t] - frozen[u][t]
          /\ Claims(u, t) \in Int /\ Claims(u, t)' \in Int /\ frozen[u][t] \in Int /\ frozen'[u][t] \in Int
  <2> SUFFICES ASSUME NEW t \in Tokens
               PROVE  /\ Claims(u, t)' - Claims(u, t) <= frozen'[u][t] - frozen[u][t]
                      /\ lostFills = {} /\ t = "base" => Claims(u, t)' - Claims(u, t) = frozen'[u][t] - frozen[u][t]
                      /\ Claims(u, t) \in Int /\ Claims(u, t)' \in Int /\ frozen[u][t] \in Int /\ frozen'[u][t] \in Int
    OBVIOUS
  <2>0. frozen[u][t] \in Int /\ frozen'[u][t] \in Int
    BY <1>1 DEF SpotTypes
  <2>1. CASE LockToken(om) = t /\ LockToken(oj) # t
    <3>1. \A k \in Ids : k # m => Claim(k, u, t)' = Claim(k, u, t)
      BY <1>16, <1>17, <2>1
    <3>2. /\ Claims(u, t)' = Claims(u, t) + Claim(m, u, t)' - Claim(m, u, t)
          /\ Claims(u, t)' \in Int /\ Claims(u, t) \in Int
      BY <1>1, <1>5, <3>1, ClaimsStep
    <3>3. Claim(m, u, t) = (IF om.user = u THEN Residual(om) ELSE 0)
          /\ Claim(m, u, t)' = (IF h.after # 0 /\ om.user = u THEN Residual(rm) ELSE 0)
      BY <1>3, <1>5, <1>8, <1>12, <1>14, <1>15, <2>1
    <3>4. frozen'[u][t] = frozen[u][t] - (IF u = om.user THEN dm ELSE 0)
      BY <1>10, <2>1
    <3>5. t = "base" => rm.side = "sell"
      BY <1>8, <1>18, <2>1
    <3>6. h.after = 0 /\ lostFills = {} => Residual(rm) = 0
      BY SMTT(30), <1>9, <1>11
    <3>7. CASE om.user = u
      BY <1>4, <1>5, <1>9, <2>0, <3>2, <3>3, <3>4, <3>5, <3>6, <3>7
    <3>8. CASE om.user # u
      BY <2>0, <3>2, <3>3, <3>4, <3>8
    <3> QED BY <3>7, <3>8
  <2>2. CASE LockToken(oj) = t /\ LockToken(om) # t
    <3>1. \A k \in Ids : k # j => Claim(k, u, t)' = Claim(k, u, t)
      BY <1>16, <1>17, <2>2
    <3>2. /\ Claims(u, t)' = Claims(u, t) + Claim(j, u, t)' - Claim(j, u, t)
          /\ Claims(u, t)' \in Int /\ Claims(u, t) \in Int
      BY SMTT(30), <1>1, <1>5, <3>1, ClaimsStep
    <3>3. Claim(j, u, t) = (IF oj.user = u THEN Residual(oj) ELSE 0)
          /\ Claim(j, u, t)' = (IF oj.user = u THEN Residual(rj) ELSE 0)
      BY <1>3, <1>5, <1>8, <1>12, <1>14, <1>15, <2>2
    <3>4. frozen'[u][t] = frozen[u][t] - (IF u = oj.user THEN dj ELSE 0)
      BY <1>10, <2>2
    <3>5. t = "base" => rj.side = "sell"
      BY SMTT(30), <1>8, <1>18, <2>2
    <3>7. CASE oj.user = u
      BY <1>4, <1>5, <1>9, <2>0, <3>2, <3>3, <3>4, <3>5, <3>7
    <3>8. CASE oj.user # u
      BY <2>0, <3>2, <3>3, <3>4, <3>8
    <3> QED BY <3>7, <3>8
  <2> QED BY <1>19, <2>1, <2>2
<1>21. /\ \A t \in Tokens : Claims(u, t) + Reserved(u, t) <= frozen[u][t]
       /\ lostFills = {} /\ u \notin strayLock => frozen[u]["base"] = Claims(u, "base") + Reserved(u, "base")
  BY <1>13 DEF SpotInv, MoneySound
<1>22. "base" \in Tokens
  BY DEF Tokens
<1>23. \A t \in Tokens : Claims(u, t)' + Reserved(u, t)' <= frozen'[u][t]
  BY <1>6, <1>20, <1>21
<1>24. lostFills = {} /\ u \notin strayLock => frozen'[u]["base"] = Claims(u, "base")' + Reserved(u, "base")'
  BY <1>6, <1>20, <1>21, <1>22
<1> QED BY <1>23, <1>24

LEMMA CommitFillInv ==
  ASSUME SpotAssumption, SpotInv, CommitFill
  PROVE  SpotInv'
<1>1. SpotTypes
  BY DEF SpotInv
<1>2. job.pc = "commit" /\ job.hits # << >>
  BY Zenon DEF CommitFill
<1>3. /\ job \in [pc : {"commit"}, id : Ids, hits : Seq(SpotHit), left : Nat] /\ up
      /\ InHand = {job.id} /\ Closing = {} /\ (\A i : Unpaid(i) = UnpaidIn(job.hits, i))
      /\ (\A u, t : Reserved(u, t) = 0) /\ job.id \notin cut /\ job.id \notin lostFills /\ job.id \notin DOMAIN resting
      /\ HitsSound(spotOrders[job.id], job.hits) /\ SweptAll(spotOrders[job.id], job.hits, job.left)
  BY <1>2, CommitState
<1>4. PICK j \in Ids, spare \in Nat, tail \in Seq(SpotHit) : j = job.id /\ spare = job.left /\ tail = Tail(job.hits)
  BY <1>2, <1>3, HeadTail
<1>5. PICK h \in SpotHit, m \in Ids, price \in Nat : h = Head(job.hits) /\ m = h.maker /\ price = spotOrders[m].price
  <2>1. PICK h : h = Head(job.hits)
    OBVIOUS
  <2>2. h \in SpotHit /\ h.maker \in Ids
    BY <1>2, <1>4, <2>1, HitState
  <2>3. spotOrders[h.maker].price \in Nat
    BY <1>1, <2>2, RowOf, RowFields
  <2> QED BY <2>1, <2>2, <2>3
<1>6. /\ m # j /\ m \in Takeable(spotOrders[j]) /\ m \in DOMAIN resting /\ resting[m] = h.after /\ IsLive(m)
      /\ h.after + h.qty <= Room(spotOrders[m])
      /\ m \notin cut \cap lostFills => h.after + h.qty = Room(spotOrders[m])
      /\ (\A k : k # m => UnpaidIn(tail, k) = Unpaid(k)) /\ UnpaidIn(tail, m) = 0
      /\ SpentBy(spotOrders[j], tail) \in Nat /\ Restable(spotOrders[m])
  <2>1. Restable(spotOrders[m])
    BY <1>2, <1>5, HitState DEF SpotInv, BookWithin
  <2> QED BY <1>2, <1>4, <1>5, <2>1, HitState
<1>7. PICK rm \in SpotRow, rj \in SpotRow : FillLeaves(h, m, j, rm, rj, price)
  BY <1>4, <1>5, FilledRows
<1>8. /\ SameOrder(spotOrders[m], rm) /\ RowSound(rm)
      /\ rm.status = (IF h.after = 0 THEN "filled" ELSE "partially_filled")
      /\ Room(rm) = Room(spotOrders[m]) - h.qty
      /\ SameOrder(spotOrders[j], rj) /\ RowSound(rj)
      /\ rj.status # "canceled" /\ (rj.status = "filled" => spare = 0)
      /\ Room(rj) = spare + SpentBy(spotOrders[j], tail)
      /\ Ids' = Ids /\ spotOrders' \in Seq(SpotRow) /\ spotOrders'[m] = rm /\ spotOrders'[j] = rj
      /\ \A k \in Ids : k # m /\ k # j => spotOrders'[k] = spotOrders[k]
  BY <1>4, <1>7 DEF FillLeaves
<1>9. /\ resting' = (IF h.after = 0 THEN Without(resting, m) ELSE resting)
      /\ job' = [pc |-> "commit", id |-> j, hits |-> tail, left |-> spare]
      /\ UNCHANGED <<up, faults, wallets, cut, lostFills, halfRefunded, strayLock>>
  <2>1. /\ resting' = (IF h.after = 0 THEN Without(resting, h.maker) ELSE resting)
        /\ job' = [job EXCEPT !.hits = Tail(@)] /\ UNCHANGED <<up, faults, wallets, histories>>
    BY Zenon, <1>5 DEF CommitFill
  <2>2. job' = [pc |-> "commit", id |-> j, hits |-> tail, left |-> spare]
    BY <1>3, <1>4, <2>1
  <2> QED BY Zenon, <1>5, <2>1, <2>2 DEF histories
<1>10. h.qty \in Nat /\ h.after \in Nat
  BY <1>5 DEF SpotHit
<1>11. /\ DOMAIN resting' = (IF h.after = 0 THEN DOMAIN resting \ {m} ELSE DOMAIN resting)
       /\ DOMAIN resting' \subseteq DOMAIN resting /\ \A k \in DOMAIN resting' : resting'[k] = resting[k]
       /\ resting' \in [DOMAIN resting' -> Nat]
  <2>1. resting \in [DOMAIN resting -> Nat]
    BY <1>1 DEF SpotTypes
  <2>2. CASE h.after = 0
    <3>1. resting' = [k \in DOMAIN resting \ {m} |-> resting[k]]
      BY <1>9, <2>2 DEF Without
    <3> QED BY <2>1, <2>2, <3>1
  <2>3. CASE h.after # 0
    BY <1>9, <2>1, <2>3
  <2> QED BY <2>2, <2>3
<1>12. InHand' = {j} /\ Closing' = {} /\ (\A k : Unpaid(k)' = UnpaidIn(tail, k)) /\ \A u, t : Reserved(u, t)' = 0
  BY <1>9 DEF InHand, Closing, Unpaid, Reserved, UnpaidIn, HitsOn
<1>13. \A k \in Ids : SameOrder(spotOrders[k], spotOrders'[k])
  <2> TAKE k \in Ids
  <2>1. SameOrder(spotOrders[k], spotOrders[k])
    BY DEF SameOrder
  <2> QED BY <1>8, <2>1
<1>14. \A k \in Ids : /\ LockToken(spotOrders'[k]) = LockToken(spotOrders[k])
                      /\ (Restable(spotOrders'[k]) <=> Restable(spotOrders[k]))
                      /\ (RestsWith(spotOrders'[k]) <=> RestsWith(spotOrders[k]))
                      /\ spotOrders'[k].user = spotOrders[k].user /\ spotOrders'[k].side = spotOrders[k].side
                      /\ spotOrders'[k].price = spotOrders[k].price /\ spotOrders'[k].tif = spotOrders[k].tif
  BY <1>13, SameOrderFacts DEF SameOrder
<1>15. (IsLive(m)' <=> h.after # 0) /\ \A k \in Ids : k # m /\ k # j => (IsLive(k)' <=> IsLive(k))
  BY <1>8 DEF IsLive, Live
<1>16. SpotTypes'
  <2>1. JobTypes'
    <3>1. job' \in [pc : {"commit"}, id : Ids', hits : Seq(SpotHit), left : Nat]
      BY <1>4, <1>8, <1>9
    <3> QED BY <3>1 DEF JobTypes
  <2>2. avail' \in [Traders -> [Tokens -> Nat]] /\ frozen' \in [Traders -> [Tokens -> Int]]
    <3>1. spotOrders[m].side # spotOrders[j].side
      BY <1>6 DEF Takeable
    <3> QED BY <1>1, <1>4, <1>5, <3>1, FillPays
  <2> QED BY <1>1, <1>3, <1>8, <1>9, <1>11, <2>1, <2>2 DEF SpotTypes
<1>17. RowsSound'
  <2> SUFFICES ASSUME NEW k \in Ids PROVE RowSound(spotOrders[k])'
    BY <1>8 DEF RowsSound
  <2>1. RowSound(spotOrders'[k])
    <3>1. RowSound(spotOrders[k])
      BY DEF SpotInv, RowsSound
    <3> QED BY <1>8, <3>1
  <2> QED BY <2>1 DEF RowSound, Room, InQuote
<1>18. BookWithin'
  <2> SUFFICES ASSUME NEW k \in DOMAIN resting'
               PROVE  /\ k \notin InHand' /\ IsLive(k)' /\ Restable(spotOrders'[k])
                      /\ resting'[k] + Unpaid(k)' <= Room(spotOrders'[k])
                      /\ k \notin cut' \cap lostFills' => resting'[k] + Unpaid(k)' = Room(spotOrders'[k])
    BY DEF BookWithin, Restable, Room, InQuote
  <2>1. k \in DOMAIN resting /\ k # j /\ k \in Ids /\ resting'[k] = resting[k]
    BY <1>1, <1>3, <1>4, <1>11 DEF SpotTypes
  <2>2. CASE k = m
    <3>1. h.after # 0
      BY <1>11, <2>2
    <3>2. PICK x \in Int : x = Room(spotOrders[m])
      BY <1>1, RowOf, ResidualRoom
    <3>3. resting'[k] = h.after /\ Unpaid(k)' = 0 /\ Room(spotOrders'[k]) = x - h.qty
      BY <1>6, <1>8, <1>12, <2>1, <2>2, <3>2
    <3>4. h.after + h.qty <= x /\ (k \notin cut' \cap lostFills' => h.after + h.qty = x)
      BY <1>6, <1>9, <2>2, <3>2
    <3>5. /\ resting'[k] + Unpaid(k)' <= Room(spotOrders'[k])
          /\ k \notin cut' \cap lostFills' => resting'[k] + Unpaid(k)' = Room(spotOrders'[k])
      BY <1>10, <3>2, <3>3, <3>4
    <3> QED BY <1>6, <1>12, <1>14, <1>15, <2>1, <2>2, <3>1, <3>5
  <2>3. CASE k # m
    <3>1. spotOrders'[k] = spotOrders[k] /\ Unpaid(k)' = Unpaid(k) /\ (IsLive(k)' <=> IsLive(k))
      BY <1>6, <1>8, <1>12, <1>15, <2>1, <2>3
    <3>2. /\ IsLive(k) /\ Restable(spotOrders[k]) /\ resting[k] + Unpaid(k) <= Room(spotOrders[k])
          /\ k \notin cut \cap lostFills => resting[k] + Unpaid(k) = Room(spotOrders[k])
      BY <2>1 DEF SpotInv, BookWithin
    <3> QED BY <1>9, <1>12, <2>1, <3>1, <3>2
  <2> QED BY <2>2, <2>3
<1>19. \A k \in Ids \ {j} : IsLive(k)' => IsLive(k) /\ (k \in DOMAIN resting => k \in DOMAIN resting')
  BY <1>6, <1>11, <1>15
<1>20. LiveInBook'
  <2> SUFFICES ASSUME NEW k \in Ids \ {j}, IsLive(k)'
               PROVE  /\ k \notin cut' => k \in DOMAIN resting'
                      /\ RestsWith(spotOrders'[k]) /\ lostFills' = {} => k \in DOMAIN resting'
    BY <1>8, <1>12 DEF LiveInBook, RestsWith
  <2>1. k \in Ids \ InHand
    BY <1>3, <1>4
  <2> QED BY <1>3, <1>9, <1>14, <1>19, <2>1 DEF SpotInv, LiveInBook
<1>21. RowsUncrossed'
  <2> SUFFICES ASSUME lostFills' = {}, NEW a \in Ids \ {j}, NEW b \in Ids \ {j}, IsLive(a)', IsLive(b)',
                      RestsWith(spotOrders'[a]), RestsWith(spotOrders'[b]),
                      spotOrders'[a].side = "buy", spotOrders'[b].side = "sell"
               PROVE  spotOrders'[a].price < spotOrders'[b].price
    BY <1>8, <1>12 DEF RowsUncrossed, RestsWith
  <2>1. a \in Ids \ InHand /\ b \in Ids \ InHand /\ IsLive(a) /\ IsLive(b)
    BY <1>3, <1>4, <1>19
  <2> QED BY <1>9, <1>14, <2>1 DEF SpotInv, RowsUncrossed
<1>22. FilledSound'
  <2> SUFFICES ASSUME NEW k \in Ids \ {j}, k \notin lostFills, spotOrders'[k].status = "filled"
               PROVE  Room(spotOrders'[k]) = 0
    BY <1>8, <1>9, <1>12 DEF FilledSound, Room, InQuote
  <2>1. CASE k = m
    <3>1. h.after = 0
      BY <1>8, <2>1
    <3>2. PICK x \in Int : x = Room(spotOrders[m])
      BY <1>1, RowOf, ResidualRoom
    <3> QED BY <1>6, <1>8, <1>10, <2>1, <3>1, <3>2
  <2>2. CASE k # m
    <3>1. spotOrders'[k] = spotOrders[k] /\ k \in Ids \ (lostFills \cup InHand)
      BY <1>3, <1>4, <1>8, <2>2
    <3> QED BY <3>1 DEF SpotInv, FilledSound
  <2> QED BY <2>1, <2>2
<1>23. Takeable(rj)' = Takeable(spotOrders[j]) \cap DOMAIN resting'
  <2>1. PICK oj : oj = spotOrders[j]
    OBVIOUS
  <2>2. SameOrder(oj, rj) /\ DOMAIN resting \subseteq Ids
    BY <1>1, <1>8, <2>1 DEF SpotTypes
  <2>3. Takeable(rj)' = Takeable(oj) \cap DOMAIN resting'
    BY <1>11, <1>14, <2>2, TakeableSame
  <2> QED BY <2>1, <2>3
<1>24. /\ \A n \in DOMAIN tail : n + 1 \in DOMAIN job.hits /\ tail[n] = job.hits[n + 1] /\ n + 1 # 1 /\ n \in Nat
       /\ \A n \in DOMAIN job.hits : n # 1 => n - 1 \in DOMAIN tail /\ tail[n - 1] = job.hits[n]
       /\ job.hits[1] = h /\ 1 \in DOMAIN job.hits
  BY <1>2, <1>3, <1>4, <1>5, HeadTail
<1>25. \A n \in DOMAIN job.hits : /\ job.hits[n].maker \in Takeable(spotOrders[j])
                                  /\ resting[job.hits[n].maker] = job.hits[n].after
                                  /\ \A k \in DOMAIN job.hits : job.hits[k].maker = job.hits[n].maker => k = n
  BY <1>3, <1>4 DEF HitsSound
<1>26. \A n \in DOMAIN tail : tail[n].maker \in Takeable(rj)' /\ tail[n].maker # m
  <2> TAKE n \in DOMAIN tail
  <2>1. tail[n].maker \in Takeable(spotOrders[j]) /\ tail[n].maker # m
    BY <1>5, <1>24, <1>25
  <2>2. tail[n].maker \in DOMAIN resting
    BY <1>1, <2>1, TakeableIds
  <2> QED BY <1>11, <1>23, <2>1, <2>2
<1>27. HitsSound(rj, tail)'
  <2> SUFFICES ASSUME NEW n \in DOMAIN tail
               PROVE  /\ tail[n].maker \in Takeable(rj)' /\ resting'[tail[n].maker] = tail[n].after
                      /\ \A k \in DOMAIN tail : tail[k].maker = tail[n].maker => k = n
    BY DEF HitsSound
  <2>1. tail[n].maker \in DOMAIN resting'
    BY <1>23, <1>26
  <2>2. resting'[tail[n].maker] = tail[n].after
    BY <1>11, <1>24, <1>25, <2>1
  <2>3. ASSUME NEW k \in DOMAIN tail, tail[k].maker = tail[n].maker PROVE k = n
    <3>1. k + 1 = n + 1 /\ k \in Nat /\ n \in Nat
      BY <1>24, <1>25, <2>3
    <3> QED BY <3>1
  <2> QED BY <1>26, <2>2, <2>3
<1>28. SweptAll(rj, tail, spare)'
  <2> SUFFICES ASSUME rj.tif # "market", spare > 0, NEW i \in Takeable(rj)'
               PROVE  \E n \in DOMAIN tail : tail[n].maker = i /\ tail[n].after = 0
    BY DEF SweptAll
  <2>1. i \in Takeable(spotOrders[j]) /\ i \in DOMAIN resting' /\ spotOrders[j].tif # "market"
    BY <1>8, <1>23 DEF SameOrder
  <2>2. PICK n \in DOMAIN job.hits : job.hits[n].maker = i /\ job.hits[n].after = 0
    BY <1>3, <1>4, <2>1 DEF SweptAll
  <2>3. n # 1
    BY <1>5, <1>11, <1>24, <2>1, <2>2
  <2> QED BY <1>24, <2>2, <2>3
<1>29. JobSound'
  <2>1. SpentBy(rj, tail)' = SpentBy(spotOrders[j], tail)
    <3>1. PICK oj : oj = spotOrders[j]
      OBVIOUS
    <3>2. SameOrder(oj, rj)
      BY <1>8, <3>1
    <3>3. \A n \in DOMAIN tail : tail[n].maker \in Ids
      BY <1>1, <1>24, <1>25, TakeableIds
    <3>4. SpentBy(rj, tail)' = SpentBy(oj, tail)
      BY <1>14, <3>2, <3>3, SpentSame
    <3> QED BY <3>1, <3>4
  <2>2. Room(rj) = spare + SpentBy(rj, tail)'
    BY <1>8, <2>1
  <2>3. j \notin cut' /\ j \notin lostFills' /\ rj.status # "canceled" /\ (rj.status = "filled" => spare = 0)
    BY <1>3, <1>4, <1>8, <1>9
  <2>4. spotOrders'[j] = rj
    BY <1>8
  <2> QED BY ONLY <1>9, <1>27, <1>28, <2>2, <2>3, <2>4, JobSoundNext
<1>30. MoneySound'
  BY <1>4, <1>5, <1>7, <1>9, <1>16, <1>17, FillMoney
<1> QED BY <1>16, <1>17, <1>18, <1>20, <1>21, <1>22, <1>29, <1>30 DEF SpotInv

-----------------------------------------------------------------------------
(* The theorems. *)

LEMMA SpotStart ==
  ASSUME SpotAssumption, SpotInit
  PROVE  SpotInv
<1>1. Ids = {} /\ DOMAIN resting = {}
  BY DEF SpotInit, Ids
<1>2. /\ spotOrders = << >> /\ avail = Purse /\ frozen = [u \in Traders |-> [t \in Tokens |-> 0]]
      /\ resting = << >> /\ job = Idle /\ up = TRUE /\ faults = 0
      /\ cut = {} /\ lostFills = {} /\ halfRefunded = {} /\ strayLock = {}
  BY DEF SpotInit
<1>3. InHand = {} /\ \A u, t : Reserved(u, t) = 0
  BY <1>2, IdleFacts
<1>4. SpotTypes
  <2>1. spotOrders \in Seq(SpotRow)
    BY <1>2
  <2>2. avail \in [Traders -> [Tokens -> Nat]] /\ frozen \in [Traders -> [Tokens -> Int]]
    BY <1>2 DEF SpotAssumption, Tokens
  <2>3. resting \in [DOMAIN resting -> Nat]
    BY <1>1, <1>2
  <2>4. faults \in 0 .. MaxSpotFaults
    BY <1>2 DEF SpotAssumption
  <2> QED BY <1>1, <1>2, <2>1, <2>2, <2>3, <2>4 DEF SpotTypes, JobTypes
<1>5. RowsSound /\ BookWithin /\ LiveInBook /\ RowsUncrossed /\ FilledSound
  BY <1>1 DEF RowsSound, BookWithin, LiveInBook, RowsUncrossed, FilledSound
<1>6. JobSound
  BY <1>2 DEF JobSound, Idle
<1>7. MoneySound
  <2>1. \A u, t : Claims(u, t) = 0
    BY <1>1, SumEmpty DEF Claims
  <2>2. \A u \in Traders, t \in Tokens : frozen[u][t] = 0
    BY <1>2
  <2>3. "base" \in Tokens
    BY DEF Tokens
  <2> QED BY <1>3, <2>1, <2>2, <2>3 DEF MoneySound
<1> QED BY <1>4, <1>5, <1>6, <1>7 DEF SpotInv

LEMMA SpotStutter ==
  ASSUME SpotInv, UNCHANGED spotVars
  PROVE  SpotInv'
<1>1. UNCHANGED <<spotOrders, avail, frozen, resting, job, up, wallets, faults, cut, lostFills, halfRefunded, strayLock>>
  BY DEF spotVars, histories
<1>2. SpotTypes'
  BY <1>1 DEF SpotInv, SpotTypes, JobTypes, Ids
<1>3. /\ InHand' = InHand /\ Closing' = Closing /\ \A i : Unpaid(i)' = Unpaid(i)
      /\ \A u, t : Reserved(u, t)' = Reserved(u, t)
  BY <1>1 DEF InHand, Closing, Unpaid, UnpaidIn, HitsOn, Reserved, LockToken, LockOf
<1>4. RowsSound' /\ BookWithin' /\ LiveInBook' /\ RowsUncrossed' /\ FilledSound'
  BY <1>1, <1>3, RowsKept
<1>5. MoneySound'
  <2>1. \A i \in Ids : Counted(i)' <=> Counted(i)
    BY <1>1, <1>3 DEF Counted, IsLive
  <2> QED BY <1>1, <1>3, <2>1, MoneyKept
<1>6. JobSound'
  BY <1>1 DEF SpotInv, JobSound, NewRow, RowSound, Room, InQuote, RestsWith, SpentBy, Spents, SpentOf,
     HitsSound, SweptAll, Takeable, Reaches
<1> QED BY <1>2, <1>4, <1>5, <1>6 DEF SpotInv

LEMMA SpotStep ==
  ASSUME SpotAssumption, SpotInv, [SpotNext]_spotVars
  PROVE  SpotInv'
<1>1. CASE \E o \in LimitOrders \cup MarketOrders : Place(o)
  BY <1>1, PlaceInv
<1>2. CASE InsertAndMatch
  BY <1>2, InsertAndMatchInv
<1>3. CASE CommitFill
  BY <1>3, CommitFillInv
<1>4. CASE Rest
  BY <1>4, RestInv
<1>5. CASE RefundRest
  BY <1>5, RefundRestInv
<1>6. CASE CloseRow
  BY <1>6, CloseRowInv
<1>7. CASE Fill
  BY <1>7, FillInv
<1>8. CASE \E i \in Ids : CancelOrder(i)
  BY <1>8, CancelOrderInv
<1>9. CASE StatementFails
  BY <1>9, StatementFailsInv
<1>10. CASE SpotCrash
  BY <1>10, SpotCrashInv
<1>11. CASE \E i \in Ids : RecoverRow(i)
  BY <1>11, RecoverRowInv
<1>12. CASE Start
  BY <1>12, StartInv
<1>13. CASE UNCHANGED spotVars
  BY <1>13, SpotStutter
<1> QED BY <1>1, <1>2, <1>3, <1>4, <1>5, <1>6, <1>7, <1>8, <1>9, <1>10, <1>11, <1>12, <1>13 DEF SpotNext

\* SpotInv is inductive: whatever statement fails and however often the task is
\* restarted, the book with the hits not yet committed is within the rows, equal
\* to them where no hit was lost; the sweep in hand adds up to the room of its
\* order and reaches each maker once; and the frozen balances cover what the
\* orders with a row, and the freeze whose row is still to come, can claim.
THEOREM SpotInvariant == SpotSpec => []SpotInv
<1>1. SpotInit => SpotInv
  BY SpotAssumption, SpotStart
<1>2. SpotInv /\ [SpotNext]_spotVars => SpotInv'
  BY SpotAssumption, SpotStep
<1> QED BY <1>1, <1>2, PTL DEF SpotSpec

\* Between commands the book of a spot market is its live rows, with the rows'
\* remainders, until a command is cut short; resting good-till-cancelled orders
\* are uncrossed; a row is 'filled' only when all of it traded; no row trades
\* beyond its size.
THEOREM SpotBooksAgree == SpotSpec => []BookAndRowsAgree
<1>1. SpotInv => BookAndRowsAgree
  BY SpotAssumption, InvImplies
<1> QED BY <1>1, SpotInvariant, PTL

\* The frozen balance of a trader covers the residual of all live orders at every
\* statement, and is exactly that for the base token between commands, unless a
\* hit or an order's row was lost or a refund was not followed by its row.
THEOREM SpotLocksCovered == SpotSpec => []LocksCovered
<1>1. SpotInv => LocksCovered
  BY SpotAssumption, InvImplies
<1> QED BY <1>1, SpotInvariant, PTL
=============================================================================
